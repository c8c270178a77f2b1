---------------------------- MODULE DeviceProofs ----------------------------
(***************************************************************************)
(* Machine-checked theorems about the scripts of a board: the boot switch, *)
(* for any files of either profile and any number of runs cut off, and     *)
(* provisioning with updates, for any number of versions and mishaps.      *)
(***************************************************************************)
EXTENDS Device, BootSwitch, TLAPS

SwitchTypeOK ==
    /\ mount \in [DOMAIN mount -> FileOrigin] /\ HostFiles \subseteq DOMAIN mount
    /\ snapshot \in [DOMAIN snapshot -> FileOrigin]
    /\ switch.pc \in {"idle", "snapshot", "stage", "apply"}
    /\ switch.to \in {"host", "pinet"}

PinetFree(d) == \A f \in DOMAIN d : d[f] # "pinet"

OwnOnly(d) == \A f \in DOMAIN d : d[f] \in HostsOwn

(* All of the host's files are saved, none of them torn. *)
Whole == HostFiles \subseteq DOMAIN snapshot /\ OwnOnly(snapshot)

(* A file that is not the host's is only ever on the partition when a      *)
(* snapshot is found, and then none is taken any more; and a snapshot that *)
(* is found is whole, but for a run cut off in the saving.                 *)
SnapshotInv ==
    /\ PinetFree(snapshot)
    /\ SnapshotFound \/ OwnOnly(mount)
    /\ label # "none" => SnapshotFound
    /\ switch.pc \in {"stage", "apply"} => SnapshotFound
    /\ halfSaved \in BOOLEAN
    /\ halfSaved => SnapshotFound
    /\ ~halfSaved /\ SnapshotFound /\ switch.pc # "snapshot" => Whole
    /\ switch.pc = "snapshot" =>
         /\ label = "none" /\ ~halfSaved /\ OwnOnly(mount) /\ OwnOnly(snapshot)
         /\ HostFiles \subseteq DOMAIN snapshot \cup switch.left
         /\ switch.left \subseteq DOMAIN mount

Holds(f, origins) == f \in DOMAIN mount /\ mount[f] \in origins

(* What was copied of the profile under way. *)
ApplyInv ==
    switch.pc = "apply" =>
        /\ switch.to = "pinet" => \A f \in PinetFiles \ switch.left : Holds(f, {"pinet"})
        /\ switch.to = "host" =>
             /\ switch.left \subseteq DOMAIN snapshot
             /\ \A f \in DOMAIN snapshot \ switch.left : Holds(f, {snapshot[f]})

(* A profile is whole from its label to the first file of the next. *)
LabelInv ==
    ~halfApplied =>
        /\ label = "pinet" => \A f \in PinetFiles : Holds(f, {"pinet"})
        /\ label = "host" => \A f \in DOMAIN snapshot : Holds(f, {snapshot[f], "updated"})

SwitchInv == SwitchTypeOK /\ SnapshotInv /\ ApplyInv /\ LabelInv

-----------------------------------------------------------------------------

LEMMA PutOrigin ==
    ASSUME NEW d, NEW e, NEW f, NEW v,
           d \in [DOMAIN d -> FileOrigin], v \in FileOrigin, e = Put(d, f, v)
    PROVE  /\ DOMAIN e = DOMAIN d \cup {f}
           /\ e \in [DOMAIN e -> FileOrigin]
           /\ e[f] = v
           /\ \A x \in DOMAIN d \ {f} : e[x] = d[x]
<1> HIDE DEF FileOrigin
<1> QED BY DEF Put

LEMMA SwitchingTo ==
    ASSUME NEW pc, NEW to, NEW files, Switching(pc, to, files)
    PROVE  switch'.pc = pc /\ switch'.to = to /\ switch'.left = files
BY DEF Switching

LEMMA Rests == AtRest.pc = "idle" /\ AtRest.to = "host"
BY DEF AtRest

LEMMA EmptyIsDict == EmptyDict \in [DOMAIN EmptyDict -> FileOrigin] /\ DOMAIN EmptyDict = {}
BY DEF EmptyDict

LEMMA SwitchInitInv == SwitchInit => SwitchInv
<1> SUFFICES ASSUME SwitchInit PROVE SwitchInv
  OBVIOUS
<1>1. /\ mount = [f \in HostFiles |-> "host"] /\ snapshot = EmptyDict /\ label = "none"
      /\ switch = AtRest /\ halfSaved = FALSE
  BY DEF SwitchInit
<1>2. mount \in [DOMAIN mount -> FileOrigin] /\ DOMAIN mount = HostFiles /\ OwnOnly(mount)
  BY <1>1 DEF FileOrigin, OwnOnly, HostsOwn
<1>3. PinetFree(snapshot)
  BY <1>1, EmptyIsDict DEF PinetFree
<1>4. SwitchTypeOK
  BY <1>1, <1>2, EmptyIsDict, Rests DEF SwitchTypeOK
<1>5. SnapshotInv
  <2>1. ~SnapshotFound
    BY <1>1, EmptyIsDict DEF SnapshotFound, Marks
  <2> QED BY <1>1, <1>2, <1>3, <2>1, Rests DEF SnapshotInv
<1>6. ApplyInv /\ LabelInv
  BY <1>1, Rests DEF ApplyInv, LabelInv
<1> QED BY <1>4, <1>5, <1>6 DEF SwitchInv

LEMMA BeginPinetStep == SwitchInv /\ BeginPinet => SwitchInv'
<1> SUFFICES ASSUME SwitchInv, BeginPinet PROVE SwitchInv'
  OBVIOUS
<1>1. UNCHANGED <<mount, label, halfApplied, halfSaved>>
  BY DEF BeginPinet
<1>2. CASE SnapshotFound /\ Switching("stage", "pinet", {}) /\ UNCHANGED snapshot
  <2>1. switch'.pc = "stage" /\ switch'.to = "pinet"
    BY <1>2, SwitchingTo
  <2>2. SwitchTypeOK'
    BY <1>1, <1>2, <2>1 DEF SwitchInv, SwitchTypeOK
  <2>3. SnapshotInv'
    <3>1. switch.pc = "idle"
      BY DEF BeginPinet
    <3> QED BY <1>1, <1>2, <2>1, <3>1
        DEF SwitchInv, SnapshotInv, SnapshotFound, PinetFree, OwnOnly, Whole
  <2>4. ApplyInv' /\ LabelInv'
    BY <1>1, <1>2, <2>1 DEF SwitchInv, ApplyInv, LabelInv, Holds
  <2> QED BY <2>2, <2>3, <2>4 DEF SwitchInv
<1>3. CASE /\ ~SnapshotFound /\ snapshot' = EmptyDict
           /\ Switching("snapshot", "pinet", DOMAIN mount)
  <2>1. switch'.pc = "snapshot" /\ switch'.to = "pinet" /\ switch'.left = DOMAIN mount
    BY <1>3, SwitchingTo
  <2>2. label = "none" /\ OwnOnly(mount) /\ ~halfSaved
    BY <1>3 DEF SwitchInv, SnapshotInv
  <2>3. SwitchTypeOK'
    BY <1>1, <1>3, <2>1, EmptyIsDict DEF SwitchInv, SwitchTypeOK
  <2>4. HostFiles \subseteq DOMAIN mount
    BY DEF SwitchInv, SwitchTypeOK
  <2>5. SnapshotInv'
    <3>1. PinetFree(snapshot)' /\ OwnOnly(snapshot)'
      BY <1>3, EmptyIsDict DEF PinetFree, OwnOnly
    <3>2. OwnOnly(mount)' /\ label' = "none" /\ halfSaved' = FALSE
      BY <1>1, <2>2 DEF OwnOnly, SwitchInv, SnapshotInv
    <3>3. HostFiles \subseteq switch'.left /\ switch'.left \subseteq DOMAIN mount'
      BY <1>1, <2>1, <2>4
    <3> QED BY <2>1, <3>1, <3>2, <3>3 DEF SnapshotInv
  <2>6. ApplyInv' /\ LabelInv'
    BY <1>1, <2>1, <2>2 DEF ApplyInv, LabelInv
  <2> QED BY <2>3, <2>5, <2>6 DEF SwitchInv
<1> QED BY <1>2, <1>3 DEF BeginPinet

LEMMA BeginHostStep == SwitchInv /\ BeginHost => SwitchInv'
<1> SUFFICES ASSUME SwitchInv, BeginHost PROVE SwitchInv'
  OBVIOUS
<1>1. UNCHANGED <<mount, snapshot, label, halfApplied, halfSaved>> /\ SnapshotFound
      /\ switch.pc = "idle"
  BY DEF BeginHost
<1>2. switch'.pc = "apply" /\ switch'.to = "host" /\ switch'.left = DOMAIN snapshot
  BY SwitchingTo DEF BeginHost
<1>3. SwitchTypeOK' /\ SnapshotInv'
  BY <1>1, <1>2 DEF SwitchInv, SwitchTypeOK, SnapshotInv, SnapshotFound, PinetFree, OwnOnly, Whole
<1>4. ApplyInv' /\ LabelInv'
  BY <1>1, <1>2 DEF SwitchInv, ApplyInv, LabelInv, Holds
<1> QED BY <1>3, <1>4 DEF SwitchInv

\* One file more in the snapshot, and what it leaves of the types.
LEMMA SnapshotGrows ==
    ASSUME SwitchInv, NEW f, NEW v \in FileOrigin, v # "pinet",
           snapshot' = Put(snapshot, f, v)
    PROVE  /\ DOMAIN snapshot' = DOMAIN snapshot \cup {f}
           /\ snapshot' \in [DOMAIN snapshot' -> FileOrigin] /\ PinetFree(snapshot)'
           /\ v \in HostsOwn => (OwnOnly(snapshot) => OwnOnly(snapshot)')
<1>1. /\ DOMAIN snapshot' = DOMAIN snapshot \cup {f}
      /\ snapshot' \in [DOMAIN snapshot' -> FileOrigin]
  <2>1. snapshot \in [DOMAIN snapshot -> FileOrigin]
    BY DEF SwitchInv, SwitchTypeOK
  <2> QED BY <2>1, PutOrigin
<1>2. snapshot'[f] = v /\ \A x \in DOMAIN snapshot \ {f} : snapshot'[x] = snapshot[x]
  BY DEF Put
<1>3. PinetFree(snapshot)'
  BY <1>1, <1>2 DEF SwitchInv, SnapshotInv, PinetFree
<1> QED BY <1>1, <1>2, <1>3 DEF OwnOnly

LEMMA SaveFileStep ==
    ASSUME SwitchInv, NEW f, SaveFile(f)
    PROVE  SwitchInv'
<1>1. /\ switch.pc = "snapshot" /\ f \in switch.left /\ snapshot' = Put(snapshot, f, mount[f])
      /\ UNCHANGED <<mount, label, halfApplied, halfSaved>>
  BY DEF SaveFile
<1>2. switch'.pc = "snapshot" /\ switch'.to = "pinet" /\ switch'.left = switch.left \ {f}
  BY SwitchingTo DEF SaveFile
<1>3. /\ label = "none" /\ ~halfSaved /\ OwnOnly(mount) /\ OwnOnly(snapshot)
      /\ HostFiles \subseteq DOMAIN snapshot \cup switch.left /\ switch.left \subseteq DOMAIN mount
  BY <1>1 DEF SwitchInv, SnapshotInv
<1>4. mount[f] \in FileOrigin /\ mount[f] \in HostsOwn /\ mount[f] # "pinet"
  BY <1>1, <1>3 DEF OwnOnly, HostsOwn, FileOrigin
<1>5. /\ DOMAIN snapshot' = DOMAIN snapshot \cup {f} /\ OwnOnly(snapshot)'
      /\ snapshot' \in [DOMAIN snapshot' -> FileOrigin] /\ PinetFree(snapshot)'
  BY <1>1, <1>3, <1>4, SnapshotGrows
<1>6. SwitchTypeOK'
  BY <1>1, <1>2, <1>5 DEF SwitchInv, SwitchTypeOK
<1>7. OwnOnly(mount)' /\ label' = "none" /\ ~halfSaved' /\ halfSaved' \in BOOLEAN
  BY <1>1, <1>3 DEF OwnOnly, SwitchInv, SnapshotInv
<1>8. /\ HostFiles \subseteq DOMAIN snapshot' \cup switch'.left
      /\ switch'.left \subseteq DOMAIN mount'
  BY <1>1, <1>2, <1>3, <1>5
<1>9. SnapshotInv'
  BY <1>2, <1>5, <1>7, <1>8 DEF SnapshotInv
<1>10. ApplyInv' /\ LabelInv'
  BY <1>2, <1>7 DEF ApplyInv, LabelInv
<1> QED BY <1>6, <1>9, <1>10 DEF SwitchInv

\* The saving is cut off, perhaps inside a file.
LEMMA SavingCut ==
    ASSUME SwitchInv, switch.pc = "snapshot",
           \/ UNCHANGED snapshot
           \/ \E f \in switch.left : snapshot' = Put(snapshot, f, "torn"),
           UNCHANGED <<mount, label, halfApplied>>,
           halfSaved' = (halfSaved \/ SnapshotFound'), switch' = AtRest
    PROVE  SwitchInv'
<1>1. switch'.pc = "idle" /\ switch'.to = "host"
  BY Rests
<1>2. snapshot' \in [DOMAIN snapshot' -> FileOrigin] /\ PinetFree(snapshot)'
  <2>1. CASE UNCHANGED snapshot
    BY <2>1 DEF SwitchInv, SwitchTypeOK, SnapshotInv, PinetFree
  <2>2. CASE \E f \in switch.left : snapshot' = Put(snapshot, f, "torn")
    <3>1. "torn" \in FileOrigin /\ "torn" # "pinet"
      BY DEF FileOrigin
    <3> QED BY <2>2, <3>1, SnapshotGrows
  <2> QED BY <2>1, <2>2
<1>3. label = "none" /\ ~halfSaved /\ OwnOnly(mount)
  BY DEF SwitchInv, SnapshotInv
<1>4. SwitchTypeOK'
  BY <1>1, <1>2 DEF SwitchInv, SwitchTypeOK
<1>5. OwnOnly(mount)' /\ label' = "none" /\ (halfSaved' <=> SnapshotFound')
  BY <1>3 DEF OwnOnly
<1>6. halfSaved' \in BOOLEAN
  BY <1>3 DEF SnapshotFound
<1>7. SnapshotInv'
  BY <1>1, <1>2, <1>5, <1>6 DEF SnapshotInv
<1>8. ApplyInv' /\ LabelInv'
  BY <1>1, <1>5 DEF ApplyInv, LabelInv
<1> QED BY <1>4, <1>7, <1>8 DEF SwitchInv

LEMMA SnapshotTakenStep == SwitchInv /\ SnapshotTaken => SwitchInv'
<1> SUFFICES ASSUME SwitchInv, SnapshotTaken PROVE SwitchInv'
  OBVIOUS
<1>1. UNCHANGED <<mount, snapshot, label, halfApplied, halfSaved>>
  BY DEF SnapshotTaken
<1>2. switch'.pc = "stage" /\ switch'.to = "pinet"
  BY SwitchingTo DEF SnapshotTaken
<1>3. Whole /\ SnapshotFound
  <2>1. Whole
    BY DEF SnapshotTaken, SwitchInv, SnapshotInv, Whole
  <2> QED BY <2>1, BootSwitchAssumption DEF Whole, SnapshotFound
<1>4. SwitchTypeOK' /\ SnapshotInv'
  BY <1>1, <1>2, <1>3
     DEF SwitchInv, SwitchTypeOK, SnapshotInv, SnapshotFound, PinetFree, OwnOnly, Whole
<1>5. ApplyInv' /\ LabelInv'
  BY <1>1, <1>2 DEF SwitchInv, ApplyInv, LabelInv, Holds
<1> QED BY <1>4, <1>5 DEF SwitchInv

\* The script comes to rest with the files as they are.
LEMMA ComesToRest ==
    ASSUME SwitchInv, UNCHANGED <<mount, snapshot, label, halfApplied, halfSaved>>,
           switch.pc # "snapshot",
           switch'.pc = "idle", switch'.to \in {"host", "pinet"}
    PROVE  SwitchInv'
<1>1. SwitchTypeOK' /\ SnapshotInv'
  BY DEF SwitchInv, SwitchTypeOK, SnapshotInv, SnapshotFound, PinetFree, OwnOnly, Whole
<1>2. ApplyInv' /\ LabelInv'
  BY DEF SwitchInv, ApplyInv, LabelInv, Holds
<1> QED BY <1>1, <1>2 DEF SwitchInv

LEMMA StagePinetStep == SwitchInv /\ StagePinet => SwitchInv'
<1> SUFFICES ASSUME SwitchInv, StagePinet PROVE SwitchInv'
  OBVIOUS
<1>1. UNCHANGED <<mount, snapshot, label, halfApplied, halfSaved>> /\ SnapshotFound
      /\ switch.pc = "stage"
  BY DEF StagePinet, SwitchInv, SnapshotInv
<1>2. CASE Switching("apply", "pinet", PinetFiles)
  <2>1. switch'.pc = "apply" /\ switch'.to = "pinet" /\ switch'.left = PinetFiles
    BY <1>2, SwitchingTo
  <2>2. SwitchTypeOK' /\ SnapshotInv'
    BY <1>1, <2>1
       DEF SwitchInv, SwitchTypeOK, SnapshotInv, SnapshotFound, PinetFree, OwnOnly, Whole
  <2>3. ApplyInv' /\ LabelInv'
    BY <1>1, <2>1 DEF SwitchInv, ApplyInv, LabelInv, Holds
  <2> QED BY <2>2, <2>3 DEF SwitchInv
<1>3. CASE switch' = AtRest
  BY <1>1, <1>3, Rests, ComesToRest
<1> QED BY <1>2, <1>3 DEF StagePinet

\* A file of the partition is overwritten, wholly or in part.
LEMMA Overwritten ==
    ASSUME SwitchInv, SnapshotFound, NEW f, NEW v \in FileOrigin,
           mount' = Put(mount, f, v), UNCHANGED <<snapshot, label, halfSaved>>,
           halfApplied' = TRUE, switch.pc # "snapshot",
           switch'.pc \in {"idle", "apply"}, switch'.to \in {"host", "pinet"}
    PROVE  SwitchTypeOK' /\ SnapshotInv' /\ LabelInv'
<1>1. /\ DOMAIN mount' = DOMAIN mount \cup {f}
      /\ mount' \in [DOMAIN mount' -> FileOrigin]
  <2>1. mount \in [DOMAIN mount -> FileOrigin]
    BY DEF SwitchInv, SwitchTypeOK
  <2> QED BY <2>1, PutOrigin
<1>2. SwitchTypeOK'
  BY <1>1 DEF SwitchInv, SwitchTypeOK
<1>3. SnapshotInv'
  BY DEF SwitchInv, SnapshotInv, SnapshotFound, PinetFree, OwnOnly, Whole
<1> QED BY <1>2, <1>3 DEF LabelInv

LEMMA ApplyFileStep ==
    ASSUME SwitchInv, NEW f, ApplyFile(f)
    PROVE  SwitchInv'
<1> DEFINE v == IF switch.to = "pinet" THEN "pinet" ELSE snapshot[f]
<1>1. /\ switch.pc = "apply" /\ f \in switch.left /\ UNCHANGED <<snapshot, label, halfSaved>>
      /\ mount' = Put(mount, f, v) /\ halfApplied' = TRUE
  BY DEF ApplyFile
<1>2. switch'.pc = "apply" /\ switch'.to = switch.to /\ switch'.left = switch.left \ {f}
  BY SwitchingTo DEF ApplyFile
<1>3. SnapshotFound /\ switch.to \in {"host", "pinet"}
  BY <1>1 DEF SwitchInv, SnapshotInv, SwitchTypeOK
<1>4. v \in FileOrigin
  BY <1>1, <1>3 DEF SwitchInv, SwitchTypeOK, ApplyInv, FileOrigin
<1>5. SwitchTypeOK' /\ SnapshotInv' /\ LabelInv'
  <2> HIDE DEF v
  <2> QED BY <1>1, <1>2, <1>3, <1>4, Overwritten
<1>6. /\ DOMAIN mount' = DOMAIN mount \cup {f} /\ mount'[f] = v
      /\ \A g \in DOMAIN mount \ {f} : mount'[g] = mount[g]
  <2>1. mount' = Put(mount, f, v)
    BY <1>1
  <2> HIDE DEF v
  <2> QED BY <2>1 DEF Put
<1>7. CASE switch.to = "pinet"
  <2>1. \A g \in PinetFiles \ switch.left : Holds(g, {"pinet"})
    BY <1>1, <1>7 DEF SwitchInv, ApplyInv
  <2>2. \A g \in PinetFiles \ switch'.left : Holds(g, {"pinet"})'
    BY <1>2, <1>6, <1>7, <2>1 DEF Holds
  <2> QED BY <1>2, <1>5, <1>7, <2>2 DEF SwitchInv, ApplyInv
<1>8. CASE switch.to = "host"
  <2>1. /\ switch.left \subseteq DOMAIN snapshot
        /\ \A g \in DOMAIN snapshot \ switch.left : Holds(g, {snapshot[g]})
    BY <1>1, <1>8 DEF SwitchInv, ApplyInv
  <2>2. \A g \in DOMAIN snapshot \ switch'.left : Holds(g, {snapshot[g]})'
    BY <1>1, <1>2, <1>6, <1>8, <2>1 DEF Holds
  <2> QED BY <1>1, <1>2, <1>5, <1>8, <2>1, <2>2 DEF SwitchInv, ApplyInv
<1> QED BY <1>3, <1>7, <1>8

LEMMA LabelProfileStep == SwitchInv /\ LabelProfile => SwitchInv'
<1> SUFFICES ASSUME SwitchInv, LabelProfile PROVE SwitchInv'
  OBVIOUS
<1>1. /\ UNCHANGED <<mount, snapshot, halfSaved>> /\ label' = switch.to /\ switch' = AtRest
      /\ switch.pc = "apply" /\ switch.left = {}
  BY DEF LabelProfile
<1>2. SwitchTypeOK' /\ SnapshotInv'
  BY <1>1, Rests
     DEF SwitchInv, SwitchTypeOK, SnapshotInv, SnapshotFound, PinetFree, OwnOnly, Whole
<1>3. ApplyInv'
  BY <1>1, Rests DEF ApplyInv
<1>4. LabelInv'
  BY <1>1 DEF SwitchInv, ApplyInv, LabelInv, Holds
<1> QED BY <1>2, <1>3, <1>4 DEF SwitchInv

LEMMA SwitchCutStep == SwitchInv /\ SwitchCut => SwitchInv'
<1> SUFFICES ASSUME SwitchInv, SwitchCut PROVE SwitchInv'
  OBVIOUS
<1>1. switch'.pc = "idle" /\ switch'.to = "host" /\ UNCHANGED label /\ switch' = AtRest
  BY Rests DEF SwitchCut
<1>2. CASE switch.pc = "snapshot"
  <2>1. /\ \/ UNCHANGED snapshot
           \/ \E f \in switch.left : snapshot' = Put(snapshot, f, "torn")
        /\ UNCHANGED <<mount, halfApplied>> /\ halfSaved' = (halfSaved \/ SnapshotFound')
    BY <1>2 DEF SwitchCut
  <2> QED BY <1>1, <1>2, <2>1, SavingCut
<1>3. CASE switch.pc = "apply"
  <2>1. halfSaved' = halfSaved
    BY <1>3 DEF SwitchCut, SwitchInv, SnapshotInv
  <2>2. CASE UNCHANGED <<mount, snapshot, halfApplied>>
    BY <1>1, <1>3, <2>1, <2>2, ComesToRest
  <2>3. ASSUME NEW f \in switch.left, mount' = Put(mount, f, "torn"), halfApplied' = TRUE,
               UNCHANGED snapshot
        PROVE  SwitchInv'
    <3>1. SnapshotFound /\ "torn" \in FileOrigin
      BY <1>3 DEF SwitchInv, SnapshotInv, FileOrigin
    <3>2. SwitchTypeOK' /\ SnapshotInv' /\ LabelInv'
      BY <1>1, <1>3, <2>1, <2>3, <3>1, Overwritten
    <3> QED BY <1>1, <3>2 DEF SwitchInv, ApplyInv
  <2> QED BY <1>3, <2>2, <2>3 DEF SwitchCut
<1> QED BY <1>2, <1>3 DEF SwitchCut

LEMMA HostUpgradesStep ==
    ASSUME SwitchInv, NEW f \in HostFiles, HostUpgrades(f)
    PROVE  SwitchInv'
<1>1. /\ switch.pc = "idle" /\ label # "pinet" /\ mount[f] = "host"
      /\ mount' = Put(mount, f, "updated") /\ UNCHANGED <<snapshot, label, switch, halfApplied, halfSaved>>
  BY DEF HostUpgrades
<1>2. f \in DOMAIN mount /\ "updated" \in FileOrigin
  BY DEF SwitchInv, SwitchTypeOK, FileOrigin
<1>3. /\ DOMAIN mount' = DOMAIN mount /\ mount' \in [DOMAIN mount' -> FileOrigin]
      /\ mount'[f] = "updated" /\ \A g \in DOMAIN mount \ {f} : mount'[g] = mount[g]
  <2>1. DOMAIN mount \cup {f} = DOMAIN mount
    BY <1>2
  <2>2. mount \in [DOMAIN mount -> FileOrigin]
    BY DEF SwitchInv, SwitchTypeOK
  <2>3. mount' \in [DOMAIN mount' -> FileOrigin]
    BY <1>1, <1>2, <2>2, PutOrigin
  <2>4. /\ DOMAIN mount' = DOMAIN mount \cup {f} /\ mount'[f] = "updated"
        /\ \A g \in DOMAIN mount \ {f} : mount'[g] = mount[g]
    BY <1>1 DEF Put
  <2> QED BY <2>1, <2>3, <2>4
<1>4. SwitchTypeOK'
  BY <1>1, <1>3 DEF SwitchInv, SwitchTypeOK
<1>5. OwnOnly(mount) => OwnOnly(mount)'
  BY <1>3 DEF OwnOnly, HostsOwn
<1>6. SnapshotInv'
  BY <1>1, <1>5 DEF SwitchInv, SnapshotInv, SnapshotFound, PinetFree, OwnOnly, Whole
<1>7. ApplyInv'
  BY <1>1 DEF ApplyInv
<1>8. LabelInv'
  BY <1>1, <1>2, <1>3 DEF SwitchInv, LabelInv, Holds
<1> QED BY <1>4, <1>6, <1>7, <1>8 DEF SwitchInv

LEMMA SwitchStepInv == SwitchInv /\ [SwitchNext]_switchVars => SwitchInv'
<1> SUFFICES ASSUME SwitchInv, [SwitchNext]_switchVars PROVE SwitchInv'
  OBVIOUS
<1>1. CASE BeginPinet \/ BeginHost
  BY <1>1, BeginPinetStep, BeginHostStep
<1>2. CASE \E f \in HostFiles \cup PinetFiles : SaveFile(f) \/ ApplyFile(f)
  BY <1>2, SaveFileStep, ApplyFileStep
<1>3. CASE SnapshotTaken \/ StagePinet \/ LabelProfile
  BY <1>3, SnapshotTakenStep, StagePinetStep, LabelProfileStep
<1>4. CASE SwitchCut
  BY <1>4, SwitchCutStep
<1>5. CASE \E f \in HostFiles : HostUpgrades(f)
  BY <1>5, HostUpgradesStep
<1>6. CASE UNCHANGED switchVars
  <2>1. UNCHANGED <<mount, snapshot, label, switch, halfApplied, halfSaved>>
    BY <1>6 DEF switchVars
  <2>2. SwitchTypeOK' /\ SnapshotInv'
    BY <2>1 DEF SwitchInv, SwitchTypeOK, SnapshotInv, SnapshotFound, PinetFree, OwnOnly, Whole
  <2>3. ApplyInv' /\ LabelInv'
    BY <2>1 DEF SwitchInv, ApplyInv, LabelInv, Holds
  <2> QED BY <2>2, <2>3 DEF SwitchInv
<1> QED BY <1>1, <1>2, <1>3, <1>4, <1>5, <1>6 DEF SwitchNext

(* For any files of either profile and any number of runs cut off, the way *)
(* back to the host stays open: no file of it is touched before it is      *)
(* saved, unless the saving itself was cut off after the two marks, and a  *)
(* way back brings every one (scripts/pinet-boot-switch.sh).               *)
THEOREM HostCanAlwaysReturn == SwitchSpec => []HostCanReturn
<1>1. ASSUME SwitchInv PROVE HostCanReturn
  <2>1. HostFiles \subseteq DOMAIN mount
    BY <1>1 DEF SwitchInv, SwitchTypeOK
  <2>2. \A f \in DOMAIN snapshot : snapshot[f] # "pinet"
    BY <1>1 DEF SwitchInv, SnapshotInv, PinetFree
  <2>3. ASSUME ~halfSaved, NEW f \in HostFiles, mount[f] \notin HostsOwn
        PROVE  f \in DOMAIN snapshot /\ snapshot[f] \in HostsOwn
    <3>1. ~OwnOnly(mount)
      BY <2>1, <2>3 DEF OwnOnly
    <3>2. SnapshotFound /\ switch.pc # "snapshot"
      BY <1>1, <3>1 DEF SwitchInv, SnapshotInv
    <3> QED BY <1>1, <2>3, <3>2 DEF SwitchInv, SnapshotInv, Whole, OwnOnly
  <2>4. ASSUME ~halfSaved, switch.pc = "idle", ~halfApplied, label = "host", NEW f \in HostFiles
        PROVE  mount[f] \in HostsOwn
    <3>1. Whole
      BY <1>1, <2>4 DEF SwitchInv, SnapshotInv
    <3>2. mount[f] \in {snapshot[f], "updated"} /\ snapshot[f] \in HostsOwn
      BY <1>1, <2>4, <3>1 DEF SwitchInv, LabelInv, Holds, Whole, OwnOnly
    <3> QED BY <3>2 DEF HostsOwn
  <2>5. ~halfApplied /\ label = "pinet" => \A f \in PinetFiles : mount[f] = "pinet"
    BY <1>1 DEF SwitchInv, LabelInv, Holds
  <2> QED BY <2>2, <2>3, <2>4, <2>5 DEF HostCanReturn
<1> QED
  BY <1>1, SwitchInitInv, SwitchStepInv, PTL DEF SwitchSpec
-----------------------------------------------------------------------------
(* Provisioning and updates. *)

Kept == {"keygen", "useradd", "home", "hostname", "services", "version"}

\* The step that leaves each of them is behind the script.
Behind == [k \in Kept |->
             CASE k = "keygen" -> 3 [] k = "useradd" -> 4 [] k = "home" -> 7
               [] k = "hostname" -> 8 [] k = "services" -> 9 [] k = "version" -> 10]

OtaPc == {"idle", "download", "install", "rsync", "units", "record", "restart"}

DeviceTypeOK ==
    /\ phase \in {"off", "provisioning", "running"}
    /\ step \in 0..11
    /\ version \in Nat /\ latest \in Nat \ {0}
    /\ app \subseteq Nat \ {0} /\ units \subseteq Nat \ {0}
    /\ skipped \in BOOLEAN
    /\ ota \in [pc : OtaPc, target : Nat]

(* The script runs only while the board is provisioned, and only while     *)
(* there is no marker; what it has passed is there.                        *)
ProvisionInv ==
    /\ phase # "provisioning" => step = 0
    /\ phase # "running" => ota.pc = "idle"
    /\ step # 0 => "mark" \notin made
    /\ \A k \in Kept : step > Behind[k] => k \in made
    /\ "mark" \in made => Kept \subseteq made

(* The version is recorded after the files and the units it names, and a   *)
(* first boot begun again puts all three back before it sets the marker.   *)
VersionInv ==
    /\ \A v \in app : version <= v
    /\ "mark" \in made /\ ~skipped => \A v \in units : version <= v
    /\ step = 11 => version = 1
    /\ ota.pc \in {"download", "install", "rsync", "units", "record"} => ota.target > version
    /\ ota.pc \in {"units", "record", "restart"} => app = {ota.target}
    /\ ota.pc \in {"record", "restart"} => skipped \/ units = {ota.target}

DeviceInv == DeviceTypeOK /\ ProvisionInv /\ VersionInv

LEMMA TheSteps ==
    /\ FB!Steps = <<"rootfs", "rmkeys", "keygen", "useradd", "password", "sudoers",
                    "home", "hostname", "services", "version", "mark">>
    /\ Len(FB!Steps) = 11 /\ FB!HomeStep = 7
BY DEF FB!Steps, FB!HomeStep

LEMMA StepRuns ==
    ASSUME step \in 1..11, FB!RunStep
    PROVE  /\ step = 2 => made' = made \ {"keygen"}
           /\ step # 2 => made' = made \cup {FB!Steps[step]}
           /\ units' = IF step = 9 THEN {1} ELSE units
           /\ version' = IF step = 10 THEN 1 ELSE version
           /\ step' = IF step = 4 /\ "useradd" \in made THEN 7
                      ELSE IF step = 11 THEN 0 ELSE step + 1
<1>1. step \in {1, 2, 3, 4, 5, 6, 7, 8, 9, 10, 11}
  OBVIOUS
<1>2. /\ FB!Steps[step] = "rmkeys" <=> step = 2
      /\ FB!Steps[step] = "useradd" <=> step = 4
      /\ FB!Steps[step] = "services" <=> step = 9
      /\ FB!Steps[step] = "version" <=> step = 10
  BY <1>1, TheSteps
<1> QED BY <1>2, TheSteps DEF FB!RunStep, FB!AfterStep, ImageVersion

LEMMA Going ==
    ASSUME NEW pc \in OtaPc, ota \in [pc : OtaPc, target : Nat], OTA!Goto(pc)
    PROVE  ota' \in [pc : OtaPc, target : Nat] /\ ota'.pc = pc /\ ota'.target = ota.target
BY DEF OTA!Goto

LEMMA OtaRests == OTA!Idle \in [pc : OtaPc, target : Nat] /\ OTA!Idle.pc = "idle"
BY DEF OTA!Idle, OtaPc

LEMMA DeviceInitInv == Init => DeviceInv
<1> SUFFICES ASSUME Init PROVE DeviceInv
  OBVIOUS
<1>1. /\ phase = "off" /\ step = 0 /\ made = {} /\ version = 1 /\ units = {} /\ latest = 1
      /\ app = {} /\ ota = OTA!Idle /\ skipped = FALSE
  BY DEF Init, FB!FirstBootInit, OTA!OtaInit, ImageVersion
<1>2. DeviceTypeOK
  <2>1. ota \in [pc : OtaPc, target : Nat]
    BY <1>1, OtaRests
  <2>2. app \subseteq Nat \ {0} /\ units \subseteq Nat \ {0}
    BY <1>1
  <2>3. skipped \in BOOLEAN
    BY <1>1
  <2>4. phase = "off" /\ step \in 0..11 /\ version \in Nat /\ latest \in Nat \ {0}
    BY <1>1
  <2> QED BY <2>1, <2>2, <2>3, <2>4 DEF DeviceTypeOK
<1>3. ProvisionInv
  BY <1>1, OtaRests DEF ProvisionInv, Behind, Kept
<1>4. VersionInv
  BY <1>1, OtaRests DEF VersionInv
<1> QED BY <1>2, <1>3, <1>4 DEF DeviceInv

\* A step of the script, under the conditions that both outcomes share.
LEMMA ProvisionStep == DeviceInv /\ Provision => DeviceInv'
<1> SUFFICES ASSUME DeviceInv, Provision PROVE DeviceInv'
  OBVIOUS
<1>1. /\ phase = "provisioning" /\ FB!RunStep /\ EnterRunning
      /\ UNCHANGED <<latest, app, ota, skipped>>
  BY DEF Provision
<1>2. step \in 1..11 /\ step # 0 /\ "mark" \notin made /\ ota.pc = "idle"
  BY <1>1 DEF DeviceInv, DeviceTypeOK, ProvisionInv, FB!RunStep
<1>3. /\ step = 2 => made' = made \ {"keygen"}
      /\ step # 2 => made' = made \cup {FB!Steps[step]}
      /\ units' = IF step = 9 THEN {1} ELSE units
      /\ version' = IF step = 10 THEN 1 ELSE version
      /\ step' = IF step = 4 /\ "useradd" \in made THEN 7
                 ELSE IF step = 11 THEN 0 ELSE step + 1
  BY <1>1, <1>2, StepRuns
<1>4. /\ step' # 0 => phase' = "provisioning"
      /\ step' = 0 => phase' = "running"
  BY <1>1 DEF EnterRunning
<1>5. DeviceTypeOK'
  BY <1>1, <1>2, <1>3, <1>4 DEF DeviceInv, DeviceTypeOK
<1>6. \A k \in Kept : step' > Behind[k] => k \in made'
  <2> SUFFICES ASSUME NEW k \in Kept, step' > Behind[k] PROVE k \in made'
    OBVIOUS
  <2>1. step > Behind[k] => k \in made
    BY DEF DeviceInv, ProvisionInv
  <2>2. Behind[k] \in {3, 4, 7, 8, 9, 10} /\ k = FB!Steps[Behind[k]]
        /\ (k = "keygen" <=> Behind[k] = 3)
    BY TheSteps DEF Behind, Kept
  <2>3. step > Behind[k] => k \in made'
    BY <1>2, <1>3, <2>1, <2>2
  <2>4. step = Behind[k] => k \in made'
    BY <1>3, <2>2
  <2>5. step < Behind[k] => FALSE
    <3>1. CASE step = 4 /\ "useradd" \in made
      BY <1>3, <2>2, <3>1
    <3>2. CASE ~(step = 4 /\ "useradd" \in made)
      BY <1>2, <1>3, <2>2, <3>2
    <3> QED BY <3>1, <3>2
  <2> QED BY <1>2, <2>2, <2>3, <2>4, <2>5
<1>7. "mark" \in made' => step = 11
  <2>1. step \in {1, 2, 3, 4, 5, 6, 7, 8, 9, 10, 11}
    BY <1>2
  <2>2. FB!Steps[step] = "mark" => step = 11
    BY <2>1, TheSteps
  <2> QED BY <1>2, <1>3, <2>2
<1>8. step = 11 => Kept \subseteq made'
  <2> SUFFICES ASSUME step = 11, NEW k \in Kept PROVE k \in made'
    OBVIOUS
  <2>1. 11 > Behind[k]
    BY DEF Behind, Kept
  <2>2. k \in made
    BY <2>1 DEF DeviceInv, ProvisionInv
  <2> QED BY <1>3, <2>2
<1>9. ProvisionInv'
  <2>1. step' # 0 => step # 11
    BY <1>3
  <2> QED BY <1>1, <1>2, <1>4, <1>6, <1>7, <1>8, <2>1 DEF ProvisionInv
<1>10. \A v \in app' : version' <= v
  BY <1>1, <1>3 DEF DeviceInv, DeviceTypeOK, VersionInv
<1>11. step' = 11 => version' = 1
  BY <1>2, <1>3
<1>12. "mark" \in made' => \A v \in units' : version' <= v
  <2> SUFFICES ASSUME "mark" \in made', NEW v \in units' PROVE version' <= v
    OBVIOUS
  <2>1. step = 11 /\ version = 1
    BY <1>7 DEF DeviceInv, VersionInv
  <2>2. units' = units /\ version' = 1
    BY <1>3, <2>1
  <2>3. v \in Nat \ {0}
    BY <2>2 DEF DeviceInv, DeviceTypeOK
  <2> QED BY <2>2, <2>3
<1>13. VersionInv'
  BY <1>1, <1>2, <1>10, <1>11, <1>12 DEF VersionInv
<1> QED BY <1>5, <1>9, <1>13 DEF DeviceInv

\* What a script cut short leaves half done keeps no claim from holding.
LEMMA HalfDoneBounds ==
    ASSUME DeviceInv, OTA!HalfDone
    PROVE  /\ version' \in Nat /\ version' <= version /\ units' \subseteq Nat \ {0}
           /\ \A v \in units' : v \in units \/ v > version
<1>1. version \in Nat /\ units \subseteq Nat \ {0} /\ ota \in [pc : OtaPc, target : Nat]
  BY DEF DeviceInv, DeviceTypeOK
<1>2. ota.pc = "units" => ota.target \in Nat /\ ota.target > version
  BY <1>1 DEF DeviceInv, VersionInv
<1>3. version' \in Nat /\ version' <= version
  BY <1>1 DEF OTA!HalfDone
<1>4. CASE units' = units
  BY <1>1, <1>3, <1>4
<1>5. CASE ota.pc = "units" /\ units' = units \cup {ota.target}
  <2>1. ota.target \in Nat \ {0}
    BY <1>1, <1>2, <1>5
  <2> QED BY <1>1, <1>2, <1>3, <1>5, <2>1
<1> QED BY <1>4, <1>5 DEF OTA!HalfDone

\* What changes only whether the scripts run, and the phase.
LEMMA ScriptMoves ==
    ASSUME DeviceInv, step' \in {0, 1}, phase' \in {"off", "provisioning", "running"},
           phase' # "provisioning" => step' = 0, phase' # "running" => ota'.pc = "idle",
           step' # 0 => "mark" \notin made,
           \/ ota' = ota /\ UNCHANGED <<version, units>>
           \/ ota' = OTA!Idle /\ OTA!HalfDone,
           UNCHANGED <<made, latest, app, skipped>>
    PROVE  DeviceInv'
<1>0. /\ ota' \in [pc : OtaPc, target : Nat]
      /\ version' \in Nat /\ version' <= version /\ units' \subseteq Nat \ {0}
      /\ \A v \in units' : v \in units \/ v > version
      /\ ota' = ota \/ ota'.pc = "idle"
  <2>1. CASE ota' = ota /\ UNCHANGED <<version, units>>
    BY <2>1 DEF DeviceInv, DeviceTypeOK
  <2>2. CASE ota' = OTA!Idle /\ OTA!HalfDone
    <3>1. ota' \in [pc : OtaPc, target : Nat] /\ ota'.pc = "idle"
      BY <2>2, OtaRests
    <3> QED BY <2>2, <3>1, HalfDoneBounds
  <2> QED BY <2>1, <2>2
<1>1. DeviceTypeOK'
  BY <1>0 DEF DeviceInv, DeviceTypeOK
<1>2. \A k \in Kept : ~(step' > Behind[k])
  BY DEF Behind, Kept
<1>3. ProvisionInv'
  BY <1>0, <1>2, OtaRests DEF DeviceInv, ProvisionInv
<1>4. VersionInv'
  <2>1. CASE ota' = ota /\ UNCHANGED <<version, units>>
    BY <2>1 DEF DeviceInv, VersionInv
  <2>2. CASE ota'.pc = "idle"
    <3>1. \A v \in app' : version' <= v
      BY <1>0 DEF DeviceInv, DeviceTypeOK, VersionInv
    <3>2. "mark" \in made' /\ ~skipped' => \A v \in units' : version' <= v
      BY <1>0 DEF DeviceInv, DeviceTypeOK, VersionInv
    <3> QED BY <2>2, <3>1, <3>2 DEF VersionInv
  <2> QED BY <2>1, <2>2, OtaRests
<1> QED BY <1>1, <1>3, <1>4 DEF DeviceInv

LEMMA PowerStep == DeviceInv /\ (Boot \/ PowerCut \/ Reboot) => DeviceInv'
<1> SUFFICES ASSUME DeviceInv, Boot \/ PowerCut \/ Reboot PROVE DeviceInv'
  OBVIOUS
<1>1. CASE PowerCut \/ Reboot
  <2>1. PowerOff
    BY <1>1 DEF PowerCut, Reboot
  <2> QED BY <2>1, OtaRests, ScriptMoves DEF PowerOff
<1>2. CASE Boot
  <2>1. phase = "off" /\ step = 0 /\ ota.pc = "idle" /\ UNCHANGED <<latest, app, ota, skipped>>
    BY <1>2 DEF Boot, DeviceInv, ProvisionInv
  <2>2. CASE FB!Provisioned
    <3>1. phase' = "running" /\ UNCHANGED <<step, made, version, units>>
      BY <1>2, <2>2 DEF Boot
    <3> QED BY <2>1, <3>1, ScriptMoves
  <2>3. CASE ~FB!Provisioned
    <3>1. phase' = "provisioning" /\ step' = 1 /\ UNCHANGED <<made, version, units>>
      BY <1>2, <2>3 DEF Boot, FB!BeginFirstBoot
    <3>2. "mark" \notin made
      BY <2>3 DEF FB!Provisioned
    <3> QED BY <2>1, <3>1, <3>2, ScriptMoves
  <2> QED BY <2>2, <2>3
<1> QED BY <1>1, <1>2

LEMMA ProvisionFailsStep == DeviceInv /\ ProvisionFails => DeviceInv'
<1> SUFFICES ASSUME DeviceInv, ProvisionFails PROVE DeviceInv'
  OBVIOUS
<1>1. phase = "provisioning" /\ step' = 0 /\ EnterRunning
      /\ UNCHANGED <<made, version, units, latest, app, ota, skipped>>
  BY DEF ProvisionFails, FB!StepFails
<1>2. phase' = "running"
  BY <1>1 DEF EnterRunning
<1> QED BY <1>1, <1>2, ScriptMoves

\* A step of the update script, which runs only on a running board.
LEMMA UpdateMoves ==
    ASSUME DeviceInv, phase = "running", UNCHANGED <<phase, step, made>>,
           DeviceTypeOK', VersionInv'
    PROVE  DeviceInv'
BY DEF DeviceInv, ProvisionInv

LEMMA PublishStep == DeviceInv /\ Publish => DeviceInv'
<1> SUFFICES ASSUME DeviceInv, Publish PROVE DeviceInv'
  OBVIOUS
<1>1. latest' \in Nat \ {0}
  BY BoundsAssumption DEF Publish, OTA!Publish, Version
<1>2. UNCHANGED <<phase, step, made, version, app, units, ota, skipped>>
  BY DEF Publish, OTA!Publish, power, firstBootOnly
<1> QED BY <1>1, <1>2
    DEF DeviceInv, DeviceTypeOK, ProvisionInv, VersionInv

LEMMA CheckManifestStep == DeviceInv /\ CheckManifest => DeviceInv'
<1> SUFFICES ASSUME DeviceInv, CheckManifest PROVE DeviceInv'
  OBVIOUS
<1>1. /\ phase = "running" /\ ota.pc = "idle" /\ latest > version
      /\ UNCHANGED <<phase, step, made, latest, version, app, units, skipped>>
  BY DEF CheckManifest, OTA!CheckManifest, power, firstBootOnly
<1>2. ota'.pc = "download" /\ ota'.target = latest /\ ota' = [pc |-> "download", target |-> latest]
  BY DEF CheckManifest, OTA!CheckManifest
<1>3. DeviceTypeOK'
  BY <1>1, <1>2 DEF DeviceInv, DeviceTypeOK, OtaPc
<1>4. VersionInv'
  BY <1>1, <1>2 DEF DeviceInv, VersionInv
<1> QED BY <1>1, <1>3, <1>4, UpdateMoves

LEMMA UpdateStep == DeviceInv /\ Update => DeviceInv'
<1> SUFFICES ASSUME DeviceInv, Update PROVE DeviceInv'
  OBVIOUS
<1>1. UNCHANGED <<phase, step, made>>
  BY DEF Update, power, firstBootOnly
<1> USE <1>1
<1>2. ota \in [pc : OtaPc, target : Nat]
  BY DEF DeviceInv, DeviceTypeOK
<1>3. ota.pc # "idle" => phase = "running"
  BY DEF DeviceInv, ProvisionInv
<1>4. step = 0 \/ phase # "running"
  BY DEF DeviceInv, ProvisionInv
<1>5. CASE OTA!DownloadAndVerify
  <2>1. ota.pc = "download" /\ UNCHANGED <<latest, version, app, units, skipped>>
    BY <1>5 DEF OTA!DownloadAndVerify
  <2>2. ota' \in [pc : OtaPc, target : Nat] /\ ota'.pc = "install" /\ ota'.target = ota.target
    BY <1>2, <1>5, Going DEF OTA!DownloadAndVerify, OtaPc
  <2>3. DeviceTypeOK' /\ VersionInv'
    BY <2>1, <2>2 DEF DeviceInv, DeviceTypeOK, VersionInv
  <2> QED BY <1>3, <2>1, <2>3, UpdateMoves
<1>6. CASE OTA!BeginInstall
  <2>1. /\ ota.pc = "install" /\ app' = app \cup {ota.target}
        /\ UNCHANGED <<latest, version, units, skipped>>
    BY <1>6 DEF OTA!BeginInstall
  <2>2. ota' \in [pc : OtaPc, target : Nat] /\ ota'.pc = "rsync" /\ ota'.target = ota.target
    BY <1>2, <1>6, Going DEF OTA!BeginInstall, OtaPc
  <2>3. ota.target > version /\ ota.target \in Nat /\ version \in Nat
    BY <1>2, <2>1 DEF DeviceInv, DeviceTypeOK, VersionInv
  <2>4. DeviceTypeOK'
    <3>1. ota.target \in Nat \ {0}
      BY <2>3
    <3>2. app \subseteq Nat \ {0}
      BY DEF DeviceInv, DeviceTypeOK
    <3>3. app' \subseteq Nat \ {0}
      <4> HIDE <1>1
      <4> QED BY <2>1, <3>1, <3>2
    <3> QED BY <2>1, <2>2, <3>3 DEF DeviceInv, DeviceTypeOK
  <2>5. \A v \in app' : version' <= v
    BY <2>1, <2>3 DEF DeviceInv, VersionInv
  <2>6. VersionInv'
    BY <2>1, <2>2, <2>3, <2>5 DEF DeviceInv, VersionInv
  <2> QED BY <1>3, <2>1, <2>4, <2>6, UpdateMoves
<1>7. CASE OTA!EndInstall
  <2>1. /\ ota.pc = "rsync" /\ app' = {ota.target}
        /\ UNCHANGED <<latest, version, units, skipped>>
    BY <1>7 DEF OTA!EndInstall
  <2>2. ota' \in [pc : OtaPc, target : Nat] /\ ota'.pc = "units" /\ ota'.target = ota.target
    BY <1>2, <1>7, Going DEF OTA!EndInstall, OtaPc
  <2>3. ota.target > version /\ ota.target \in Nat /\ version \in Nat
    BY <1>2, <2>1 DEF DeviceInv, DeviceTypeOK, VersionInv
  <2>4. DeviceTypeOK' /\ VersionInv'
    BY <2>1, <2>2, <2>3 DEF DeviceInv, DeviceTypeOK, VersionInv
  <2> QED BY <1>3, <2>1, <2>4, UpdateMoves
<1>8. CASE OTA!InstallUnits
  <2>1. /\ ota.pc = "units" /\ units' = {ota.target} /\ skipped' = FALSE
        /\ UNCHANGED <<latest, version, app>>
    BY <1>8 DEF OTA!InstallUnits
  <2>2. ota' \in [pc : OtaPc, target : Nat] /\ ota'.pc = "record" /\ ota'.target = ota.target
    BY <1>2, <1>8, Going DEF OTA!InstallUnits, OtaPc
  <2>3. ota.target > version /\ ota.target \in Nat \ {0} /\ version \in Nat
    BY <1>2, <2>1 DEF DeviceInv, DeviceTypeOK, VersionInv
  <2>4. DeviceTypeOK' /\ VersionInv'
    BY <2>1, <2>2, <2>3 DEF DeviceInv, DeviceTypeOK, VersionInv
  <2> QED BY <1>3, <2>1, <2>4, UpdateMoves
<1>9. CASE OTA!RecordVersion
  <2>1. /\ ota.pc = "record" /\ version' = ota.target
        /\ UNCHANGED <<latest, units, app, skipped>>
    BY <1>9 DEF OTA!RecordVersion
  <2>2. ota' \in [pc : OtaPc, target : Nat] /\ ota'.pc = "restart" /\ ota'.target = ota.target
    BY <1>2, <1>9, Going DEF OTA!RecordVersion, OtaPc
  <2>3. app = {ota.target} /\ (skipped \/ units = {ota.target}) /\ ota.target \in Nat
    BY <1>2, <2>1 DEF DeviceInv, VersionInv
  <2>4. DeviceTypeOK'
    BY <2>1, <2>2, <2>3 DEF DeviceInv, DeviceTypeOK
  <2>5. step = 0 /\ step' = 0
    BY <1>3, <1>4, <2>1
  <2>6. (\A v \in app' : version' <= v) /\ (~skipped' => \A v \in units' : version' <= v)
    BY <2>1, <2>3
  <2>7. VersionInv'
    BY <2>1, <2>2, <2>3, <2>5, <2>6 DEF DeviceInv, VersionInv
  <2> QED BY <1>3, <2>1, <2>4, <2>7, UpdateMoves
<1>10. CASE OTA!RestartServices
  <2>1. ota.pc = "restart" /\ ota' = OTA!Idle /\ UNCHANGED <<latest, version, app, units, skipped>>
    BY <1>10 DEF OTA!RestartServices
  <2>2. DeviceTypeOK' /\ VersionInv'
    BY <2>1, OtaRests DEF DeviceInv, DeviceTypeOK, VersionInv
  <2> QED BY <1>3, <2>1, <2>2, UpdateMoves
<1> QED BY <1>5, <1>6, <1>7, <1>8, <1>9, <1>10 DEF Update

LEMMA UpdateMishapStep == DeviceInv /\ UpdateMishap => DeviceInv'
<1> SUFFICES ASSUME DeviceInv, UpdateMishap PROVE DeviceInv'
  OBVIOUS
<1>1. UNCHANGED <<phase, timers, step, made>>
  BY DEF UpdateMishap, power, firstBootOnly
<1>2. ota.pc # "idle" /\ phase = "running" /\ step = 0
  BY DEF UpdateMishap, OTA!Abort, OTA!UnitsNotCopied, DeviceInv, ProvisionInv
<1>3. CASE OTA!Abort
  <2>1. ota' = OTA!Idle /\ OTA!HalfDone /\ UNCHANGED <<latest, app, skipped>>
    BY <1>3 DEF OTA!Abort
  <2> QED BY <1>1, <1>2, <2>1, ScriptMoves
<1>4. CASE OTA!UnitsNotCopied
  <2>1. /\ ota.pc = "units" /\ units' \in {units, units \cup {ota.target}} /\ skipped' = TRUE
        /\ UNCHANGED <<latest, version, app>>
    BY <1>4 DEF OTA!UnitsNotCopied
  <2>2. ota \in [pc : OtaPc, target : Nat]
    BY DEF DeviceInv, DeviceTypeOK
  <2>3. ota' \in [pc : OtaPc, target : Nat] /\ ota'.pc = "record" /\ ota'.target = ota.target
    BY <1>4, <2>2, Going DEF OTA!UnitsNotCopied, OtaPc
  <2>4. ota.target > version /\ ota.target \in Nat \ {0} /\ version \in Nat
    BY <2>1, <2>2 DEF DeviceInv, DeviceTypeOK, VersionInv
  <2>5. DeviceTypeOK'
    BY <1>1, <2>1, <2>3, <2>4 DEF DeviceInv, DeviceTypeOK
  <2>6. VersionInv'
    BY <1>1, <2>1, <2>3, <2>4 DEF DeviceInv, VersionInv
  <2> QED BY <1>1, <1>2, <2>5, <2>6, UpdateMoves
<1> QED BY <1>3, <1>4 DEF UpdateMishap

LEMMA DeviceStepInv == DeviceInv /\ [Next]_vars => DeviceInv'
<1> SUFFICES ASSUME DeviceInv, [Next]_vars PROVE DeviceInv'
  OBVIOUS
<1>1. CASE Boot \/ PowerCut \/ Reboot
  BY <1>1, PowerStep
<1>2. CASE Provision \/ ProvisionFails
  BY <1>2, ProvisionStep, ProvisionFailsStep
<1>3. CASE Publish \/ CheckManifest \/ Update \/ UpdateMishap
  BY <1>3, PublishStep, CheckManifestStep, UpdateStep, UpdateMishapStep
<1>4. CASE UNCHANGED vars
  BY <1>4 DEF vars, DeviceInv, DeviceTypeOK, ProvisionInv, VersionInv
<1> QED BY <1>1, <1>2, <1>3, <1>4 DEF Next

LEMMA DeviceAlways == Spec => []DeviceInv
BY DeviceInitInv, DeviceStepInv, PTL DEF Spec

(* However often provisioning was cut short, the marker means that all of  *)
(* it is there (PiNetOS/scripts/pinet-first-boot.sh).                      *)
THEOREM MarkedIsProvisioned == Spec => []MarkerMeansProvisioned
<1>1. DeviceInv => MarkerMeansProvisioned
  BY DEF DeviceInv, ProvisionInv, MarkerMeansProvisioned, FB!Provisioned, Kept
<1> QED BY <1>1, DeviceAlways, PTL

(* The version file of a provisioned node never claims more than is        *)
(* installed, but for units whose copies failed unnoticed, for any number  *)
(* of versions and mishaps                                                 *)
(* (system/ota/pinet-ota-update.sh, PiNetOS/scripts/pinet-first-boot.sh).  *)
THEOREM VersionNeverAhead == Spec => []VersionClaimsNoMore
<1>1. DeviceInv => VersionClaimsNoMore
  BY DEF DeviceInv, VersionInv, VersionClaimsNoMore, FB!Provisioned
<1> QED BY <1>1, DeviceAlways, PTL
=============================================================================
