----------------------------- MODULE OtaUpdate ------------------------------
(***************************************************************************)
(* pinet-ota-update.sh, run once a day by pinet-ota.timer: it fetches a    *)
(* manifest, downloads and verifies a payload, installs its three parts    *)
(* one after the other, records the version and restarts the services.     *)
(* systemd runs one instance at a time and kills it after 600 seconds.     *)
(*                                                                         *)
(* rsync replaces the application file by file, so the tree is modelled by *)
(* the set of versions its files come from, and so are the units and the   *)
(* scripts.  Payloads have all their parts and are named for their         *)
(* version; hooks change nothing here.  The backup is left out: nothing    *)
(* reads it.  So is what the restarted services run: see the README.       *)
(***************************************************************************)
EXTENDS Naturals

VARIABLES
    latest,    \* the version in the server's manifest
    version,   \* /etc/pinetos/version; 0 when it is empty
    app,       \* the versions the files of /opt/pinetos come from
    units,     \* the versions the systemd units and scripts come from
    ota,       \* where the script is, and its target
    skipped     \* units or scripts were not copied since they last all were

Idle == [pc |-> "idle", target |-> 0]

\* No image has anything in /opt/pinetos.
OtaInit ==
    /\ latest = 1
    /\ app = {}
    /\ ota = Idle
    /\ skipped = FALSE

Goto(pc) == ota' = [ota EXCEPT !.pc = pc]

\* The server publishes another version.
Publish(v) ==
    /\ v > latest
    /\ latest' = v
    /\ UNCHANGED <<version, app, units, ota, skipped>>

\* Steps 1 and 2, up to the download: a newer version, or nothing to do.
CheckManifest ==
    /\ ota.pc = "idle"
    /\ latest > version
    /\ ota' = [pc |-> "download", target |-> latest]
    /\ UNCHANGED <<latest, version, app, units, skipped>>

\* The payload arrives, is what the manifest says, and is unpacked.
DownloadAndVerify ==
    /\ ota.pc = "download"
    /\ Goto("install")
    /\ UNCHANGED <<latest, version, app, units, skipped>>

\* rsync, begun and ended.
BeginInstall ==
    /\ ota.pc = "install"
    /\ app' = app \cup {ota.target}
    /\ Goto("rsync")
    /\ UNCHANGED <<latest, version, units, skipped>>

\* Mutation: the version is recorded with the application.
EndInstallRecords ==
    /\ ota.pc = "rsync"
    /\ app' = {ota.target}
    /\ version' = ota.target
    /\ Goto("units")
    /\ UNCHANGED <<latest, units, skipped>>

\* Mutation: rsync without --delete.
EndInstallKeepsOld ==
    /\ ota.pc = "rsync"
    /\ Goto("units")
    /\ UNCHANGED <<latest, version, app, units, skipped>>

EndInstall ==
    /\ ota.pc = "rsync"
    /\ app' = {ota.target}
    /\ Goto("units")
    /\ UNCHANGED <<latest, version, units, skipped>>

\* systemd units and scripts, then the post-install hook.
InstallUnits ==
    /\ ota.pc = "units"
    /\ units' = {ota.target}
    /\ skipped' = FALSE
    /\ Goto("record")
    /\ UNCHANGED <<latest, version, app>>

\* Some or all of those copies fail, of which "|| true" lets nobody know, and
\* the script goes on.
UnitsNotCopied ==
    /\ ota.pc = "units"
    /\ units' \in {units, units \cup {ota.target}}
    /\ skipped' = TRUE
    /\ Goto("record")
    /\ UNCHANGED <<latest, version, app>>

RecordVersion ==
    /\ ota.pc = "record"
    /\ version' = ota.target
    /\ Goto("restart")
    /\ UNCHANGED <<latest, app, units, skipped>>

\* The services are restarted, or a warning says that one was not, and the
\* cache is cleaned.
RestartServices ==
    /\ ota.pc = "restart"
    /\ ota' = Idle
    /\ UNCHANGED <<latest, version, app, units, skipped>>

\* What the script was at is half done: some units and scripts copied; or the
\* version file emptied, as the redirection does before it writes it.
HalfDone ==
    /\ units' \in {units, IF ota.pc = "units" THEN units \cup {ota.target} ELSE units}
    /\ version' \in {version, IF ota.pc = "record" THEN 0 ELSE version}

\* Any command fails that is not followed by "|| true" or "|| warn" ("set -e":
\* no network, a wrong checksum, rsync on a full disk, a hook, the record), or
\* systemd kills the script, anywhere.
Abort ==
    /\ ota.pc # "idle"
    /\ HalfDone
    /\ ota' = Idle
    /\ UNCHANGED <<latest, app, skipped>>
=============================================================================
