----------------------------- MODULE CpipUpdate -----------------------------
(***************************************************************************)
(* How a CPIP release reaches a node (backend/cpip_updater.py and the core *)
(* of backend/cpip_watcher.py).  Two programs apply updates to the same    *)
(* files: the desktop backend, whose watcher polls GitHub and whose        *)
(* endpoint applies a version on request, and cpip-update.service, a       *)
(* one-shot process started by a timer.                                    *)
(*                                                                         *)
(* apply_update has no await, so inside one process nothing interleaves    *)
(* with it; the other process, and the death of this one, do.  Each        *)
(* process imported CPIP_VERSION when it started and compares with that    *)
(* constant ever after, whatever config.py says by then.                   *)
(*                                                                         *)
(* Writing config.py truncates it first: until the write is done, and for  *)
(* good when it fails or its process dies, the file is torn, and a torn    *)
(* file is no module anybody can import.                                   *)
(*                                                                         *)
(* Versions are numbers in the order of _parse_version.  The replacement   *)
(* of the CPIP-Version header in cpip_provider.py never finds its text and *)
(* is left out, as are events, webhooks and counters.                      *)
(***************************************************************************)
EXTENDS Naturals

CONSTANTS
    Updaters,          \* which of the two programs run
    ExplicitTargets,   \* versions a user may ask the endpoint for
    RollbackOnFail,    \* CPIP_WATCHER_ROLLBACK_ON_FAIL
    MaxRelease         \* bound: releases of CPIP

ASSUME UpdatersAssumption == Updaters \subseteq {"desktop", "timer"}
ASSUME TargetsAssumption == ExplicitTargets \subseteq 1..MaxRelease
ASSUME RollbackAssumption == RollbackOnFail \in BOOLEAN
ASSUME ReleaseAssumption == MaxRelease \in Nat \ {0}

VARIABLES
    released,      \* the first tag GitHub reports
    config,        \* CPIP_VERSION in config.py, or Torn
    service,       \* what config.py held when cpip.service last restarted
    versionFile,   \* the watcher's version file
    due,           \* CPIP_UPDATE_INTERVAL has passed since last_checked
    updater,       \* per process: see Process
    clean,         \* no restart failed, no file failed, no attempt died so far
    alone          \* only the desktop backend ran, and nobody asked for a version

vars == <<released, config, service, versionFile, due, updater, clean, alone>>

Version == 1..MaxRelease

\* config.py cut off in a write: empty, or the beginning of what was written.
Torn == 0

\* pc: where apply_update is.  installed: CPIP_VERSION as imported.  found: the
\* old line was in config.py when it was read.  before: config.py when the
\* attempt began, of which the code knows nothing.  "writing": config.py is
\* open for writing, and so truncated.
Process ==
    [pc: {"down", "idle", "apply", "read", "writing", "written", "restarted", "failed"},
     installed: Version, target: Version, before: Version \cup {Torn},
     found: BOOLEAN, auto: BOOLEAN]

TypeOK ==
    /\ {released, versionFile} \subseteq Version
    /\ {config, service} \subseteq Version \cup {Torn}
    /\ due \in BOOLEAN
    /\ clean \in BOOLEAN
    /\ alone \in BOOLEAN
    /\ updater \in [Updaters -> Process]

Down == [pc |-> "down", installed |-> 1, target |-> 1, before |-> 1,
         found |-> FALSE, auto |-> FALSE]

Init ==
    /\ released = 1
    /\ config = 1
    /\ service = 1
    /\ versionFile = 1
    /\ due = TRUE
    /\ clean = TRUE
    /\ alone = TRUE
    /\ updater = [p \in Updaters |-> Down]

Files == <<config, service, versionFile, due>>

\* p goes on to step pc; with Set, other fields change too.
At(p, pc) == updater[p].pc = pc
Set(p, r) == updater' = [updater EXCEPT ![p] = r]
Goto(p, step) == Set(p, [updater[p] EXCEPT !.pc = step])

-----------------------------------------------------------------------------
(* The world. *)

Release ==
    /\ released < MaxRelease
    /\ released' = released + 1
    /\ UNCHANGED <<Files, updater, clean, alone>>

IntervalPasses ==
    /\ ~due
    /\ due' = TRUE
    /\ UNCHANGED <<released, config, service, versionFile, updater, clean, alone>>

-----------------------------------------------------------------------------
(* Starting and dying. *)

\* A process imports CPIP_VERSION, which needs a whole config.py; the watcher
\* loop also writes it to its file.
Boot(p) ==
    /\ At(p, "down")
    /\ config # Torn
    /\ p = "timer" => due
    /\ Set(p, [Down EXCEPT !.pc = "idle", !.installed = config])
    /\ versionFile' = IF p = "desktop" THEN config ELSE versionFile
    /\ alone' = (alone /\ p = "desktop")
    /\ UNCHANGED <<released, config, service, due, clean>>

\* The process stops when idle, or is killed between any two steps; a file it
\* was writing stays torn.
Die(p) ==
    /\ ~At(p, "down")
    /\ Goto(p, "down")
    /\ clean' = (clean /\ At(p, "idle"))
    /\ UNCHANGED <<released, Files, alone>>

-----------------------------------------------------------------------------
(* Deciding. *)

\* An attempt at version v begins in p.
Begin(p, v, auto) ==
    Set(p, [updater[p] EXCEPT !.pc = "apply", !.target = v, !.before = config,
                              !.auto = auto])

\* _watch_iteration: the tag is compared with the constant of this process.
WatcherCheck ==
    /\ "desktop" \in Updaters
    /\ At("desktop", "idle")
    /\ released > updater["desktop"].installed
    /\ Begin("desktop", released, TRUE)
    /\ UNCHANGED <<released, Files, clean, alone>>

\* POST /cpip/update: with a target, no comparison at all.
EndpointUpdate(v) ==
    /\ "desktop" \in Updaters
    /\ At("desktop", "idle")
    /\ Begin("desktop", v, FALSE)
    /\ alone' = FALSE
    /\ UNCHANGED <<released, Files, clean>>

\* POST /cpip/update without a target: the latest version, if it is newer than
\* the constant; the check is saved either way.
EndpointLatest ==
    /\ "desktop" \in Updaters
    /\ At("desktop", "idle")
    /\ due' = FALSE
    /\ \/ released > updater["desktop"].installed /\ Begin("desktop", released, FALSE)
       \/ UNCHANGED updater
    /\ UNCHANGED <<released, config, service, versionFile, clean, alone>>

\* auto_update_check: the check is saved before anything is applied; when there
\* is nothing to apply, or GitHub is out of reach, the process ends.
TimerCheck ==
    /\ "timer" \in Updaters
    /\ At("timer", "idle")
    /\ due' = FALSE
    /\ \/ released > updater["timer"].installed /\ Begin("timer", released, FALSE)
       \/ Goto("timer", "down")
    /\ UNCHANGED <<released, config, service, versionFile, clean, alone>>

-----------------------------------------------------------------------------
(* apply_update. *)

\* config.py is read, and the line with the imported version looked for; what is
\* left of a torn file does not hold it.
ReadConfig(p) ==
    /\ At(p, "apply")
    /\ Set(p, [updater[p] EXCEPT !.pc = "read",
                                 !.found = (config = updater[p].installed)])
    /\ UNCHANGED <<released, Files, clean, alone>>

\* config.py cannot be read, or not be opened for writing: it stays as it is,
\* nothing is restarted and nothing saved.
OpenFails(p) ==
    /\ At(p, "apply") \/ (At(p, "read") /\ updater[p].found)
    /\ Goto(p, "failed")
    /\ clean' = FALSE
    /\ UNCHANGED <<released, Files, alone>>

\* Without the line there is nothing to write.
SkipWrite(p) ==
    /\ At(p, "read")
    /\ ~updater[p].found
    /\ Goto(p, "written")
    /\ UNCHANGED <<released, Files, clean, alone>>

\* Mutation: the write without the restart.
EndWriteOnly(p) ==
    /\ At(p, "writing")
    /\ config' = updater[p].target
    /\ Goto(p, "restarted")
    /\ UNCHANGED <<released, service, versionFile, due, clean, alone>>

\* write_text opens config.py, which truncates it ...
BeginWrite(p) ==
    /\ At(p, "read")
    /\ updater[p].found
    /\ config' = Torn
    /\ Goto(p, "writing")
    /\ UNCHANGED <<released, service, versionFile, due, clean, alone>>

\* ... and writes the whole file with the line replaced.
EndWrite(p) ==
    /\ At(p, "writing")
    /\ config' = updater[p].target
    /\ Goto(p, "written")
    /\ UNCHANGED <<released, service, versionFile, due, clean, alone>>

\* The disk is full: what was written of config.py stays (unless the other
\* process wrote all of it meanwhile), and the same except clause reports it as
\* if nothing had been touched.
WriteFails(p) ==
    /\ At(p, "writing")
    /\ config' \in {config, Torn}
    /\ Goto(p, "failed")
    /\ clean' = FALSE
    /\ UNCHANGED <<released, service, versionFile, due, alone>>

\* systemctl restart or kubectl rollout, then the update state is saved
\* whatever came of it.
RestartService(p) ==
    /\ At(p, "written")
    /\ service' = config
    /\ due' = FALSE
    /\ Goto(p, "restarted")
    /\ UNCHANGED <<released, config, versionFile, clean, alone>>

RestartFails(p) ==
    /\ At(p, "written")
    /\ due' = FALSE
    /\ Goto(p, "failed")
    /\ clean' = FALSE
    /\ UNCHANGED <<released, config, service, versionFile, alone>>

-----------------------------------------------------------------------------
(* What the caller does with the result. *)

AfterCall(p) == IF p = "timer" THEN "down" ELSE "idle"

ReportSuccess(p) ==
    /\ At(p, "restarted")
    /\ versionFile' = IF updater[p].auto THEN updater[p].target ELSE versionFile
    /\ Goto(p, AfterCall(p))
    /\ UNCHANGED <<released, config, service, due, clean, alone>>

\* Mutation: back to the version cpip.service runs.
ReportFailureToService(p) ==
    /\ At(p, "failed")
    /\ config' = IF updater[p].auto /\ RollbackOnFail /\ config # Torn
                   THEN service ELSE config
    /\ Goto(p, AfterCall(p))
    /\ UNCHANGED <<released, service, versionFile, due, clean, alone>>

\* Only the watcher rolls back: to the version its process imported.  In a torn
\* file it finds no line to replace.
ReportFailure(p) ==
    /\ At(p, "failed")
    /\ config' = IF updater[p].auto /\ RollbackOnFail /\ config # Torn
                   THEN updater[p].installed ELSE config
    /\ Goto(p, AfterCall(p))
    /\ UNCHANGED <<released, service, versionFile, due, clean, alone>>

\* The rollback's own file operations fail, before or in the write.
RollbackFails(p) ==
    /\ At(p, "failed")
    /\ updater[p].auto /\ RollbackOnFail
    /\ config' \in {config, Torn}
    /\ Goto(p, AfterCall(p))
    /\ UNCHANGED <<released, service, versionFile, due, clean, alone>>

Next ==
    \/ Release
    \/ IntervalPasses
    \/ WatcherCheck
    \/ \E v \in ExplicitTargets : EndpointUpdate(v)
    \/ EndpointLatest
    \/ TimerCheck
    \/ \E p \in Updaters :
         \/ Boot(p)
         \/ Die(p)
         \/ ReadConfig(p)
         \/ OpenFails(p)
         \/ SkipWrite(p)
         \/ BeginWrite(p)
         \/ EndWrite(p)
         \/ WriteFails(p)
         \/ RestartService(p)
         \/ RestartFails(p)
         \/ ReportSuccess(p)
         \/ ReportFailure(p)
         \/ RollbackFails(p)

Spec == Init /\ [][Next]_vars

-----------------------------------------------------------------------------
(* Properties. *)

Quiet == \A p \in Updaters : updater[p].pc \in {"down", "idle"}

\* However the two programs overlap, cpip.service ends up restarted on what
\* config.py says, and that is a version: whichever writes last restarts after
\* its write, and what the other read of a truncated file goes nowhere.  Only a
\* failed restart, a failed file or a death leaves them apart (apply_update).
ServiceFollowsConfig == clean /\ Quiet => service = config /\ config # Torn

\* As long as only the desktop backend updates, to latest versions, config.py
\* never names a version below the one it runs, through any number of failures,
\* rollbacks and deaths; so its restart never brings back an older one.  A write
\* cut short leaves a file that names none, and then its restart brings back
\* nothing at all: that much is not promised (apply_update, _rollback_version).
NeverBelowInstalled ==
    alone => \A p \in Updaters :
               ~At(p, "down") /\ config # Torn => config >= updater[p].installed

\* "Automatic update with rollback on failure": whatever version the rollback of
\* an automatic update writes to config.py is the one it held when the attempt
\* began.  (A rollback that fails itself, or finds a torn file, writes none.)
RollbackRestores ==
    [][\A p \in Updaters :
          /\ At(p, "failed") /\ updater'[p].pc = "idle" /\ updater[p].auto /\ RollbackOnFail
          /\ config' \notin {config, Torn}
          => config' = updater[p].before]_vars
=============================================================================
