-------------------------------- MODULE Dapps --------------------------------
(***************************************************************************)
(* DApps installed on a node (backend/routes/dapps.py): a registry file    *)
(* that every request reads anew, and a directory for each installation.   *)
(* A handler may stop between any two writes, as the disk is full or the   *)
(* process ends; nothing of it is in memory, so that the two are alike.    *)
(***************************************************************************)
EXTENDS Naturals, Sequences, Dicts

CONSTANTS
    DappIds,
    MaxInstalls, \* bound: installations begun
    MaxMisreads  \* bound: reads of the registry that fail

ASSUME DappsAssumption == MaxInstalls \in Nat /\ MaxMisreads \in Nat

VARIABLES
    registry,     \* _registry.json: the directory of each DApp in it
    readable,     \* the file holds JSON
    directories,  \* those made so far, by mkdtemp: no name is used twice
    misreads,
    acknowledged  \* DApps whose installation was acknowledged, whose removal was
                  \* not begun, and that no save took with it that was interrupted
                  \* or followed a failed read

dappVars == <<registry, readable, directories, misreads, acknowledged>>

DappsTypeOK ==
    /\ IsDict(registry, DappIds, DOMAIN directories)
    /\ readable \in BOOLEAN
    /\ directories \in Seq({"partly", "whole", "gone"}) /\ Len(directories) <= MaxInstalls
    /\ misreads \in 0..MaxMisreads
    /\ acknowledged \subseteq DappIds

DappsInit ==
    /\ registry = EmptyDict /\ readable = FALSE
    /\ directories = <<>>
    /\ misreads = 0
    /\ acknowledged = {}

\* _load_registry: a file that is missing or no JSON is an empty registry,
Load == IF readable THEN registry ELSE EmptyDict

\* and so is, once, one that cannot be read.
Reads(r) ==
    \/ r = Load /\ UNCHANGED misreads
    \/ /\ misreads < MaxMisreads
       /\ r = EmptyDict /\ misreads' = misreads + 1

SaveRegistry(r) == registry' = r /\ readable' = TRUE

\* write_text has truncated the file and not written it.
SaveStops == registry' = EmptyDict /\ readable' = FALSE /\ acknowledged' = {}

StopsBeforeSave == UNCHANGED <<registry, readable>>

\* Mutation: the DApp is registered before its files are written.
InstallRegistersFirst(a) ==
    /\ a \notin DOMAIN Load
    /\ Len(directories) < MaxInstalls
    /\ UNCHANGED misreads
    /\ LET d == Len(directories) + 1 IN
       \/ /\ SaveRegistry(Put(Load, a, d))
          /\ acknowledged' = acknowledged \cup {a}
          /\ \E files \in {"partly", "whole"} : directories' = Append(directories, files)
       \/ SaveStops /\ directories' = Append(directories, "partly")

\* install_dapp, from a manifest or an address, with r what it has read.
Installs(a, r) ==
    /\ a \notin DOMAIN r
    /\ Len(directories) < MaxInstalls
    /\ \/ /\ StopsBeforeSave /\ UNCHANGED acknowledged
          /\ \E files \in {"partly", "whole"} : directories' = Append(directories, files)
       \/ /\ directories' = Append(directories, "whole")
          /\ \/ SaveStops
             \/ /\ SaveRegistry(Put(r, a, Len(directories) + 1))
                /\ acknowledged' = (IF r = Load THEN acknowledged ELSE {}) \cup {a}

InstallDapp(a) == \E r \in {Load, EmptyDict} : Reads(r) /\ Installs(a, r)

\* uninstall_dapp: rmtree passes over what it cannot remove.  (When the read
\* fails it ends with 404 and changes nothing.)
UninstallDapp(a) ==
    /\ a \in DOMAIN Load
    /\ UNCHANGED misreads
    /\ \E left \in {"gone", "partly", "whole"} :
         /\ directories[Load[a]] # "whole" => left # "whole"
         /\ directories[Load[a]] = "gone" => left = "gone"
         /\ directories' = [directories EXCEPT ![Load[a]] = left]
    /\ \/ SaveStops
       \/ /\ StopsBeforeSave \/ SaveRegistry(Drop(Load, a))
          /\ acknowledged' = acknowledged \ {a}

DappRequest == \E a \in DappIds : InstallDapp(a) \/ UninstallDapp(a)

(* A DApp whose installation was acknowledged is listed and served, with   *)
(* all its files and from a directory of its own, until it is removed,     *)
(* whatever else is installed, removed or interrupted: install_dapp,       *)
(* uninstall_dapp and serve_dapp_file of backend/routes/dapps.py.  The     *)
(* property excepts what the code loses: a save that stops half way loses  *)
(* the whole registry, and so does an installation that could not read an  *)
(* intact one, which it takes for empty and writes anew.                   *)
AcknowledgedIsServed ==
    /\ acknowledged \subseteq {a \in DOMAIN Load : directories[Load[a]] = "whole"}
    /\ \A a, b \in DOMAIN Load : Load[a] = Load[b] => a = b
=============================================================================
