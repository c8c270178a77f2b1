---------------------------- MODULE Certificates ----------------------------
(***************************************************************************)
(* TLS certificates of the node (backend/ssl_manager.py, routes/ssl.py,    *)
(* "pinet ssl" of bin/pinet) and the start of the server that needs them   *)
(* (run.py): the CA pair, the server pairs, named after the second they    *)
(* were made in, and the two links that choose one of them.                *)
(*                                                                         *)
(* A request blocks the event loop until its commands have ended, so that  *)
(* the backend runs one task at a time; the command line runs its own on   *)
(* the same files, and there is no lock.  Each step is seen by the other   *)
(* and by a process that is killed after it, and a command that fails,     *)
(* times out or is not installed ends the task where it is ("set -e" of    *)
(* bin/pinet).  A file holds 0 when it is missing, else the number of the  *)
(* pair it belongs to.                                                     *)
(***************************************************************************)
EXTENDS Naturals

CONSTANTS
    MaxPairs,      \* bound: pairs of keys and certificates ever made
    MaxNames,      \* bound: seconds in which one is made
    MaxStops       \* bound: tasks that end, with the process or without it

ASSUME CertificatesAssumption ==
    MaxPairs \in Nat /\ MaxNames \in Nat \ {0} /\ MaxStops \in Nat

VARIABLES
    serving,   \* "down", "http" or "https"
    ca,        \* rootCA.pem and rootCA-key.pem
    files,     \* the server pairs, by name
    links,     \* server.pem and server-key.pem: a name, or 0
    task,      \* what the backend and the command line are at
    made,      \* pairs made so far
    stamp,     \* the second it is
    stops,
    broken     \* which pairs a task left half way, or replaced while another
               \* ran, and none has replaced alone since: "ca", "server"

certVars == <<serving, ca, files, links, task, made, stamp, stops, broken>>

Half == {"cert", "key"}
Other(h) == IF h = "cert" THEN "key" ELSE "cert"
Worker == {"backend", "cli"}
Peer(w) == IF w = "cli" THEN "backend" ELSE "cli"
Number == 0..MaxPairs
Pair == [Half -> Number]
NoPair == [h \in Half |-> 0]
Name == 1..MaxNames

\* A task: the step it is at, the tool it uses, the name and the number of the
\* pair it makes, the half it has still to write or to link, whether the server
\* starts with the pair, and whether it has had the files to itself.
Step == {"idle", "ca", "ca second", "issue", "issue second", "link", "symlink",
         "delete", "delete ca"}
Task == [step : Step, tool : {"mkcert", "openssl"}, name : Name, pair : Number,
         half : Half, starts : BOOLEAN, alone : BOOLEAN]
Idle == [step |-> "idle", tool |-> "openssl", name |-> 1, pair |-> 0,
         half |-> "cert", starts |-> FALSE, alone |-> FALSE]

CertificatesTypeOK ==
    /\ serving \in {"down", "http", "https"}
    /\ ca \in Pair
    /\ files \in [Name -> Pair]
    /\ links \in [Half -> Name \cup {0}]
    /\ task \in [Worker -> Task]
    /\ made \in Number
    /\ stamp \in Name
    /\ stops \in 0..MaxStops
    /\ broken \subseteq {"ca", "server"}

CertificatesInit ==
    /\ serving = "down"
    /\ ca = NoPair
    /\ files = [n \in Name |-> NoPair]
    /\ links = [h \in Half |-> 0]
    /\ task = [w \in Worker |-> Idle]
    /\ made = 0 /\ stamp = 1 /\ stops = 0
    /\ broken = {}

\* get_cert_paths: os.path.exists follows the links.
Chosen == [h \in Half |-> IF links[h] = 0 THEN 0 ELSE files[links[h]][h]]
CertsExist == \A h \in Half : Chosen[h] # 0
CAExists == \A h \in Half : ca[h] # 0

\* The server does not start on a pair that does not match.
ServedWith(pair) == IF pair["cert"] = pair["key"] /\ pair["cert"] # 0 THEN "https" ELSE "down"

-----------------------------------------------------------------------------
(* Tasks begin: mkcert is preferred when it answers, each time it is asked. *)

Begin(w, new) ==
    /\ task[w] = Idle
    /\ task' = [v \in Worker |-> IF v = w
                                 THEN [new EXCEPT !.alone = (task[Peer(w)] = Idle)]
                                 ELSE [task[v] EXCEPT !.alone = FALSE]]
    /\ UNCHANGED <<ca, files, links, made, stamp, stops, broken>>

\* run.py: ensure_certs, then the server.
Start ==
    /\ serving = "down"
    /\ task["backend"] = Idle
    /\ \/ /\ CertsExist
          /\ serving' = ServedWith(Chosen)
          /\ UNCHANGED <<ca, files, links, task, made, stamp, stops, broken>>
       \/ /\ ~CertsExist
          /\ \E tool \in {"mkcert", "openssl"} :
               Begin("backend", [Idle EXCEPT !.step = IF tool = "openssl" /\ ~CAExists
                                                      THEN "ca" ELSE "issue",
                                             !.tool = tool, !.starts = TRUE])
          /\ UNCHANGED serving
       \/ \* neither tool is installed
          /\ ~CertsExist
          /\ serving' = "http"
          /\ UNCHANGED <<ca, files, links, task, made, stamp, stops, broken>>

\* POST /ssl/generate: the CA, unless both its files exist, and a pair.
Generate ==
    /\ serving # "down"
    /\ \E tool \in {"mkcert", "openssl"} :
         Begin("backend", [Idle EXCEPT !.step = IF CAExists THEN "issue" ELSE "ca",
                                       !.tool = tool])
    /\ UNCHANGED serving

\* DELETE /ssl/certs
Delete ==
    /\ serving # "down"
    /\ Begin("backend", [Idle EXCEPT !.step = "delete"])
    /\ UNCHANGED serving

\* pinet ssl generate looks for the certificate of the CA alone.
CliGenerate ==
    /\ \E tool \in {"mkcert", "openssl"} :
         Begin("cli", [Idle EXCEPT !.step = IF ca["cert"] # 0 THEN "issue" ELSE "ca",
                                   !.tool = tool])
    /\ UNCHANGED serving

\* pinet ssl delete
CliDelete ==
    /\ Begin("cli", [Idle EXCEPT !.step = "delete"])
    /\ UNCHANGED serving

-----------------------------------------------------------------------------
(* Steps.  openssl writes the key first, mkcert the certificate. *)

First(tool) == IF tool = "openssl" THEN "key" ELSE "cert"

NewPair ==
    /\ made < MaxPairs
    /\ made' = made + 1

Goes(w, t) == task' = [task EXCEPT ![w] = t]

\* A pair has been replaced: what is known of it.
Replaced(w, what) ==
    broken' = IF task[w].alone THEN broken \ {what} ELSE broken \cup {what}

MakeCA(w) ==
    /\ task[w].step = "ca"
    /\ NewPair
    /\ ca' = [ca EXCEPT ![First(task[w].tool)] = made']
    /\ Goes(w, [task[w] EXCEPT !.step = "ca second", !.pair = made',
                               !.half = Other(First(task[w].tool))])
    /\ UNCHANGED <<serving, files, links, stamp, stops, broken>>

\* generate_cert looks for its tool again, after generate_ca.
MakeCASecond(w) ==
    /\ task[w].step = "ca second"
    /\ ca' = [ca EXCEPT ![task[w].half] = task[w].pair]
    /\ Replaced(w, "ca")
    /\ \E tool \in {"mkcert", "openssl"} :
         /\ w = "cli" \/ task[w].starts => tool = task[w].tool
         /\ Goes(w, [task[w] EXCEPT !.step = "issue", !.tool = tool, !.pair = 0,
                                    !.half = "cert"])
    /\ UNCHANGED <<serving, files, links, made, stamp, stops>>

\* A pair of an earlier task in this second is overwritten.
Issue(w) ==
    /\ task[w].step = "issue"
    /\ NewPair
    /\ files' = [files EXCEPT ![stamp][First(task[w].tool)] = made']
    /\ Goes(w, [task[w] EXCEPT !.step = "issue second", !.name = stamp, !.pair = made',
                               !.half = Other(First(task[w].tool))])
    /\ UNCHANGED <<serving, ca, links, stamp, stops, broken>>

\* openssl signs only with a CA whose halves match.
IssueSecond(w) ==
    /\ task[w].step = "issue second"
    /\ task[w].tool = "openssl" => ca["cert"] = ca["key"] /\ CAExists
    /\ files' = [files EXCEPT ![task[w].name][task[w].half] = task[w].pair]
    /\ Goes(w, [task[w] EXCEPT !.step = "link", !.half = "cert", !.tool = Idle.tool,
                               !.pair = 0])
    /\ UNCHANGED <<serving, ca, links, made, stamp, stops, broken>>

\* The first link, then the second: the backend removes the old one and fails if
\* another takes its place; ln -sf replaces whatever is there.
Unlink(w) ==
    /\ w = "backend" /\ task[w].step = "link"
    /\ links[task[w].half] # 0
    /\ links' = [links EXCEPT ![task[w].half] = 0]
    /\ Goes(w, [task[w] EXCEPT !.step = "symlink"])
    /\ UNCHANGED <<serving, ca, files, made, stamp, stops, broken>>

Links(w, h) ==
    /\ task[w].step \in {"link", "symlink"} /\ task[w].half = h
    /\ w = "backend" => links[h] = 0
    /\ links' = [links EXCEPT ![h] = task[w].name]
    /\ UNCHANGED <<ca, files, made, stamp, stops>>

LinkCert(w) ==
    /\ Links(w, "cert")
    /\ Goes(w, [task[w] EXCEPT !.step = "link", !.half = "key"])
    /\ UNCHANGED <<serving, broken>>

LinkDone(w) ==
    /\ Goes(w, Idle)
    /\ serving' = IF task[w].starts THEN ServedWith(files[task[w].name]) ELSE serving
    /\ Replaced(w, "server")

\* Mutation: the link to the key of before is kept.
LinkKeyKept(w) ==
    /\ task[w].step \in {"link", "symlink"} /\ task[w].half = "key"
    /\ links' = [links EXCEPT !["key"] = IF @ = 0 THEN task[w].name ELSE @]
    /\ UNCHANGED <<ca, files, made, stamp, stops>>
    /\ LinkDone(w)

LinkKey(w) ==
    /\ Links(w, "key")
    /\ LinkDone(w)

\* rmtree and rm -rf, in any order: a file, a link; the command line does not
\* wait for what another task put there after it listed the directory.
DeleteOne(w) ==
    /\ task[w].step = "delete"
    /\ \/ \E n \in Name, h \in Half :
            /\ files[n][h] # 0
            /\ files' = [files EXCEPT ![n][h] = 0]
            /\ UNCHANGED <<links, task>>
       \/ \E h \in Half :
            /\ links[h] # 0
            /\ links' = [links EXCEPT ![h] = 0]
            /\ UNCHANGED <<files, task>>
       \/ /\ \/ \A n \in Name, h \in Half : files[n][h] = 0 /\ links[h] = 0
             \/ w = "cli" /\ ~task[w].alone
          /\ Goes(w, [task[w] EXCEPT !.step = "delete ca"])
          /\ UNCHANGED <<files, links>>
    /\ UNCHANGED <<serving, ca, made, stamp, stops, broken>>

DeleteCA(w) ==
    /\ task[w].step = "delete ca"
    /\ \/ \E h \in Half :
            /\ ca[h] # 0
            /\ ca' = [ca EXCEPT ![h] = 0]
            /\ UNCHANGED task
       \/ /\ ca = NoPair \/ (w = "cli" /\ ~task[w].alone)
          /\ Goes(w, Idle)
          /\ UNCHANGED ca
    /\ UNCHANGED <<serving, files, links, made, stamp, stops, broken>>

-----------------------------------------------------------------------------

\* What is half done when a task ends here.
HalfDone(w) ==
    CASE task[w].step = "ca second" -> {"ca"}
      [] task[w].step = "issue second" ->
           IF \E h \in Half : links[h] = task[w].name THEN {"server"} ELSE {}
      [] task[w].step \in {"link", "symlink"} -> {"server"}
      [] OTHER -> {}

Cut(W) ==
    /\ stops < MaxStops
    /\ stops' = stops + 1
    /\ broken' = broken \cup UNION {HalfDone(w) : w \in W}
    /\ task' = [w \in Worker |-> IF w \in W THEN Idle ELSE task[w]]
    /\ UNCHANGED <<ca, files, links, made, stamp>>

\* A command fails, an OSError is raised, or the command line is stopped.  A
\* server that was to start runs without TLS when commands failed, and not at all
\* on an exception.
TaskFails(w) ==
    /\ task[w] # Idle
    /\ Cut({w})
    /\ serving' \in IF ~task[w].starts THEN {serving}
                    ELSE IF task[w].step \in {"link", "symlink"} THEN {"down"}
                    ELSE {"down", "http"}

\* The backend is killed; the command line too, when the device goes down.
ProcessDies ==
    /\ serving # "down" \/ task["backend"] # Idle
    /\ \E W \in {{"backend"}, Worker} : Cut(W)
    /\ serving' = "down"

ClockTicks ==
    /\ stamp < MaxNames
    /\ stamp' = stamp + 1
    /\ UNCHANGED <<serving, ca, files, links, task, made, stops, broken>>

TaskStep(w) ==
    \/ MakeCA(w) \/ MakeCASecond(w) \/ Issue(w) \/ IssueSecond(w)
    \/ Unlink(w) \/ LinkCert(w) \/ LinkKey(w)
    \/ DeleteOne(w) \/ DeleteCA(w)
    \/ TaskFails(w)

CertificateStep ==
    \/ Start \/ Generate \/ Delete
    \/ CliGenerate \/ CliDelete
    \/ \E w \in Worker : TaskStep(w)
    \/ ClockTicks

-----------------------------------------------------------------------------
(* Between tasks the certificate and the key the links choose are of one   *)
(* pair, and so are those of the CA, unless a task ended while it was      *)
(* replacing just these, or replaced them while the backend and the        *)
(* command line both ran one, and none has replaced them alone since:      *)
(* generate_cert and generate_ca of backend/ssl_manager.py and cmd_ssl of  *)
(* bin/pinet, deletions included.                                          *)
PairsMatch ==
    (\A w \in Worker : task[w] = Idle) =>
        /\ CertsExist /\ "server" \notin broken => Chosen["cert"] = Chosen["key"]
        /\ CAExists /\ "ca" \notin broken => ca["cert"] = ca["key"]
=============================================================================
