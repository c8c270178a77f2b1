--------------------------- MODULE ClusterManager ---------------------------
(***************************************************************************)
(* The cluster manager daemon of one PiNet node (services/cluster-manager, *)
(* cluster/state.go): the master's in-memory list of nodes, the messages   *)
(* that change it, and the health check that ages its entries.             *)
(*                                                                         *)
(* Three goroutines run in one process: heartbeatLoop, messagePollLoop and *)
(* healthCheckLoop.  Each handler holds m.mu for its whole body, so one    *)
(* handler is one action; between two messages of one poll the lock is     *)
(* free, so the other loops interleave there.  The lock itself, and the    *)
(* read lock under which sendHeartbeat writes, are the subject of          *)
(* ClusterSnapshot.                                                        *)
(*                                                                         *)
(* Abstractions.  The slice m.state.Nodes is a function from tickets to    *)
(* entries: the ticket of an entry is the Version its append produced (1   *)
(* for the master's own entry), so the order of tickets is the order of    *)
(* the slice.  LastHeartbeat, a wall-clock time, is kept as the age now -  *)
(* LastHeartbeat, which is all that the code compares; ages above MaxAge   *)
(* are alike.  Metrics, addresses, hostnames and LastUpdated are left out. *)
(***************************************************************************)
EXTENDS Naturals, Sequences

CONSTANTS
    Node,                \* node identifiers
    Self,                \* config.NodeID of this daemon
    Role,                \* config.Role: "master" or "worker"
    HeartbeatTimeout,    \* config.HeartbeatTimeout
    NodeOfflineTimeout,  \* config.NodeOfflineTimeout
    MessageTypes,        \* message types that some peer sends
    ClockSteps,          \* how far the wall clock may move in one step
    MaxBatch,            \* bound: messages one poll returns
    MaxVersion           \* bound: joins and departures in one run of the daemon

ASSUME SelfAssumption == Self \in Node
ASSUME RoleAssumption == Role \in {"master", "worker"}
ASSUME TimeoutAssumption == /\ HeartbeatTimeout \in Nat
                            /\ NodeOfflineTimeout \in Nat
ASSUME ClockAssumption == ClockSteps \subseteq Nat \ {0}
ASSUME BoundAssumption == MaxBatch \in Nat /\ MaxVersion \in Nat

VARIABLES
    up,       \* the process runs and Start has returned
    nodes,    \* m.state.Nodes, by ticket
    version,  \* m.state.Version; 0 stands for m.state == nil
    batch     \* messages of the current poll still to be handled

vars == <<up, nodes, version, batch>>

-----------------------------------------------------------------------------
Status == {"active", "stale", "offline"}

MaxAge == 1 + (IF HeartbeatTimeout > NodeOfflineTimeout
                 THEN HeartbeatTimeout ELSE NodeOfflineTimeout)

NodeInfo == [id: Node, role: {"master", "worker"}, status: Status, age: 0..MaxAge]

ClusterMessage == [type: MessageTypes, id: Node]

\* Tickets of the entries of node n, and the one the code's loops reach first.
Tickets(n) == {t \in DOMAIN nodes : nodes[t].id = n}
IsFirst(t) == \A s \in Tickets(nodes[t].id) : t <= s

TypeOK ==
    /\ up \in BOOLEAN
    /\ version \in Nat
    /\ DOMAIN nodes \subseteq 1..version
    /\ \A t \in DOMAIN nodes : nodes[t] \in NodeInfo
    /\ nodes = [t \in DOMAIN nodes |-> nodes[t]]
    /\ batch \in Seq(ClusterMessage)

NoNodes == [t \in {} |-> t]

NewEntry(n, role) == [id |-> n, role |-> role, status |-> "active", age |-> 0]

-----------------------------------------------------------------------------
\* A daemon that has not been started.
Init ==
    /\ up = FALSE
    /\ nodes = NoNodes
    /\ version = 0
    /\ batch = <<>>

\* Start: only a master has a state to initialise; a worker's stays nil.
Start ==
    /\ ~up
    /\ up' = TRUE
    /\ IF Role = "master"
         THEN /\ version' = 1
              /\ nodes' = [t \in {1} |-> NewEntry(Self, "master")]
         ELSE UNCHANGED <<nodes, version>>
    /\ UNCHANGED batch

\* The process ends, by a signal or a crash.  Nothing is persisted.
Exit ==
    /\ up
    /\ up' = FALSE
    /\ nodes' = NoNodes
    /\ version' = 0
    /\ batch' = <<>>

\* sendHeartbeat: refreshes the first entry with this daemon's own identifier.
\* It sends no message and leaves the entry's status alone.
SendHeartbeat ==
    /\ up
    /\ version # 0
    /\ nodes' = [t \in DOMAIN nodes |->
                   IF nodes[t].id = Self /\ IsFirst(t)
                     THEN [nodes[t] EXCEPT !.age = 0] ELSE nodes[t]]
    /\ UNCHANGED <<up, version, batch>>

\* pollMessages: Maxima hands over any messages, in any order.  A message that
\* is lost, late or delivered twice is one the batches leave out or repeat.
ChangesVersion(m) == m.type \in {"CLUSTER_JOIN_REQUEST", "NODE_DEREGISTER"}

PollMessages ==
    /\ up
    /\ batch = <<>>
    /\ \E k \in 1..MaxBatch : \E msgs \in [1..k -> ClusterMessage] :
         /\ \/ version + k <= MaxVersion
            \/ \A i \in 1..k : ~ChangesVersion(msgs[i])
         /\ batch' = msgs
    /\ UNCHANGED <<up, nodes, version>>

Handling(type) ==
    /\ up
    /\ batch # <<>>
    /\ Head(batch).type = type
    /\ batch' = Tail(batch)
    /\ UNCHANGED up

\* handleJoinRequest: appends an entry, whether or not the node has one.
HandleJoinRequest ==
    /\ Handling("CLUSTER_JOIN_REQUEST")
    /\ IF Role = "master" /\ version # 0
         THEN /\ version' = version + 1
              /\ nodes' = [t \in DOMAIN nodes \cup {version + 1} |->
                             IF t = version + 1
                               THEN NewEntry(Head(batch).id, "worker")
                               ELSE nodes[t]]
         ELSE UNCHANGED <<nodes, version>>

\* Mutation: the status is left to the next health check.
HandleHeartbeatKeepsStatus ==
    /\ Handling("CLUSTER_HEARTBEAT")
    /\ nodes' = [t \in DOMAIN nodes |->
                   IF nodes[t].id = Head(batch).id /\ IsFirst(t)
                     THEN [nodes[t] EXCEPT !.age = 0] ELSE nodes[t]]
    /\ UNCHANGED version

\* handleHeartbeat: the first entry of the sender, and only that one, is
\* refreshed and becomes active again.
HandleHeartbeat ==
    /\ Handling("CLUSTER_HEARTBEAT")
    /\ nodes' = [t \in DOMAIN nodes |->
                   IF nodes[t].id = Head(batch).id /\ IsFirst(t)
                     THEN [nodes[t] EXCEPT !.age = 0, !.status = "active"]
                     ELSE nodes[t]]
    /\ UNCHANGED version

\* Mutation: the removal without Version++.
HandleDeregisterUncounted ==
    /\ Handling("NODE_DEREGISTER")
    /\ nodes' = IF Role = "master"
                  THEN [t \in DOMAIN nodes \ Tickets(Head(batch).id) |-> nodes[t]]
                  ELSE nodes
    /\ UNCHANGED version

\* handleDeregister: every entry of the node goes, the master's own included;
\* Version grows even when there was none.
HandleDeregister ==
    /\ Handling("NODE_DEREGISTER")
    /\ IF Role = "master" /\ version # 0
         THEN /\ version' = version + 1
              /\ nodes' = [t \in DOMAIN nodes \ Tickets(Head(batch).id) |-> nodes[t]]
         ELSE UNCHANGED <<nodes, version>>

\* Any other type is logged and dropped.
HandleUnknown ==
    /\ up
    /\ batch # <<>>
    /\ Head(batch).type \notin
         {"CLUSTER_JOIN_REQUEST", "CLUSTER_HEARTBEAT", "NODE_DEREGISTER"}
    /\ batch' = Tail(batch)
    /\ UNCHANGED <<up, nodes, version>>

\* Mutations: the daemon's own entry not skipped; only an active entry looked at.
HealthOfSelfToo(e) ==
    IF e.age > NodeOfflineTimeout THEN "offline"
    ELSE IF e.age > HeartbeatTimeout THEN "stale"
    ELSE e.status

HealthOfActiveOnly(e) ==
    IF e.id = Self \/ e.status # "active" THEN e.status
    ELSE IF e.age > NodeOfflineTimeout THEN "offline"
    ELSE IF e.age > HeartbeatTimeout THEN "stale"
    ELSE e.status

\* The status checkNodeHealth gives an entry; the offline limit is tried first.
HealthOf(e) ==
    IF e.id = Self THEN e.status
    ELSE IF e.age > NodeOfflineTimeout THEN "offline"
    ELSE IF e.age > HeartbeatTimeout THEN "stale"
    ELSE e.status

CheckNodeHealth ==
    /\ up
    /\ Role = "master"
    /\ version # 0
    /\ nodes' = [t \in DOMAIN nodes |->
                   [nodes[t] EXCEPT !.status = HealthOf(nodes[t])]]
    /\ UNCHANGED <<up, version, batch>>

\* The wall clock advances, by a second or by a jump when it is first set.
Older(age, d) == IF age + d > MaxAge THEN MaxAge ELSE age + d

Tick ==
    /\ up
    /\ \E d \in ClockSteps :
         nodes' = [t \in DOMAIN nodes |->
                     [nodes[t] EXCEPT !.age = Older(nodes[t].age, d)]]
    /\ UNCHANGED <<up, version, batch>>

Next ==
    \/ Start
    \/ Exit
    \/ SendHeartbeat
    \/ PollMessages
    \/ HandleJoinRequest
    \/ HandleHeartbeat
    \/ HandleDeregister
    \/ HandleUnknown
    \/ CheckNodeHealth
    \/ Tick

Spec == Init /\ [][Next]_vars

\* The loops run on tickers for as long as the process does; a message that a
\* poll returned is handled.  Nothing forces peers to send, nor the process to
\* exit or to be started.
FairSpec ==
    /\ Spec
    /\ WF_vars(CheckNodeHealth)
    /\ WF_vars(Tick)
    /\ WF_vars(SendHeartbeat)
    /\ WF_vars(HandleJoinRequest)
    /\ WF_vars(HandleHeartbeat)
    /\ WF_vars(HandleDeregister)
    /\ WF_vars(HandleUnknown)

-----------------------------------------------------------------------------
(* Properties. *)

\* An entry's status that reports silence is backed by that much silence of the
\* entry: no interleaving of heartbeats, joins and health checks leaves an entry
\* marked stale or offline that was refreshed within the limit (checkNodeHealth,
\* handleHeartbeat).  This speaks of entries, not of nodes: a heartbeat refreshes
\* the first entry of its node alone, so the second entry of a node that joined
\* twice is marked stale and offline while the node is heard all the time.
StatusJustified ==
    \A t \in DOMAIN nodes :
        /\ nodes[t].status = "offline" => nodes[t].age > NodeOfflineTimeout
        /\ nodes[t].status = "stale" => nodes[t].age > HeartbeatTimeout

\* An offline entry is not quietly upgraded: it disappears, or it becomes
\* active because its node was heard in that very step (the order of the two
\* limits in checkNodeHealth, and the reset in handleHeartbeat).
OfflineUntilHeard ==
    [][\A t \in DOMAIN nodes \cap DOMAIN nodes' :
          nodes[t].status = "offline" /\ nodes'[t].status # "offline"
            => nodes'[t].status = "active" /\ nodes'[t].age = 0]_vars

Members == {nodes[t].id : t \in DOMAIN nodes}

\* While one daemon runs, every change of the membership shows in Version, and
\* Version never goes back, so a client that polls the state can tell by
\* Version alone whether its list of nodes is out of date.
MembershipVersioned ==
    [][up /\ up' => /\ version' >= version
                    /\ Members' # Members => version' > version]_vars

\* A worker that falls silent is found out: an entry that is not refreshed is
\* marked offline or removed, whatever else the daemon does meanwhile.
SilenceDetected ==
    \A t \in 1..MaxVersion :
        (t \in DOMAIN nodes /\ nodes[t].id # Self /\ nodes[t].age > 0)
          ~> (\/ t \notin DOMAIN nodes
              \/ nodes[t].status = "offline"
              \/ nodes[t].age = 0)

\* The status under which the code finds node n: that of its first entry.
StatusOf(n) ==
    IF Tickets(n) = {} THEN "absent"
    ELSE nodes[CHOOSE t \in Tickets(n) : IsFirst(t)].status

\* What a client of the daemon relies on, whatever the list looks like.
FD == INSTANCE FailureDetector WITH
          health <- [n \in Node |-> StatusOf(n)], running <- up

\* The list, read the way the code looks nodes up, is a failure detector.
ImplementsFailureDetector == FD!Spec
=============================================================================
