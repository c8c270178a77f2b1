-------------------------- MODULE ClusterSnapshot ---------------------------
(***************************************************************************)
(* The lock of the cluster manager (m.mu in cluster/state.go) and what API *)
(* clients read under it.  The message handlers and the health check write *)
(* under the write lock; GetState copies the state under the read lock;    *)
(* sendHeartbeat WRITES the daemon's own entry under the read lock, so it  *)
(* may run between the copies one GetState makes.                          *)
(*                                                                         *)
(* A field is modelled by the number of the write that put it there: beat  *)
(* k writes LastHeartbeat and then Metrics.  A copy that races with these  *)
(* writes may read either field first.                                     *)
(***************************************************************************)
EXTENDS Naturals, FiniteSets

CONSTANTS
    Client,      \* concurrent calls of GetState
    Member,      \* nodes that join and leave
    MaxBeats,    \* bound: heartbeats
    MaxVersion   \* bound: joins and departures

ASSUME BoundsAssumption == MaxBeats \in Nat /\ MaxVersion \in Nat \ {0}

VARIABLES
    version,   \* m.state.Version
    members,   \* the other nodes in m.state.Nodes
    own,       \* the daemon's own entry: LastHeartbeat and Metrics
    beating,   \* where sendHeartbeat is
    calls      \* where each GetState is, and what it copied so far

vars == <<version, members, own, beating, calls>>

Fields == {"beat", "metrics"}

Copy == [pc: {"idle", "header", "half", "done"}, version: 0..MaxVersion,
         members: SUBSET Member, own: [Fields -> 0..MaxBeats], read: SUBSET Fields]

NoCopy == [pc |-> "idle", version |-> 0, members |-> {},
           own |-> [f \in Fields |-> 0], read |-> {}]

TypeOK ==
    /\ version \in 1..MaxVersion
    /\ members \subseteq Member
    /\ own \in [Fields -> 0..MaxBeats]
    /\ beating \in {"idle", "locked", "stamped"}
    /\ calls \in [Client -> Copy]

\* The clients inside RLock ... RUnlock.
Copying == {c \in Client : calls[c].pc \in {"header", "half"}}

\* The write lock can be taken: nobody holds the read lock.
WriteLockFree == Copying = {} /\ beating = "idle"

\* initMasterState, and no call of GetState yet.
Init ==
    /\ version = 1
    /\ members = {}
    /\ own = [f \in Fields |-> 0]
    /\ beating = "idle"
    /\ calls = [c \in Client |-> NoCopy]

\* sendHeartbeat: the read lock, then the two fields one after the other.
HeartbeatLock ==
    /\ beating = "idle"
    /\ own["beat"] < MaxBeats
    /\ beating' = "locked"
    /\ UNCHANGED <<version, members, own, calls>>

HeartbeatStamp ==
    /\ beating = "locked"
    /\ beating' = "stamped"
    /\ own' = [own EXCEPT !["beat"] = @ + 1]
    /\ UNCHANGED <<version, members, calls>>

HeartbeatMetrics ==
    /\ beating = "stamped"
    /\ beating' = "idle"
    /\ own' = [own EXCEPT !["metrics"] = own["beat"]]
    /\ UNCHANGED <<version, members, calls>>

\* Mutation: Version counts joins only.
HandleMembershipCountsJoins(m) ==
    /\ WriteLockFree
    /\ version < MaxVersion
    /\ \/ members' = members \cup {m} /\ version' = version + 1
       \/ members' = members \ {m} /\ UNCHANGED version
    /\ UNCHANGED <<own, beating, calls>>

\* A handler changes the list and then Version, under the write lock.
HandleMembership(m) ==
    /\ WriteLockFree
    /\ version < MaxVersion
    /\ members' \in {members \cup {m}, members \ {m}}
    /\ version' = version + 1
    /\ UNCHANGED <<own, beating, calls>>

\* GetState: the header of the state, then the nodes, field by field.
CopyHeader(c) ==
    /\ calls[c].pc \in {"idle", "done"}
    /\ calls' = [calls EXCEPT ![c] =
          [pc |-> "header", version |-> version, members |-> {},
           own |-> NoCopy.own, read |-> {}]]
    /\ UNCHANGED <<version, members, own, beating>>

CopyField(c, f) ==
    /\ calls[c].pc \in {"header", "half"}
    /\ f \notin calls[c].read
    /\ LET last == calls[c].pc = "half" IN
       calls' = [calls EXCEPT ![c] =
          [pc |-> IF last THEN "done" ELSE "half",
           version |-> calls[c].version,
           members |-> IF last THEN members ELSE calls[c].members,
           own |-> [calls[c].own EXCEPT ![f] = own[f]],
           read |-> calls[c].read \cup {f}]]
    /\ UNCHANGED <<version, members, own, beating>>

Next ==
    \/ HeartbeatLock
    \/ HeartbeatStamp
    \/ HeartbeatMetrics
    \/ \E m \in Member : HandleMembership(m)
    \/ \E c \in Client : CopyHeader(c) \/ \E f \in Fields : CopyField(c, f)

Spec == Init /\ [][Next]_vars

-----------------------------------------------------------------------------
\* What a call copied fits together while it holds the lock: the Version in
\* its header is still the Version of the list it goes on to copy (GetState
\* against the handlers' write lock).
CopyIsCurrent ==
    \A c \in Copying : calls[c].version = version

\* Two clients that were given the same Version were given the same list of
\* nodes, whenever they asked: Version identifies the membership.
VersionIdentifiesMembers ==
    \A c, d \in Client :
        calls[c].pc = "done" /\ calls[d].pc = "done"
          /\ calls[c].version = calls[d].version
          => calls[c].members = calls[d].members
=============================================================================
