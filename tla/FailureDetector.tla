-------------------------- MODULE FailureDetector ---------------------------
(***************************************************************************)
(* What the cluster manager promises about the health of the nodes it      *)
(* lists: how the status of one node may change, with no list, no messages *)
(* and no clock.  ClusterManager implements it.                            *)
(***************************************************************************)
CONSTANTS Node, Self

VARIABLES
    health,   \* the status of each node; "absent" when it is not listed
    running   \* the daemon runs

vars == <<health, running>>

Silence == {"stale", "offline"}
Health == Silence \cup {"absent", "active"}

TypeOK ==
    /\ health \in [Node -> Health]
    /\ running \in BOOLEAN

Init ==
    /\ health = [n \in Node |-> "absent"]
    /\ running = FALSE

\* The daemon starts with an empty list or with itself on it.
Begin ==
    /\ ~running
    /\ running' = TRUE
    /\ \/ health' = [health EXCEPT ![Self] = "active"]
       \/ UNCHANGED health

\* The daemon stops and forgets every node.
End ==
    /\ running
    /\ running' = FALSE
    /\ health' = [n \in Node |-> "absent"]

\* A node that is not listed joins.
Join(n) ==
    /\ running
    /\ health[n] = "absent"
    /\ health' = [health EXCEPT ![n] = "active"]
    /\ UNCHANGED running

\* A listed node was heard.
Hear(n) ==
    /\ running
    /\ health[n] # "absent"
    /\ health' = [health EXCEPT ![n] = "active"]
    /\ UNCHANGED running

\* A listed node leaves.
Leave(n) ==
    /\ running
    /\ health' = [health EXCEPT ![n] = "absent"]
    /\ UNCHANGED running

\* Some listed nodes, never the daemon itself, are found silent.  Silence only
\* deepens: a node found offline is not found merely stale later.
Suspect ==
    /\ running
    /\ health' \in [Node -> Health]
    /\ \A n \in Node :
         \/ health'[n] = health[n]
         \/ /\ n # Self
            /\ \/ health[n] = "active" /\ health'[n] \in Silence
               \/ health[n] = "stale" /\ health'[n] = "offline"
    /\ UNCHANGED running

Next ==
    \/ Begin
    \/ End
    \/ Suspect
    \/ \E n \in Node : Join(n) \/ Hear(n) \/ Leave(n)

Spec == Init /\ [][Next]_vars
=============================================================================
