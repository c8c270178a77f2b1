------------------------ MODULE ClusterManagerProofs ------------------------
(***************************************************************************)
(* Machine-checked theorems about ClusterManager, for every set of nodes,  *)
(* role, time limit, clock and bound.                                      *)
(***************************************************************************)
EXTENDS ClusterManager, TLAPS, WellFoundedInduction

-----------------------------------------------------------------------------
(* The inductive invariant.                                                *)
(*                                                                         *)
(* StatusJustified is not inductive: sendHeartbeat resets the age of the   *)
(* daemon's own entry without resetting its status, which is right only    *)
(* because checkNodeHealth never marks that entry.                         *)

EntryOK(e) ==
    /\ e \in NodeInfo
    /\ e.status = "offline" => e.age > NodeOfflineTimeout
    /\ e.status = "stale" => e.age > HeartbeatTimeout
    /\ e.id = Self => e.status = "active"

EntriesOK == \A t \in DOMAIN nodes : EntryOK(nodes[t])

\* The list is a function on tickets that were handed out.
ListOK ==
    /\ version \in Nat
    /\ DOMAIN nodes \subseteq 1..version
    /\ nodes = [t \in DOMAIN nodes |-> nodes[t]]

ControlOK == up \in BOOLEAN /\ batch \in Seq(ClusterMessage)

\* A daemon that does not run keeps nothing.
StoppedIsEmpty == ~up => nodes = NoNodes /\ version = 0 /\ batch = <<>>

Inv == ControlOK /\ ListOK /\ EntriesOK /\ StoppedIsEmpty

-----------------------------------------------------------------------------
(* What one entry goes through. *)

LEMMA MaxAgeType ==
    MaxAge \in Nat /\ MaxAge > HeartbeatTimeout /\ MaxAge > NodeOfflineTimeout
BY TimeoutAssumption DEF MaxAge

LEMMA NewEntryOK ==
    ASSUME NEW n \in Node, NEW r \in {"master", "worker"}
    PROVE  EntryOK(NewEntry(n, r))
BY MaxAgeType DEF EntryOK, NewEntry, NodeInfo, Status

LEMMA RefreshedOwnOK ==
    ASSUME NEW e, EntryOK(e), e.id = Self
    PROVE  EntryOK([e EXCEPT !.age = 0])
BY MaxAgeType DEF EntryOK, NodeInfo, Status

LEMMA HeardOK ==
    ASSUME NEW e, EntryOK(e)
    PROVE  EntryOK([e EXCEPT !.age = 0, !.status = "active"])
<1> DEFINE h == [e EXCEPT !.age = 0, !.status = "active"]
<1>0. 0 \in 0..MaxAge /\ "active" \in Status
  BY MaxAgeType DEF Status
<1>1. h \in NodeInfo
  <2>1. e \in [id: Node, role: {"master", "worker"}, status: Status, age: 0..MaxAge]
    BY DEF EntryOK, NodeInfo
  <2> QED
    BY <2>1, <1>0 DEF NodeInfo
<1>3. h.status = "active"
  BY DEF EntryOK, NodeInfo
<1> QED
  BY <1>1, <1>3 DEF EntryOK

LEMMA CheckedOK ==
    ASSUME NEW e, EntryOK(e)
    PROVE  EntryOK([e EXCEPT !.status = HealthOf(e)])
BY MaxAgeType, TimeoutAssumption DEF EntryOK, HealthOf, NodeInfo, Status

LEMMA OlderOK ==
    ASSUME NEW e, EntryOK(e), NEW d \in ClockSteps
    PROVE  EntryOK([e EXCEPT !.age = Older(e.age, d)])
<1>1. d \in Nat
  BY ClockAssumption
<1>2. Older(e.age, d) \in 0..MaxAge /\ Older(e.age, d) >= e.age
  BY <1>1, MaxAgeType DEF Older, EntryOK, NodeInfo
<1> QED
  BY <1>2, MaxAgeType, TimeoutAssumption DEF EntryOK, NodeInfo, Status

-----------------------------------------------------------------------------
LEMMA InitInv == Init => Inv
<1> SUFFICES ASSUME Init PROVE Inv
  OBVIOUS
<1>1. nodes = [t \in {} |-> t]
  BY DEF Init, NoNodes
<1>2. DOMAIN nodes = {}
  BY <1>1
<1>3. nodes = [t \in DOMAIN nodes |-> nodes[t]]
  BY <1>1, <1>2
<1>4. ListOK /\ EntriesOK
  BY <1>2, <1>3 DEF Init, ListOK, EntriesOK
<1>5. up \in BOOLEAN
  BY DEF Init
<1>6. batch \in Seq(ClusterMessage)
  BY DEF Init
<1>7. StoppedIsEmpty
  BY DEF Init, StoppedIsEmpty
<1> QED
  BY <1>4, <1>5, <1>6, <1>7 DEF Inv, ControlOK

\* The control state, whichever handler runs.
LEMMA ControlStep == Inv /\ [Next]_vars => ControlOK' /\ StoppedIsEmpty'
<1> SUFFICES ASSUME Inv, [Next]_vars PROVE ControlOK' /\ StoppedIsEmpty'
  OBVIOUS
<1> USE DEF Inv, ControlOK, StoppedIsEmpty
<1>1. CASE Start
  BY <1>1 DEF Start
<1>2. CASE Exit
  <2>1. up' = FALSE /\ nodes' = NoNodes /\ version' = 0
    BY <1>2 DEF Exit
  <2>2. batch' = <<>>
    BY <1>2 DEF Exit
  <2>3. batch' \in Seq(ClusterMessage)
    BY <2>2
  <2> QED
    BY <2>1, <2>2, <2>3
<1>3. CASE SendHeartbeat
  BY <1>3 DEF SendHeartbeat
<1>4. CASE PollMessages
  <2>1. PICK k \in 1..MaxBatch : batch' \in [1..k -> ClusterMessage]
    BY <1>4 DEF PollMessages
  <2>2. batch' \in Seq(ClusterMessage)
    BY <2>1, BoundAssumption
  <2> QED
    BY <1>4, <2>2 DEF PollMessages
<1>5. ASSUME NEW type, Handling(type) PROVE ControlOK' /\ StoppedIsEmpty'
  BY <1>5 DEF Handling
<1>6. CASE HandleJoinRequest
  BY <1>5, <1>6 DEF HandleJoinRequest
<1>7. CASE HandleHeartbeat
  BY <1>5, <1>7 DEF HandleHeartbeat
<1>8. CASE HandleDeregister
  BY <1>5, <1>8 DEF HandleDeregister
<1>9. CASE HandleUnknown
  BY <1>9 DEF HandleUnknown
<1>10. CASE CheckNodeHealth
  BY <1>10 DEF CheckNodeHealth
<1>11. CASE Tick
  BY <1>11 DEF Tick
<1>12. CASE UNCHANGED vars
  BY <1>12 DEF vars
<1> QED
  BY <1>1, <1>2, <1>3, <1>4, <1>6, <1>7, <1>8, <1>9, <1>10, <1>11, <1>12 DEF Next

\* The list and its entries: each handler writes entries that the lemmas above
\* are about, or leaves them alone.
LEMMA ListStep == Inv /\ [Next]_vars => ListOK' /\ EntriesOK'
<1> SUFFICES ASSUME Inv, [Next]_vars PROVE ListOK' /\ EntriesOK'
  OBVIOUS
<1> USE DEF Inv, ListOK, EntriesOK
<1>1. CASE Start
  <2>1. EntryOK(NewEntry(Self, "master"))
    BY NewEntryOK, SelfAssumption
  <2> QED
    BY <1>1, <2>1 DEF Start
<1>2. CASE Exit
  BY <1>2 DEF Exit, NoNodes
<1>3. CASE SendHeartbeat
  BY <1>3, RefreshedOwnOK DEF SendHeartbeat
<1>4. CASE HandleJoinRequest
  <2>0. Head(batch) \in ClusterMessage
    BY <1>4 DEF HandleJoinRequest, Handling, ControlOK
  <2>1. Head(batch).id \in Node
    BY <1>4, <2>0 DEF ClusterMessage
  <2>2. EntryOK(NewEntry(Head(batch).id, "worker"))
    BY <2>1, NewEntryOK
  <2> QED
    BY <1>4, <2>2 DEF HandleJoinRequest
<1>5. CASE HandleHeartbeat
  BY <1>5, HeardOK DEF HandleHeartbeat
<1>6. CASE HandleDeregister
  BY <1>6 DEF HandleDeregister
<1>7. CASE CheckNodeHealth
  BY <1>7, CheckedOK DEF CheckNodeHealth
<1>8. CASE Tick
  BY <1>8, OlderOK DEF Tick
<1>9. CASE UNCHANGED <<nodes, version>>
  BY <1>9
<1> QED
  BY <1>1, <1>2, <1>3, <1>4, <1>5, <1>6, <1>7, <1>8, <1>9
     DEF Next, PollMessages, HandleUnknown, vars

LEMMA Invariance == Spec => []Inv
<1>1. Inv /\ [Next]_vars => Inv'
  BY ControlStep, ListStep DEF Inv
<1> QED
  BY InitInv, <1>1, PTL DEF Spec

-----------------------------------------------------------------------------
\* The state of the daemon keeps its type: every handler of state.go leaves a
\* well-formed list.
THEOREM TypeCorrect == Spec => []TypeOK
<1>1. Inv => TypeOK
  BY DEF Inv, ControlOK, ListOK, EntriesOK, EntryOK, TypeOK
<1> QED
  BY <1>1, Invariance, PTL

\* No entry is reported stale or offline that was refreshed within the limit
\* (checkNodeHealth, handleHeartbeat, sendHeartbeat); of the node of a second
\* entry, which no heartbeat refreshes, this says nothing.
THEOREM StatusAlwaysJustified == Spec => []StatusJustified
<1>1. Inv => StatusJustified
  BY DEF Inv, EntriesOK, EntryOK, StatusJustified
<1> QED
  BY <1>1, Invariance, PTL

-----------------------------------------------------------------------------
(* Steps. *)

\* An offline entry stays offline until its node is heard or it goes
\* (checkNodeHealth tries the offline limit first; handleHeartbeat resets).
THEOREM OfflineStaysUntilHeard == Spec => OfflineUntilHeard
<1> DEFINE Kept == \A t \in DOMAIN nodes \cap DOMAIN nodes' :
                      nodes[t].status = "offline" /\ nodes'[t].status # "offline"
                        => nodes'[t].status = "active" /\ nodes'[t].age = 0
<1>1. Inv /\ [Next]_vars => Kept
  <2> SUFFICES ASSUME Inv, [Next]_vars,
                      NEW t \in DOMAIN nodes, t \in DOMAIN nodes',
                      nodes[t].status = "offline"
               PROVE  \/ nodes'[t].status = "offline"
                      \/ nodes'[t].status = "active" /\ nodes'[t].age = 0
    OBVIOUS
  <2>1. EntryOK(nodes[t])
    BY DEF Inv, EntriesOK
  <2>2. nodes[t] \in NodeInfo /\ nodes[t].id # Self /\ nodes[t].age > NodeOfflineTimeout
    BY <2>1 DEF EntryOK
  <2>3. CASE Start
    BY <2>3 DEF Start, Inv, StoppedIsEmpty, NoNodes
  <2>4. CASE Exit
    BY <2>4 DEF Exit, NoNodes
  <2>5. CASE SendHeartbeat
    BY <2>2, <2>5 DEF SendHeartbeat
  <2>6. CASE HandleJoinRequest
    BY <2>6 DEF HandleJoinRequest, Inv, ListOK
  <2>7. CASE HandleHeartbeat
    <3>1. CASE nodes'[t] = nodes[t]
      BY <3>1
    <3>2. CASE nodes'[t] = [nodes[t] EXCEPT !.age = 0, !.status = "active"]
      BY <2>2, <3>2 DEF NodeInfo
    <3> QED
      BY <2>7, <3>1, <3>2 DEF HandleHeartbeat
  <2>8. CASE HandleDeregister
    BY <2>8 DEF HandleDeregister
  <2>9. CASE CheckNodeHealth
    BY <2>2, <2>9 DEF CheckNodeHealth, HealthOf, NodeInfo
  <2>10. CASE Tick
    BY <2>2, <2>10 DEF Tick, NodeInfo
  <2>11. CASE UNCHANGED <<nodes, version>>
    BY <2>11
  <2> QED
    BY <2>3, <2>4, <2>5, <2>6, <2>7, <2>8, <2>9, <2>10, <2>11
       DEF Next, PollMessages, HandleUnknown, vars
<1> QED
  BY <1>1, Invariance, PTL DEF Spec, OfflineUntilHeard

\* While the daemon runs, Version grows with every change of the membership
\* and never goes back (handleJoinRequest, handleDeregister).
THEOREM MembershipAlwaysVersioned == Spec => MembershipVersioned
<1> DEFINE Versioned == up /\ up' => /\ version' >= version
                                     /\ Members' # Members => version' > version
<1>1. Inv /\ [Next]_vars => Versioned
  <2> SUFFICES ASSUME Inv, [Next]_vars, up, up'
               PROVE  \/ version' = version /\ Members' = Members
                      \/ version' = version + 1
    BY DEF Inv, ListOK
  <2>1. ASSUME version' = version, DOMAIN nodes' = DOMAIN nodes,
               \A t \in DOMAIN nodes : nodes'[t].id = nodes[t].id
        PROVE  version' = version /\ Members' = Members
    BY <2>1 DEF Members
  <2>2. \A t \in DOMAIN nodes : nodes[t] \in NodeInfo
    BY DEF Inv, EntriesOK, EntryOK
  <2>3. CASE Start \/ Exit
    BY <2>3 DEF Start, Exit
  <2>4. CASE SendHeartbeat
    BY <2>1, <2>2, <2>4 DEF SendHeartbeat, NodeInfo
  <2>5. CASE HandleJoinRequest \/ HandleDeregister
    <3>1. CASE version' = version + 1
      BY <3>1
    <3>2. CASE UNCHANGED <<nodes, version>>
      BY <2>1, <3>2
    <3> QED
      BY <2>5, <3>1, <3>2 DEF HandleJoinRequest, HandleDeregister
  <2>6. CASE HandleHeartbeat
    <3>1. \A t \in DOMAIN nodes :
            [nodes[t] EXCEPT !.age = 0, !.status = "active"].id = nodes[t].id
      BY <2>2 DEF NodeInfo
    <3>2. DOMAIN nodes' = DOMAIN nodes /\ version' = version
      BY <2>6 DEF HandleHeartbeat
    <3>3. ASSUME NEW t \in DOMAIN nodes PROVE nodes'[t].id = nodes[t].id
      <4>1. \/ nodes'[t] = nodes[t]
            \/ nodes'[t] = [nodes[t] EXCEPT !.age = 0, !.status = "active"]
        BY <2>6 DEF HandleHeartbeat
      <4> QED
        BY <3>1, <4>1
    <3> QED
      BY <2>1, <3>2, <3>3
  <2>7. CASE CheckNodeHealth
    BY <2>1, <2>2, <2>7 DEF CheckNodeHealth, NodeInfo
  <2>8. CASE Tick
    BY <2>1, <2>2, <2>8 DEF Tick, NodeInfo
  <2>9. CASE UNCHANGED <<nodes, version>>
    BY <2>1, <2>9
  <2> QED
    BY <2>3, <2>4, <2>5, <2>6, <2>7, <2>8, <2>9
       DEF Next, PollMessages, HandleUnknown, vars
<1> QED
  BY <1>1, Invariance, PTL DEF Spec, MembershipVersioned

-----------------------------------------------------------------------------
(* The list implements a failure detector. *)

\* The tickets of n in a list, and the status its first entry has.
TicketsIn(list, n) == {t \in DOMAIN list : list[t].id = n}
FirstIn(list, n, t) == t \in TicketsIn(list, n) /\ \A s \in TicketsIn(list, n) : t <= s
StatusIn(list, n) ==
    IF TicketsIn(list, n) = {} THEN "absent"
    ELSE list[CHOOSE t \in TicketsIn(list, n) :
                \A s \in TicketsIn(list, list[t].id) : t <= s].status

LEMMA FirstExists ==
    ASSUME NEW list, DOMAIN list \subseteq Nat, NEW n, TicketsIn(list, n) # {}
    PROVE  \E t : FirstIn(list, n, t)
<1>1. TicketsIn(list, n) \subseteq Nat
  BY DEF TicketsIn
<1>2. PICK t \in TicketsIn(list, n) :
         \A s \in TicketsIn(list, n) : ~ (<<s, t>> \in OpToRel(<, Nat))
  BY <1>1, NatLessThanWellFounded, WFMin, Zenon
<1>3. OpToRel(<, Nat) = {ss \in Nat \X Nat : ss[1] < ss[2]}
  BY Zenon DEF OpToRel
<1>4. \A s \in TicketsIn(list, n) : ~ (s < t)
  <2> SUFFICES ASSUME NEW s \in TicketsIn(list, n), s < t PROVE FALSE
    OBVIOUS
  <2>1. <<s, t>> \in {ss \in Nat \X Nat : ss[1] < ss[2]}
    BY <1>1
  <2> QED
    BY <1>2, <1>3, <2>1
<1>5. \A s \in TicketsIn(list, n) : t <= s
  BY <1>1, <1>4
<1> QED
  BY <1>2, <1>5 DEF FirstIn

LEMMA StatusOfFirst ==
    ASSUME NEW list, DOMAIN list \subseteq Nat, NEW n, NEW t, FirstIn(list, n, t)
    PROVE  StatusIn(list, n) = list[t].status
<1> DEFINE c == CHOOSE u \in TicketsIn(list, n) :
                  \A s \in TicketsIn(list, list[u].id) : u <= s
<1>1. \A u \in TicketsIn(list, n) : list[u].id = n
  BY DEF TicketsIn
<1>2. t \in TicketsIn(list, n) /\ \A s \in TicketsIn(list, list[t].id) : t <= s
  BY <1>1 DEF FirstIn
<1>3. c \in TicketsIn(list, n) /\ \A s \in TicketsIn(list, list[c].id) : c <= s
  BY <1>2, Zenon
<1>4. c <= t /\ t <= c
  BY <1>1, <1>2, <1>3
<1>5. c \in Nat /\ t \in Nat
  BY <1>2, <1>3 DEF TicketsIn
<1>6. c = t
  BY <1>4, <1>5
<1> QED
  BY <1>2, <1>6 DEF StatusIn

LEMMA AbsentStatus ==
    ASSUME NEW list, NEW n, TicketsIn(list, n) = {}
    PROVE  StatusIn(list, n) = "absent"
BY DEF StatusIn

\* Two lists with the same tickets for n agree on which entry is n's first.
LEMMA SameFirst ==
    ASSUME NEW list, NEW new, DOMAIN list \subseteq Nat, DOMAIN new \subseteq Nat,
           NEW n, TicketsIn(new, n) = TicketsIn(list, n)
    PROVE  \/ StatusIn(list, n) = "absent" /\ StatusIn(new, n) = "absent"
           \/ \E t : /\ FirstIn(list, n, t)
                     /\ StatusIn(list, n) = list[t].status
                     /\ StatusIn(new, n) = new[t].status
<1>1. CASE TicketsIn(list, n) = {}
  BY <1>1, AbsentStatus
<1>2. CASE TicketsIn(list, n) # {}
  <2>1. PICK t : FirstIn(list, n, t)
    BY <1>2, FirstExists
  <2>2. FirstIn(new, n, t)
    BY <2>1 DEF FirstIn
  <2> QED
    BY <2>1, <2>2, StatusOfFirst
<1> QED
  BY <1>1, <1>2

\* The view of the list that the failure detector has.
View == [n \in Node |-> StatusOf(n)]

LEMMA ViewIsStatusIn ==
    /\ View = [n \in Node |-> StatusIn(nodes, n)]
    /\ View' = [n \in Node |-> StatusIn(nodes', n)]
<1>1. \A n : StatusOf(n) = StatusIn(nodes, n)
  BY Zenon DEF StatusOf, StatusIn, Tickets, TicketsIn, IsFirst
<1>2. \A n : StatusOf(n)' = StatusIn(nodes', n)
  BY Zenon DEF StatusOf, StatusIn, Tickets, TicketsIn, IsFirst
<1> QED
  BY <1>1, <1>2 DEF View

\* A step that keeps the tickets of every node, and the status of each entry,
\* is invisible.
LEMMA Invisible ==
    ASSUME Inv, Inv', \A n \in Node : TicketsIn(nodes', n) = TicketsIn(nodes, n),
           \A t \in DOMAIN nodes : nodes'[t].status = nodes[t].status
    PROVE  View' = View
<1>1. DOMAIN nodes \subseteq Nat /\ DOMAIN nodes' \subseteq Nat
  BY DEF Inv, ListOK
<1>2. ASSUME NEW n \in Node PROVE StatusIn(nodes', n) = StatusIn(nodes, n)
  BY <1>1, SameFirst DEF FirstIn, TicketsIn
<1> QED
  BY <1>2, ViewIsStatusIn

\* Entries keep their tickets when only ages and statuses change.
LEMMA SameTickets ==
    ASSUME DOMAIN nodes' = DOMAIN nodes,
           \A t \in DOMAIN nodes : nodes'[t].id = nodes[t].id
    PROVE  \A n : TicketsIn(nodes', n) = TicketsIn(nodes, n)
BY DEF TicketsIn

LEMMA ViewAt ==
    \A n \in Node : View[n] = StatusIn(nodes, n) /\ View'[n] = StatusIn(nodes', n)
BY ViewIsStatusIn

LEMMA HeadIsMessage == Inv /\ batch # <<>> => Head(batch).id \in Node
<1> SUFFICES ASSUME Inv, batch # <<>> PROVE Head(batch).id \in Node
  OBVIOUS
<1>1. Head(batch) \in ClusterMessage
  BY DEF Inv, ControlOK
<1> QED
  BY <1>1 DEF ClusterMessage

\* A daemon that does not run shows no node.
LEMMA StoppedView == Inv /\ ~up => View = [n \in Node |-> "absent"]
<1> SUFFICES ASSUME Inv, ~up PROVE View = [n \in Node |-> "absent"]
  OBVIOUS
<1>1. DOMAIN nodes = {}
  BY DEF Inv, StoppedIsEmpty, NoNodes
<1>2. \A n \in Node : StatusIn(nodes, n) = "absent"
  BY <1>1, AbsentStatus DEF TicketsIn
<1> QED
  BY <1>2, ViewIsStatusIn

LEMMA StartBegins == Inv /\ Inv' /\ Start => FD!Begin
<1> SUFFICES ASSUME Inv, Inv', Start PROVE FD!Begin
  OBVIOUS
<1>1. ~up /\ up'
  BY DEF Start, Inv, ControlOK
<1>2. View = [n \in Node |-> "absent"]
  BY <1>1, StoppedView
<1>3. CASE Role = "master"
  <2>1. nodes' = [t \in {1} |-> NewEntry(Self, "master")]
    BY <1>3 DEF Start
  <2>2. FirstIn(nodes', Self, 1) /\ nodes'[1].status = "active"
    BY <2>1 DEF FirstIn, TicketsIn, NewEntry
  <2>3. StatusIn(nodes', Self) = "active"
    BY <2>1, <2>2, StatusOfFirst
  <2>4. ASSUME NEW n \in Node, n # Self PROVE StatusIn(nodes', n) = "absent"
    BY <2>1, <2>4, AbsentStatus DEF TicketsIn, NewEntry
  <2>5. View' = [View EXCEPT ![Self] = "active"]
    BY <1>2, <2>3, <2>4, ViewIsStatusIn
  <2> QED
    BY <1>1, <2>5 DEF FD!Begin, View
<1>4. CASE Role # "master"
  <2>1. nodes' = nodes
    BY <1>4 DEF Start
  <2>2. View' = View
    BY <2>1, ViewIsStatusIn
  <2> QED
    BY <1>1, <2>2 DEF FD!Begin, View
<1> QED
  BY <1>3, <1>4

LEMMA ExitEnds == Exit => FD!End
<1> SUFFICES ASSUME Exit PROVE FD!End
  OBVIOUS
<1>1. nodes' = NoNodes /\ up /\ ~up'
  BY DEF Exit
<1>2. DOMAIN nodes' = {}
  BY <1>1 DEF NoNodes
<1>3. \A n \in Node : StatusIn(nodes', n) = "absent"
  BY <1>2, AbsentStatus DEF TicketsIn
<1>4. View' = [n \in Node |-> "absent"]
  BY <1>3, ViewIsStatusIn
<1>5. up' = FALSE
  BY DEF Exit
<1> QED
  BY <1>1, <1>4, <1>5 DEF FD!End, View

\* A join shows if the node had no entry; an entry it has stays the first.
LEMMA JoinJoins ==
    Inv /\ Inv' /\ HandleJoinRequest
      => FD!Join(Head(batch).id) \/ (View' = View /\ up' = up)
<1> DEFINE m == Head(batch).id
           new == version + 1
<1> SUFFICES ASSUME Inv, Inv', HandleJoinRequest
             PROVE  FD!Join(m) \/ (View' = View /\ up' = up)
  OBVIOUS
<1>1. up /\ up' = up
  BY DEF HandleJoinRequest, Handling
<1>2. CASE UNCHANGED nodes
  BY <1>1, <1>2, ViewIsStatusIn
<1>3. CASE nodes' = [t \in DOMAIN nodes \cup {new} |->
                       IF t = new THEN NewEntry(m, "worker") ELSE nodes[t]]
  <2>1. version \in Nat /\ DOMAIN nodes \subseteq Nat /\ DOMAIN nodes' \subseteq Nat
    BY DEF Inv, ListOK
  <2>2. new \notin DOMAIN nodes /\ \A t \in DOMAIN nodes : t <= new
    BY DEF Inv, ListOK
  <2>3. nodes'[new] = NewEntry(m, "worker")
    BY <1>3
  <2>4. \A t \in DOMAIN nodes : nodes'[t] = nodes[t]
    BY <1>3, <2>2
  <2>5. TicketsIn(nodes', m) = TicketsIn(nodes, m) \cup {new}
    BY <1>3, <2>3, <2>4 DEF TicketsIn, NewEntry
  <2>6. \A n \in Node : n # m => TicketsIn(nodes', n) = TicketsIn(nodes, n)
    BY <1>3, <2>3, <2>4 DEF TicketsIn, NewEntry
  <2>7. ASSUME NEW n \in Node, n # m PROVE View'[n] = View[n]
    BY <2>1, <2>4, <2>6, <2>7, SameFirst, ViewAt DEF FirstIn, TicketsIn
  <2>8. m \in Node
    BY HeadIsMessage DEF HandleJoinRequest, Handling
  <2>9. CASE TicketsIn(nodes, m) = {}
    <3>1. FirstIn(nodes', m, new)
      BY <2>1, <2>5, <2>9 DEF FirstIn
    <3>2. StatusIn(nodes', m) = "active"
      BY <2>1, <2>3, <3>1, StatusOfFirst DEF NewEntry
    <3>3. View[m] = "absent" /\ View'[m] = "active"
      BY <2>8, <2>9, <3>2, AbsentStatus, ViewAt
    <3>4. View' = [View EXCEPT ![m] = "active"]
      BY <2>7, <3>3, ViewIsStatusIn
    <3> QED
      BY <1>1, <3>3, <3>4 DEF FD!Join, View
  <2>10. CASE TicketsIn(nodes, m) # {}
    <3>1. PICK t : FirstIn(nodes, m, t)
      BY <2>1, <2>10, FirstExists
    <3>2. t \in DOMAIN nodes /\ FirstIn(nodes', m, t)
      BY <2>2, <2>5, <3>1 DEF FirstIn, TicketsIn
    <3>3. StatusIn(nodes', m) = StatusIn(nodes, m)
      BY <2>1, <2>4, <3>1, <3>2, StatusOfFirst
    <3>4. View'[m] = View[m]
      BY <2>8, <3>3, ViewAt
    <3>5. View' = View
      BY <2>7, <3>4, ViewIsStatusIn
    <3> QED
      BY <1>1, <3>5
  <2> QED
    BY <2>9, <2>10
<1> QED
  BY <1>2, <1>3 DEF HandleJoinRequest

LEMMA HeartbeatHears ==
    Inv /\ Inv' /\ HandleHeartbeat
      => FD!Hear(Head(batch).id) \/ (View' = View /\ up' = up)
<1> DEFINE m == Head(batch).id
           heard(e) == [e EXCEPT !.age = 0, !.status = "active"]
<1> SUFFICES ASSUME Inv, Inv', HandleHeartbeat
             PROVE  FD!Hear(m) \/ (View' = View /\ up' = up)
  OBVIOUS
<1>1. up /\ up' = up
  BY DEF HandleHeartbeat, Handling
<1>2. DOMAIN nodes \subseteq Nat /\ DOMAIN nodes' \subseteq Nat
  BY DEF Inv, ListOK
<1>3. \A t \in DOMAIN nodes : nodes[t] \in NodeInfo
  BY DEF Inv, EntriesOK, EntryOK
<1>4. \A t \in DOMAIN nodes : heard(nodes[t]).id = nodes[t].id
                              /\ heard(nodes[t]).status = "active"
  BY <1>3 DEF NodeInfo
<1>5. DOMAIN nodes' = DOMAIN nodes
  BY DEF HandleHeartbeat
<1>6. \A t \in DOMAIN nodes :
        nodes'[t] = IF nodes[t].id = m /\ IsFirst(t) THEN heard(nodes[t]) ELSE nodes[t]
  BY DEF HandleHeartbeat
<1> HIDE DEF heard
<1>7. \A t \in DOMAIN nodes : nodes'[t].id = nodes[t].id
  BY <1>4, <1>6
<1>8. \A n : TicketsIn(nodes', n) = TicketsIn(nodes, n)
  BY <1>5, <1>7, SameTickets
<1>9. ASSUME NEW n \in Node, n # m PROVE View'[n] = View[n]
  <2>1. \A t \in TicketsIn(nodes, n) : nodes'[t] = nodes[t]
    BY <1>6, <1>9 DEF TicketsIn
  <2> QED
    BY <1>2, <1>8, <2>1, SameFirst, ViewAt DEF FirstIn
<1>10. m \in Node
  BY HeadIsMessage DEF HandleHeartbeat, Handling
<1>11. CASE TicketsIn(nodes, m) = {}
  <2>1. View'[m] = View[m]
    BY <1>8, <1>10, <1>11, AbsentStatus, ViewAt
  <2>2. View' = View
    BY <1>9, <2>1, ViewIsStatusIn
  <2> QED
    BY <1>1, <2>2
<1>12. CASE TicketsIn(nodes, m) # {}
  <2>1. PICK t : FirstIn(nodes, m, t)
    BY <1>2, <1>12, FirstExists
  <2>2. t \in DOMAIN nodes /\ nodes[t].id = m /\ IsFirst(t)
    BY <2>1 DEF FirstIn, TicketsIn, IsFirst, Tickets
  <2>3. FirstIn(nodes', m, t) /\ nodes'[t].status = "active"
    BY <1>4, <1>6, <1>8, <2>1, <2>2 DEF FirstIn
  <2>4. View'[m] = "active"
    BY <1>2, <1>10, <2>3, StatusOfFirst, ViewAt
  <2>5. nodes[t].status \in Status
    BY <1>3, <2>2 DEF NodeInfo
  <2>6. View[m] = nodes[t].status
    BY <1>2, <1>10, <2>1, StatusOfFirst, ViewAt
  <2>7. View[m] # "absent"
    BY <2>5, <2>6 DEF Status
  <2>8. View' = [View EXCEPT ![m] = "active"]
    BY <1>9, <2>4, ViewIsStatusIn
  <2> QED
    BY <1>1, <2>7, <2>8 DEF FD!Hear, View
<1> QED
  BY <1>11, <1>12

LEMMA DeregisterLeaves ==
    Inv /\ Inv' /\ HandleDeregister
      => \/ \E n \in Node : FD!Leave(n)
         \/ (View' = View /\ up' = up)
<1> DEFINE m == Head(batch).id
<1> SUFFICES ASSUME Inv, Inv', HandleDeregister
             PROVE  (FD!Leave(m) /\ m \in Node) \/ (View' = View /\ up' = up)
  OBVIOUS
<1>1. up /\ up' = up
  BY DEF HandleDeregister, Handling
<1>2. CASE UNCHANGED nodes
  BY <1>1, <1>2, ViewIsStatusIn
<1>3. CASE nodes' = [t \in DOMAIN nodes \ Tickets(m) |-> nodes[t]]
  <2>1. DOMAIN nodes \subseteq Nat /\ DOMAIN nodes' \subseteq Nat
    BY DEF Inv, ListOK
  <2>2. TicketsIn(nodes', m) = {}
    BY <1>3 DEF TicketsIn, Tickets
  <2>3. \A n : n # m => TicketsIn(nodes', n) = TicketsIn(nodes, n)
    BY <1>3 DEF TicketsIn, Tickets
  <2>4. \A t \in DOMAIN nodes' : nodes'[t] = nodes[t]
    BY <1>3
  <2>5. ASSUME NEW n \in Node, n # m PROVE View'[n] = View[n]
    <3>1. TicketsIn(nodes', n) = TicketsIn(nodes, n)
      BY <2>3, <2>5
    <3>2. \A t : FirstIn(nodes, n, t) => nodes'[t] = nodes[t]
      BY <2>4, <3>1 DEF FirstIn, TicketsIn
    <3>3. StatusIn(nodes', n) = StatusIn(nodes, n)
      BY <2>1, <3>1, <3>2, SameFirst
    <3> QED
      BY <3>3, ViewAt
  <2>6. m \in Node
    BY HeadIsMessage DEF HandleDeregister, Handling
  <2>7. View'[m] = "absent"
    BY <2>2, <2>6, AbsentStatus, ViewAt
  <2>8. View' = [View EXCEPT ![m] = "absent"]
    BY <2>5, <2>7, ViewIsStatusIn
  <2> QED
    BY <1>1, <2>6, <2>8 DEF FD!Leave, View
<1> QED
  BY <1>2, <1>3 DEF HandleDeregister

\* The health check only deepens silence: this is where Inv is needed, for an
\* offline entry that the check looks at again.
LEMMA CheckSuspects == Inv /\ Inv' /\ CheckNodeHealth => FD!Suspect
<1> SUFFICES ASSUME Inv, Inv', CheckNodeHealth PROVE FD!Suspect
  OBVIOUS
<1>1. up /\ up' = up
  BY DEF CheckNodeHealth
<1>2. DOMAIN nodes \subseteq Nat /\ DOMAIN nodes' \subseteq Nat
  BY DEF Inv, ListOK
<1>3. \A t \in DOMAIN nodes : EntryOK(nodes[t])
  BY DEF Inv, EntriesOK
<1>4. DOMAIN nodes' = DOMAIN nodes
  BY DEF CheckNodeHealth
<1>5. ASSUME NEW t \in DOMAIN nodes
      PROVE  nodes'[t].id = nodes[t].id /\ nodes'[t].status = HealthOf(nodes[t])
  BY <1>3 DEF CheckNodeHealth, EntryOK, NodeInfo
<1>6. \A n : TicketsIn(nodes', n) = TicketsIn(nodes, n)
  BY <1>4, <1>5, SameTickets
<1>7. ASSUME NEW n \in Node
      PROVE  /\ View'[n] \in FD!Health
             /\ \/ View'[n] = View[n]
                \/ /\ n # Self
                   /\ \/ View[n] = "active" /\ View'[n] \in FD!Silence
                      \/ View[n] = "stale" /\ View'[n] = "offline"
  <2>1. CASE View[n] = "absent" /\ View'[n] = "absent"
    BY <2>1 DEF FD!Health
  <2>2. ASSUME NEW t, FirstIn(nodes, n, t),
               View[n] = nodes[t].status, View'[n] = nodes'[t].status
        PROVE  /\ View'[n] \in FD!Health
               /\ \/ View'[n] = View[n]
                  \/ /\ n # Self
                     /\ \/ View[n] = "active" /\ View'[n] \in FD!Silence
                        \/ View[n] = "stale" /\ View'[n] = "offline"
    <3>1. t \in DOMAIN nodes /\ nodes[t].id = n
      BY <2>2 DEF FirstIn, TicketsIn
    <3>2. View'[n] = HealthOf(nodes[t]) /\ EntryOK(nodes[t])
      BY <1>3, <1>5, <2>2, <3>1
    <3> QED
      BY <2>2, <3>1, <3>2 DEF HealthOf, EntryOK, NodeInfo, Status, FD!Health, FD!Silence
  <2> QED
    BY <1>2, <1>6, <2>1, <2>2, SameFirst, ViewAt
<1>8. View' \in [Node -> FD!Health]
  BY <1>7, ViewIsStatusIn
<1> QED
  BY <1>1, <1>7, <1>8 DEF FD!Suspect, View

\* Every step of the daemon is a step of the failure detector, or shows nothing.
LEMMA StepMaps == Inv /\ Inv' /\ [Next]_vars => [FD!Next]_(FD!vars)
<1> SUFFICES ASSUME Inv, Inv', [Next]_vars PROVE FD!Next \/ UNCHANGED FD!vars
  OBVIOUS
<1>1. ASSUME View' = View, up' = up PROVE UNCHANGED FD!vars
  BY <1>1 DEF FD!vars, View
<1>2. DOMAIN nodes \subseteq Nat /\ \A t \in DOMAIN nodes : nodes[t] \in NodeInfo
  BY DEF Inv, ListOK, EntriesOK, EntryOK
<1>3. ASSUME up' = up, DOMAIN nodes' = DOMAIN nodes,
             \A t \in DOMAIN nodes : /\ nodes'[t].id = nodes[t].id
                                     /\ nodes'[t].status = nodes[t].status
      PROVE  UNCHANGED FD!vars
  BY <1>1, <1>3, Invisible, SameTickets
<1>4. CASE Start
  BY <1>4, StartBegins DEF FD!Next
<1>5. CASE Exit
  BY <1>5, ExitEnds DEF FD!Next
<1>6. CASE SendHeartbeat
  BY <1>2, <1>3, <1>6 DEF SendHeartbeat, NodeInfo
<1>7. CASE HandleJoinRequest
  <2>1. Head(batch).id \in Node
    BY <1>7, HeadIsMessage DEF HandleJoinRequest, Handling
  <2> QED
    BY <1>1, <1>7, <2>1, JoinJoins DEF FD!Next
<1>8. CASE HandleHeartbeat
  <2>1. Head(batch).id \in Node
    BY <1>8, HeadIsMessage DEF HandleHeartbeat, Handling
  <2> QED
    BY <1>1, <1>8, <2>1, HeartbeatHears DEF FD!Next
<1>9. CASE HandleDeregister
  BY <1>1, <1>9, DeregisterLeaves DEF FD!Next
<1>10. CASE CheckNodeHealth
  BY <1>10, CheckSuspects DEF FD!Next
<1>11. CASE Tick
  BY <1>2, <1>3, <1>11 DEF Tick, NodeInfo
<1>12. CASE UNCHANGED <<up, nodes>>
  BY <1>3, <1>12
<1> QED
  BY <1>4, <1>5, <1>6, <1>7, <1>8, <1>9, <1>10, <1>11, <1>12
     DEF Next, PollMessages, HandleUnknown, vars

\* Whatever messages are lost, late, repeated or reordered, and however often
\* the daemon restarts, the node list looked up the way state.go does it
\* behaves as a failure detector.
THEOREM FailureDetectorImplemented == Spec => ImplementsFailureDetector
<1>1. Init => FD!Init
  <2> SUFFICES ASSUME Init PROVE FD!Init
    OBVIOUS
  <2>1. ~up
    BY DEF Init
  <2>2. View = [n \in Node |-> "absent"]
    BY <2>1, InitInv, StoppedView
  <2>3. up = FALSE
    BY DEF Init
  <2> QED
    BY <2>2, <2>3 DEF FD!Init, View
<1> QED
  BY <1>1, Invariance, StepMaps, PTL DEF Spec, ImplementsFailureDetector, FD!Spec
=============================================================================
