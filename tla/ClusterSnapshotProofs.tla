----------------------- MODULE ClusterSnapshotProofs ------------------------
(***************************************************************************)
(* Machine-checked theorems about ClusterSnapshot, for any clients, nodes  *)
(* and bounds.                                                             *)
(***************************************************************************)
EXTENDS ClusterSnapshot, TLAPS

Done == {c \in Client : calls[c].pc = "done"}

(* A copy that is complete is no newer than the state, and the copy of the *)
(* present Version is the copy of the present list.                        *)
DoneInv ==
    \A c \in Done :
        /\ calls[c].version <= version
        /\ calls[c].version = version => calls[c].members = members

\* The bound on heartbeats is tested where one begins.
BeatInv == beating = "locked" => own["beat"] < MaxBeats

Inv == TypeOK /\ BeatInv /\ CopyIsCurrent /\ DoneInv /\ VersionIdentifiesMembers

-----------------------------------------------------------------------------
(* A list of calls with one replaced. *)

LEMMA Replaced ==
    ASSUME NEW s \in [Client -> Copy], NEW c \in Client, NEW r \in Copy
    PROVE  /\ [s EXCEPT ![c] = r] \in [Client -> Copy]
           /\ [s EXCEPT ![c] = r][c] = r
           /\ \A d \in Client \ {c} : [s EXCEPT ![c] = r][d] = s[d]
<1> HIDE DEF Copy
<1> QED OBVIOUS

LEMMA CopyFields ==
    ASSUME NEW r \in Copy
    PROVE  /\ r.pc \in {"idle", "header", "half", "done"}
           /\ r.version \in 0..MaxVersion /\ r.members \subseteq Member
           /\ r.own \in [Fields -> 0..MaxBeats] /\ r.read \subseteq Fields
BY DEF Copy

LEMMA IsCopy ==
    ASSUME NEW pc \in {"idle", "header", "half", "done"}, NEW v \in 0..MaxVersion,
           NEW ms \in SUBSET Member, NEW o \in [Fields -> 0..MaxBeats],
           NEW read \in SUBSET Fields
    PROVE  [pc |-> pc, version |-> v, members |-> ms, own |-> o, read |-> read] \in Copy
BY DEF Copy

LEMMA NothingCopied == NoCopy \in Copy /\ NoCopy.pc = "idle" /\ NoCopy.own \in [Fields -> 0..MaxBeats]
BY BoundsAssumption DEF NoCopy, Copy

-----------------------------------------------------------------------------

LEMMA InitInv == Init => Inv
<1> SUFFICES ASSUME Init PROVE Inv
  OBVIOUS
<1>1. TypeOK
  BY NothingCopied, BoundsAssumption DEF Init, TypeOK
<1>2. \A c \in Client : calls[c].pc = "idle"
  BY NothingCopied DEF Init
<1>3. BeatInv
  BY DEF Init, BeatInv
<1> QED
  BY <1>1, <1>2, <1>3 DEF Inv, CopyIsCurrent, Copying, DoneInv, Done, VersionIdentifiesMembers

\* The heartbeat writes what no other part of the invariant is about.
LEMMA HeartbeatStep ==
    ASSUME Inv, HeartbeatLock \/ HeartbeatStamp \/ HeartbeatMetrics
    PROVE  Inv'
<1>1. UNCHANGED <<version, members, calls>> /\ beating' \in {"idle", "locked", "stamped"}
  BY DEF HeartbeatLock, HeartbeatStamp, HeartbeatMetrics
<1>2. own' \in [Fields -> 0..MaxBeats] /\ BeatInv'
  <2>1. CASE HeartbeatLock
    BY <2>1 DEF HeartbeatLock, Inv, TypeOK, BeatInv
  <2>2. CASE HeartbeatStamp
    <3>1. own["beat"] \in 0..MaxBeats /\ own["beat"] < MaxBeats
      BY <2>2 DEF HeartbeatStamp, Inv, TypeOK, BeatInv, Fields
    <3>2. own["beat"] + 1 \in 0..MaxBeats
      BY <3>1, BoundsAssumption
    <3>3. own' = [own EXCEPT !["beat"] = own["beat"] + 1] /\ beating' = "stamped"
      BY <2>2 DEF HeartbeatStamp
    <3> QED BY <3>2, <3>3 DEF Inv, TypeOK, BeatInv
  <2>3. CASE HeartbeatMetrics
    BY <2>3 DEF HeartbeatMetrics, Inv, TypeOK, BeatInv, Fields
  <2> QED BY <2>1, <2>2, <2>3
<1>3. TypeOK'
  BY <1>1, <1>2 DEF Inv, TypeOK
<1>4. CopyIsCurrent' /\ DoneInv' /\ VersionIdentifiesMembers'
  BY <1>1 DEF Inv, CopyIsCurrent, Copying, DoneInv, Done, VersionIdentifiesMembers
<1> QED BY <1>2, <1>3, <1>4 DEF Inv

\* Nobody is copying, and every complete copy is older than the new list.
LEMMA MembershipStep ==
    ASSUME Inv, NEW m \in Member, HandleMembership(m)
    PROVE  Inv'
<1>1. UNCHANGED <<own, beating, calls>> /\ Copying = {}
  BY DEF HandleMembership, WriteLockFree
<1>2. version \in 1..MaxVersion /\ version < MaxVersion /\ version' = version + 1
  BY DEF HandleMembership, Inv, TypeOK
<1>3. version' \in 1..MaxVersion
  BY <1>2, BoundsAssumption
<1>4. members' \subseteq Member
  BY DEF HandleMembership, Inv, TypeOK
<1>5. TypeOK' /\ BeatInv' /\ CopyIsCurrent' /\ VersionIdentifiesMembers'
  BY <1>1, <1>3, <1>4 DEF Inv, TypeOK, BeatInv, CopyIsCurrent, Copying, VersionIdentifiesMembers
<1>6. \A c \in Done : calls[c].version \in 0..MaxVersion /\ calls[c].version <= version
  <2>1. TAKE c \in Done
  <2>2. calls[c] \in Copy
    BY DEF Inv, TypeOK, Done
  <2> QED BY <2>2, CopyFields DEF Inv, DoneInv
<1>7. DoneInv'
  <2>1. Done' = Done
    BY <1>1 DEF Done
  <2>2. SUFFICES ASSUME NEW c \in Done
                 PROVE  calls[c].version <= version' /\ calls[c].version # version'
    BY <1>1, <2>1 DEF DoneInv
  <2> QED BY <1>2, <1>6, BoundsAssumption
<1> QED BY <1>5, <1>7 DEF Inv

\* Calls that begin or go on: the state stays as it is.
LEMMA HeaderStep ==
    ASSUME Inv, NEW c \in Client, CopyHeader(c)
    PROVE  Inv'
<1> DEFINE r == [pc |-> "header", version |-> version, members |-> {},
                 own |-> NoCopy.own, read |-> {}]
<1>1. UNCHANGED <<version, members, own, beating>> /\ calls' = [calls EXCEPT ![c] = r]
  BY DEF CopyHeader
<1>2. r \in Copy
  <2>1. version \in 0..MaxVersion
    BY BoundsAssumption DEF Inv, TypeOK
  <2> QED BY <2>1, NothingCopied, IsCopy
<1>3. r.pc = "header" /\ r.version = version
  OBVIOUS
<1> HIDE DEF r
<1>4. calls \in [Client -> Copy]
  BY DEF Inv, TypeOK
<1>5. /\ calls' \in [Client -> Copy] /\ calls'[c] = r
      /\ \A d \in Client \ {c} : calls'[d] = calls[d]
  BY <1>1, <1>2, <1>4, Replaced
<1>6. TypeOK' /\ BeatInv'
  BY <1>1, <1>5 DEF Inv, TypeOK, BeatInv
<1>7. CopyIsCurrent'
  BY <1>1, <1>3, <1>5 DEF Inv, CopyIsCurrent, Copying
<1>8. c \notin Done' /\ Done' \subseteq Done
  BY <1>3, <1>5 DEF Done
<1>9. DoneInv'
  BY <1>1, <1>5, <1>8 DEF Inv, DoneInv, Done
<1>10. VersionIdentifiesMembers'
  BY <1>3, <1>5 DEF Inv, VersionIdentifiesMembers
<1> QED BY <1>6, <1>7, <1>9, <1>10 DEF Inv

LEMMA FieldStep ==
    ASSUME Inv, NEW c \in Client, NEW f \in Fields, CopyField(c, f)
    PROVE  Inv'
<1> DEFINE last == calls[c].pc = "half"
           r == [pc |-> IF last THEN "done" ELSE "half",
                 version |-> calls[c].version,
                 members |-> IF last THEN members ELSE calls[c].members,
                 own |-> [calls[c].own EXCEPT ![f] = own[f]],
                 read |-> calls[c].read \cup {f}]
<1>1. UNCHANGED <<version, members, own, beating>> /\ calls' = [calls EXCEPT ![c] = r]
  BY DEF CopyField
<1>2. calls \in [Client -> Copy] /\ members \subseteq Member /\ own \in [Fields -> 0..MaxBeats]
  BY DEF Inv, TypeOK
<1>3. r \in Copy
  <2>1. /\ calls[c].version \in 0..MaxVersion /\ calls[c].members \subseteq Member
        /\ calls[c].own \in [Fields -> 0..MaxBeats] /\ calls[c].read \subseteq Fields
    BY <1>2, CopyFields
  <2>2. [calls[c].own EXCEPT ![f] = own[f]] \in [Fields -> 0..MaxBeats]
    BY <2>1, <1>2
  <2>3. (IF last THEN members ELSE calls[c].members) \subseteq Member
    BY <2>1, <1>2
  <2> QED BY <2>1, <2>2, <2>3, IsCopy
<1>4. calls[c].version = version
  BY DEF CopyField, Inv, CopyIsCurrent, Copying
<1>5. /\ r.pc \in {"half", "done"} /\ r.version = version
      /\ r.pc = "done" => r.members = members
  BY <1>4
<1> HIDE DEF r
<1>6. /\ calls' \in [Client -> Copy] /\ calls'[c] = r
      /\ \A d \in Client \ {c} : calls'[d] = calls[d]
  BY <1>1, <1>2, <1>3, Replaced
<1>7. TypeOK' /\ BeatInv'
  BY <1>1, <1>6 DEF Inv, TypeOK, BeatInv
<1>8. CopyIsCurrent'
  BY <1>1, <1>5, <1>6 DEF Inv, CopyIsCurrent, Copying
<1>9. DoneInv'
  <2>1. SUFFICES ASSUME NEW d \in Done'
                 PROVE  /\ calls'[d].version <= version
                        /\ calls'[d].version = version => calls'[d].members = members
    BY <1>1 DEF DoneInv
  <2>2. CASE d = c
    BY <2>2, <1>5, <1>6 DEF Done, Inv, TypeOK
  <2>3. CASE d # c
    BY <2>3, <1>6 DEF Done, Inv, DoneInv
  <2> QED BY <2>2, <2>3
<1>10. VersionIdentifiesMembers'
  \* Complete copies of the present Version hold the present list.
  <2>1. SUFFICES ASSUME NEW d \in Client, NEW e \in Client,
                        calls'[d].pc = "done", calls'[e].pc = "done",
                        calls'[d].version = calls'[e].version
                 PROVE  calls'[d].members = calls'[e].members
    BY DEF VersionIdentifiesMembers
  <2>2. CASE d = c \/ e = c
    <3>1. calls'[d].version = version /\ calls'[e].version = version
      BY <2>1, <2>2, <1>5, <1>6
    <3>2. d \in Done' /\ e \in Done'
      BY <2>1 DEF Done
    <3> QED BY <3>1, <3>2, <1>1, <1>9 DEF DoneInv
  <2>3. CASE d # c /\ e # c
    BY <2>1, <2>3, <1>6 DEF Inv, VersionIdentifiesMembers
  <2> QED BY <2>2, <2>3
<1> QED BY <1>7, <1>8, <1>9, <1>10 DEF Inv

LEMMA StepInv == Inv /\ [Next]_vars => Inv'
<1> SUFFICES ASSUME Inv, [Next]_vars PROVE Inv'
  OBVIOUS
<1>1. CASE HeartbeatLock \/ HeartbeatStamp \/ HeartbeatMetrics
  BY <1>1, HeartbeatStep
<1>2. CASE \E m \in Member : HandleMembership(m)
  BY <1>2, MembershipStep
<1>3. CASE \E c \in Client : CopyHeader(c)
  BY <1>3, HeaderStep
<1>4. CASE \E c \in Client, f \in Fields : CopyField(c, f)
  BY <1>4, FieldStep
<1>5. CASE UNCHANGED vars
  BY <1>5 DEF vars, Inv, TypeOK, BeatInv, CopyIsCurrent, Copying, DoneInv, Done,
              VersionIdentifiesMembers
<1> QED
  BY <1>1, <1>2, <1>3, <1>4, <1>5 DEF Next

THEOREM Invariant == Spec => []Inv
BY InitInv, StepInv, PTL DEF Spec

-----------------------------------------------------------------------------
(* Counters, copies and the daemon's entry stay in range: the types of     *)
(* cluster/state.go.                                                       *)
THEOREM TypeCorrect == Spec => []TypeOK
<1>1. Inv => TypeOK
  BY DEF Inv
<1> QED
  BY <1>1, Invariant, PTL

(* For any number of API clients: equal Versions, equal lists of nodes     *)
(* (GetState and the message handlers of cluster/state.go).                *)
THEOREM VersionAlwaysIdentifies == Spec => []VersionIdentifiesMembers
<1>1. Inv => VersionIdentifiesMembers
  BY DEF Inv
<1> QED
  BY <1>1, Invariant, PTL
=============================================================================
