----------------------------- MODULE Provenance -----------------------------
(***************************************************************************)
(* What the node can show of its past and its state: the chain of RMPE-2   *)
(* events (backend/provenance_store.py), Merkle proofs of the network      *)
(* state and the requests for missing blocks built on them                 *)
(* (backend/rmp.py, their routes in backend/routes/minima.py).             *)
(*                                                                         *)
(* A SHA-256 hash is the tuple of what was hashed, so that it is as good   *)
(* as injective; that of an event, which hashes the event before it and    *)
(* the time, is the event's number.  A state is the sequence of its        *)
(* flattened leaves, pairs of path and value; a path may occur twice, as   *)
(* that of a key with a dot in it does.                                    *)
(***************************************************************************)
EXTENDS Integers, Sequences, FiniteSets, Functions

CONSTANTS
    MAX_EVENTS,         \* MAX_PROVENANCE_EVENTS
    MaxEventsRecorded,  \* bound: events ever recorded
    States,             \* flattened states a node may be in
    MAX_BLOCK_REQUEST,  \* MAX_RNPE_BLOCK_REQUEST
    MaxHeight,          \* bound: blocks of the chain
    PeerHeights         \* heights a client may name

ASSUME ProvenanceAssumption ==
    /\ MAX_EVENTS \in Nat \ {0}
    /\ MaxEventsRecorded \in Nat
    /\ MAX_BLOCK_REQUEST \in Nat \ {0}
    /\ MaxHeight \in Nat
    /\ PeerHeights \subseteq Int
    /\ \A state \in States : state \in Seq(Range(state))

VARIABLES
    events,    \* _provenance_events
    recorded,  \* events recorded so far
    leaves,    \* the state of this node
    other,     \* the state the peer had when it built its proof
    received,  \* the proof that came from the peer, or <<>>
    garbled,   \* it is not the one the peer built
    height,    \* of the chain of this node
    read,      \* the height a request under way has read, or -1
    request    \* the last request for blocks, or <<>>

eventVars == <<events, recorded>>
proofOfStateVars == <<leaves, other, received, garbled>>
blockVars == <<height, read, request>>
provenanceVars == <<eventVars, proofOfStateVars, blockVars>>

-----------------------------------------------------------------------------
(* The chain of events. *)

Last(s) == s[Len(s)]

\* At most the last n.
LastOf(s, n) == IF Len(s) > n THEN SubSeq(s, Len(s) - n + 1, Len(s)) ELSE s

\* Mutation: when the store is full the new event is the one that is dropped.
RecordEventDropped ==
    /\ recorded < MaxEventsRecorded
    /\ recorded' = recorded + 1
    /\ LET previous == IF events = <<>> THEN 0 ELSE Last(events).rmpeHash
           longer == Append(events, [rmpeHash |-> recorded', previousHash |-> previous])
       IN  events' = SubSeq(longer, 1, IF Len(longer) > MAX_EVENTS THEN MAX_EVENTS
                                       ELSE Len(longer))

\* A body that is not valid raises before anything is changed.  The first event
\* of the process has no predecessor, here 0.
RecordEvent ==
    /\ recorded < MaxEventsRecorded
    /\ recorded' = recorded + 1
    /\ LET previous == IF events = <<>> THEN 0 ELSE Last(events).rmpeHash IN
       events' = LastOf(Append(events, [rmpeHash |-> recorded', previousHash |-> previous]),
                       MAX_EVENTS)

-----------------------------------------------------------------------------
(* Merkle proofs. *)

EmptyRoot == <<"empty">>
LeafHash(leaf) == <<"leaf", leaf>>
HashPair(left, right) == <<"node", left, right>>

\* The hashes above a level; the last one of an odd level is paired with itself.
Above(level) ==
    [i \in 1..((Len(level) + 1) \div 2) |->
        HashPair(level[2 * i - 1],
                 level[IF 2 * i <= Len(level) THEN 2 * i ELSE 2 * i - 1])]

\* The levels of the tree; the loop ends at a single hash, from which on nothing
\* changes here.
Levels(state) ==
    LET level[d \in 0..Len(state)] ==
          IF d = 0 THEN [i \in DOMAIN state |-> LeafHash(state[i])]
          ELSE IF Len(level[d - 1]) > 1 THEN Above(level[d - 1]) ELSE level[d - 1]
    IN  level

\* Levels above the leaves.
Depth(state) ==
    CHOOSE d \in 0..Len(state) : /\ Len(Levels(state)[d]) = 1
                                 /\ \A e \in 0..(d - 1) : Len(Levels(state)[e]) > 1

Root(state) ==
    IF state = <<>> THEN EmptyRoot ELSE Levels(state)[Depth(state)][1]

\* Mutation: an odd level is taken to have a right neighbour everywhere.
SiblingWrapped(level, cursor) ==
    IF cursor % 2 = 1 THEN cursor - 1 ELSE (cursor + 1) % Len(level)

\* Cursors count from 0, as in the code.
Sibling(level, cursor) ==
    IF cursor % 2 = 1 THEN cursor - 1
    ELSE IF cursor + 1 < Len(level) THEN cursor + 1 ELSE cursor

\* The way from leaf i to the root.
Cursors(i, n) ==
    LET cursor[d \in 0..n] == IF d = 0 THEN i - 1 ELSE cursor[d - 1] \div 2
    IN  cursor

Siblings(state, i) ==
    LET cursors == Cursors(i, Depth(state)) IN
    [d \in 1..Depth(state) |->
        LET level == Levels(state)[d - 1]
            cursor == cursors[d - 1]
            sibling == Sibling(level, cursor)
        IN  [position |-> IF sibling < cursor THEN "left" ELSE "right",
             hash |-> level[sibling + 1]]]

\* No paths at all ask for all of them; those the state does not have are left out.
BuildProof(state, paths) ==
    [root |-> Root(state),
     targets |-> {[leaf |-> state[i], leafHash |-> LeafHash(state[i]),
                   proof |-> Siblings(state, i)] :
                  i \in {j \in DOMAIN state : paths = {} \/ state[j][1] \in paths}}]

Climb(target) ==
    LET up[d \in 0..Len(target.proof)] ==
          IF d = 0 THEN LeafHash(target.leaf)
          ELSE IF target.proof[d].position = "left"
               THEN HashPair(target.proof[d].hash, up[d - 1])
               ELSE HashPair(up[d - 1], target.proof[d].hash)
    IN  up[Len(target.proof)]

Verify(proof) ==
    /\ proof.targets # {}
    /\ \A t \in proof.targets : LeafHash(t.leaf) = t.leafHash /\ Climb(t) = proof.root

ConsensusMatch(local, peer) ==
    Verify(local) /\ Verify(peer) /\ local.root = peer.root

StateChanges ==
    /\ leaves' \in States
    /\ UNCHANGED <<other, received, garbled>>

\* The peer proves the state it is in; what it is asked for are paths of either.
PeerSends ==
    /\ other' \in States
    /\ LET all == {leaf[1] : leaf \in Range(other') \cup Range(leaves)} IN
       \E paths \in {{}} \cup {{p} : p \in all} : received' = BuildProof(other', paths)
    /\ garbled' = FALSE
    /\ UNCHANGED leaves

\* One target arrives changed.
Garble ==
    /\ received # <<>>
    /\ ~garbled
    /\ garbled' = TRUE
    /\ \E t \in received.targets :
         \E changed \in
              {[t EXCEPT !.leaf = l] : l \in Range(leaves)}
              \cup {[leaf |-> l, leafHash |-> LeafHash(l), proof |-> t.proof] : l \in Range(leaves)}
              \cup {[t EXCEPT !.proof = SubSeq(@, 1, d)] : d \in 0..(Len(t.proof) - 1)}
              \cup {[t EXCEPT !.proof = Append(@, sibling)] :
                      sibling \in [position : {"left", "right"}, hash : {t.leafHash}]} :
           /\ changed # t
           /\ received' = [received EXCEPT !.targets = (@ \ {t}) \cup {changed}]
    /\ UNCHANGED <<leaves, other>>

-----------------------------------------------------------------------------
(* Requests for missing blocks. *)

Larger(a, b) == IF a > b THEN a ELSE b
Smaller(a, b) == IF a < b THEN a ELSE b

\* Mutation: the end is one block too far.
BlockRequestLong(local, peer) ==
    LET start == Larger(local + 1, 0)
        end == IF peer > local
               THEN Smaller(Larger(peer, local), start + MAX_BLOCK_REQUEST)
               ELSE local
    IN  [missing |-> IF peer > local THEN start..end ELSE {},
         truncated |-> peer > end, peer |-> peer]

\* create_rnpe2_request: startBlock to endBlock as the set of blocks between.
BlockRequest(local, peer) ==
    LET start == Larger(local + 1, 0)
        end == IF peer > local
               THEN Smaller(Larger(peer, local), start + MAX_BLOCK_REQUEST - 1)
               ELSE local
    IN  [missing |-> IF peer > local THEN start..end ELSE {},
         truncated |-> peer > end, peer |-> peer]

BlockArrives ==
    /\ height < MaxHeight
    /\ height' = height + 1
    /\ UNCHANGED <<read, request>>

\* _local_height asks the node, or takes the height the poller saw last.
ReadHeight ==
    /\ read = -1
    /\ read' \in 0..height
    /\ UNCHANGED <<height, request>>

\* After a second question to the node, for the root.
RequestBlocks ==
    /\ read # -1
    /\ \E peer \in PeerHeights : request' = BlockRequest(read, peer)
    /\ read' = -1
    /\ UNCHANGED height

-----------------------------------------------------------------------------

ProvenanceTypeOK ==
    /\ recorded \in 0..MaxEventsRecorded
    /\ events \in Seq([rmpeHash : 1..recorded, previousHash : 0..recorded])
    /\ leaves \in States
    /\ other \in States
    /\ garbled \in BOOLEAN
    /\ height \in 0..MaxHeight
    /\ read \in (-1)..MaxHeight

ProvenanceInit ==
    /\ events = <<>> /\ recorded = 0
    /\ leaves \in States /\ other = leaves /\ received = <<>> /\ garbled = FALSE
    /\ height = 0 /\ read = -1 /\ request = <<>>

EventRequest == RecordEvent /\ UNCHANGED <<proofOfStateVars, blockVars>>

ProofOfStateRequest ==
    /\ StateChanges \/ PeerSends \/ Garble
    /\ UNCHANGED <<eventVars, blockVars>>

BlocksRequest ==
    /\ BlockArrives \/ ReadHeight \/ RequestBlocks
    /\ UNCHANGED <<eventVars, proofOfStateVars>>

\* The process ends; the chain is the Minima node's.
ProvenanceLost ==
    /\ events' = <<>>
    /\ read' = -1
    /\ UNCHANGED <<recorded, proofOfStateVars, height, request>>

-----------------------------------------------------------------------------
(* Every event names the one kept before it, and the event recorded last   *)
(* is kept, when the oldest have made room too: "previousHash links each   *)
(* bounded in-memory event to the preceding RMPE-2 record" in              *)
(* backend/routes/provenance.py.                                           *)
ChainLinks ==
    /\ \A i \in 2..Len(events) : events[i].previousHash = events[i - 1].rmpeHash
    /\ events # <<>> => Last(events).rmpeHash = recorded

(* A proof that arrives as it was built convinces; one that convinces      *)
(* shows nothing but leaves of the state whose root it names; and two      *)
(* nodes that are told their roots match hold the same leaves:             *)
(* build_rmp_proof, verify_rmp_proof and verify_rnpe2_consensus.           *)
ProofsConvince ==
    received # <<>> =>
        /\ ~garbled /\ received.targets # {} => Verify(received)
        /\ Verify(received) =>
             \A t \in received.targets : t.leaf \in Range(other)
        /\ ConsensusMatch(BuildProof(leaves, {}), received) => Range(leaves) = Range(other)

(* A request asks for blocks that follow on those the node has, without a  *)
(* gap and at most so many at once, none the peer does not claim, and says *)
(* so when there are more, though the chain grows while it is made:        *)
(* create_rnpe2_request and minima_rnpe2_request.                          *)
BlocksWanted ==
    request # <<>> =>
        /\ Cardinality(request.missing) <= MAX_BLOCK_REQUEST
        /\ \A b \in request.missing :
             /\ b <= request.peer
             /\ b > height + 1 => b - 1 \in request.missing
        /\ request.missing # {} =>
             (request.truncated <=> request.peer \notin request.missing)
=============================================================================
