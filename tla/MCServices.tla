----------------------------- MODULE MCServices -----------------------------
(* The services do not share state: what they have in common is the loop   *)
(* they run on and the end of the process.  So that TLC need not multiply  *)
(* their states, the requests of a behaviour all go to one service, chosen *)
(* at its start; only behaviours about certificates generate them, and in  *)
(* the others the process ends at most once.                               *)
EXTENDS Services

CONSTANTS t1, t2, t3, s1, s2, s3, s4

VARIABLE focus

MCScores == {-1, 2, 4, 9}

Leaf(p) == <<p, 0>>
MCStates == {
    <<>>,  <<Leaf("a")>>,  << <<"a", 1>> >>,
    <<Leaf("a"), Leaf("b")>>,  <<Leaf("a"), Leaf("a")>>,
    <<Leaf("a"), Leaf("b"), Leaf("c")>>,  <<Leaf("a"), Leaf("b"), <<"c", 1>> >>,
    <<Leaf("a"), Leaf("b"), Leaf("c"), Leaf("c")>>,
    <<Leaf("a"), Leaf("b"), Leaf("c"), Leaf("d"), Leaf("e")>>}
MCPeerHeights == {-1, 0, 2, 5}

MCTenants == {t1, t2, t3}
MCLimits == {-1, 2000000}

\* A board that supports three sensors, and one that only the processor names.
MCBoards == {[tree |-> {"zero", "raspberry pi"}, cpu |-> {"bcm2835"}],
             [tree |-> {"zero 2", "zero", "raspberry pi"}, cpu |-> {"bcm2837"}],
             [tree |-> {}, cpu |-> {"bcm2835"}],
             [tree |-> {}, cpu |-> {}]}
MCSensors == {s1, s2, s3, s4}
MCIntervals == {-1, 60}

Focus == {"market", "enclaves", "attestation", "proofs", "events", "states", "blocks",
          "tenants", "sensors", "dapps", "certificates", "keystore"}

\* The backend and the command line run tasks at the same time only before any task
\* has ended half way, and while this many pairs have been made.
MCRacingPairs == 2

MCInit ==
    /\ ServicesInit
    /\ focus \in Focus
    /\ focus # "states" => leaves = <<>>
    /\ focus # "tenants" => ~enforced
    /\ focus # "sensors" => platform = "zero"
    /\ focus # "keystore" => ~tpm /\ boot = "before"

MCNext ==
    /\ UNCHANGED focus
    /\ \/ focus = "market" /\ MarketServed
       \/ focus = "enclaves" /\ EnclaveServed
       \/ focus = "attestation" /\ AttestationServed
       \/ focus = "proofs" /\ ProofServed
       \/ focus = "events" /\ EventServed
       \/ focus = "states" /\ StateProofServed
       \/ focus = "blocks" /\ BlocksServed
       \/ focus = "tenants" /\ TenantServed
       \/ focus = "sensors" /\ SensorServed
       \/ focus = "dapps" /\ DappServed
       \/ focus = "keystore" /\ KeystoreServed
       \/ /\ CertificatesServed
          /\ focus # "certificates" => serving = "down" /\ serving' = "http"
          /\ (\A w \in Worker : task'[w] # Idle) => made' <= MCRacingPairs /\ stops' = 0
       \/ /\ ProcessEnds
          /\ focus # "certificates" => stops = 0
          /\ focus # "tenants" => ~enforced'
          /\ focus # "keystore" => UNCHANGED keystoreVars

MCSpec == MCInit /\ [][MCNext]_<<servicesVars, focus>>
=============================================================================
