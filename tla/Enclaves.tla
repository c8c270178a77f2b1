------------------------------ MODULE Enclaves ------------------------------
(***************************************************************************)
(* Trust in what a node runs: enclaves and their measurements              *)
(* (backend/enclave_manager.py), attestation records                       *)
(* (backend/attestation.py) and zero-knowledge proofs                      *)
(* (backend/zk_prover.py), each kept in a dictionary of the process.       *)
(* Handlers are single steps of the event loop; those that answer 4xx or   *)
(* 503 change nothing and are no actions.                                  *)
(*                                                                         *)
(* Enclaves and proofs are named by a hash of the time to the bit, here by *)
(* their number.  An attestation is named by its node, the second and what *)
(* was measured on disk, so that two requests may give one name.           *)
(***************************************************************************)
EXTENDS Naturals, FiniteSets, Dicts

CONSTANTS
    MAX_PER_NODE,  \* ENCLAVE_MAX_PER_NODE
    MaxTrustIds,   \* bound: enclaves, and proofs, ever created
    MaxSeconds,    \* bound: seconds that pass between attestations
    Digests,       \* contents of the boot and configuration directories, and of
                   \* the PCRs, as their hashes
    Unread,        \* the hash of what could not be read: "", or no PCRs
    Txids          \* ledger transactions a client may name

ASSUME EnclavesAssumption ==
    /\ MAX_PER_NODE \in Nat /\ MaxTrustIds \in Nat /\ MaxSeconds \in Nat
    /\ Unread \notin Digests

VARIABLES
    enclaves,        \* ENCLAVES: the status of each
    measurements,    \* _ENCLAVE_MEASUREMENTS: names that have one
    enclavesIssued,
    records,         \* _records of the attestation manager
    second,          \* the wall clock
    matched,         \* what each record was found to be by a valid verification
    proofs,          \* PROOFS
    proofsIssued

enclaveVars == <<enclaves, measurements, enclavesIssued>>
attestVars == <<records, second, matched>>
proofVars == <<proofs, proofsIssued>>
trustVars == <<enclaveVars, attestVars, proofVars>>

TrustId == 1..MaxTrustIds
Hash == Digests \cup {Unread}
Txid == Txids \cup {""}

\* What is measured; attestation_id depends on the disk alone.
Measured == [boot : Hash, config : Hash, pcrs : Hash]
AttestationId == (0..MaxSeconds) \X Hash \X Hash
Record == [measured : Measured, verified : BOOLEAN, ledgerTxid : Txid]
Proof == [programHash : Digests, verified : BOOLEAN, onLedger : BOOLEAN]

TrustTypeOK ==
    /\ IsDict(enclaves, TrustId, {"running", "stopped", "attested"})
    /\ measurements \subseteq TrustId
    /\ enclavesIssued \in 0..MaxTrustIds
    /\ IsDict(records, AttestationId, Record)
    /\ second \in 0..MaxSeconds
    /\ IsDict(matched, AttestationId, Measured)
    /\ IsDict(proofs, TrustId, Proof)
    /\ proofsIssued \in 0..MaxTrustIds

TrustInit ==
    /\ enclaves = EmptyDict /\ measurements = {} /\ enclavesIssued = 0
    /\ records = EmptyDict /\ second = 0 /\ matched = EmptyDict
    /\ proofs = EmptyDict /\ proofsIssued = 0

-----------------------------------------------------------------------------
(* Enclaves. *)

\* "creating" and "running" are set in one step.
CreateEnclave ==
    /\ Cardinality(DOMAIN enclaves) < MAX_PER_NODE
    /\ enclavesIssued < MaxTrustIds
    /\ enclavesIssued' = enclavesIssued + 1
    /\ enclaves' = Put(enclaves, enclavesIssued', "running")
    /\ UNCHANGED measurements

StopEnclave(e) ==
    /\ e \in DOMAIN enclaves
    /\ enclaves' = Put(enclaves, e, "stopped")
    /\ UNCHANGED <<measurements, enclavesIssued>>

\* Its measurement stays.
TerminateEnclave(e) ==
    /\ e \in DOMAIN enclaves
    /\ enclaves' = Drop(enclaves, e)
    /\ UNCHANGED <<measurements, enclavesIssued>>

\* For any name.
RecordMeasurement(e) ==
    /\ measurements' = measurements \cup {e}
    /\ UNCHANGED <<enclaves, enclavesIssued>>

\* In any status, and without a measurement.
AttestEnclave(e) ==
    /\ e \in DOMAIN enclaves
    /\ enclaves' = Put(enclaves, e, "attested")
    /\ UNCHANGED <<measurements, enclavesIssued>>

EnclaveRequest ==
    /\ \/ CreateEnclave
       \/ \E e \in TrustId : \/ StopEnclave(e) \/ TerminateEnclave(e)
                             \/ RecordMeasurement(e) \/ AttestEnclave(e)
    /\ UNCHANGED <<attestVars, proofVars>>

-----------------------------------------------------------------------------
(* Attestation records. *)

NewRecord(m) == [measured |-> m, verified |-> FALSE, ledgerTxid |-> ""]

\* Mutation: a record that is there already is brought up to date.
CreateAttestationInPlace(m) ==
    LET id == <<second, m.boot, m.config>> IN
    /\ records' = Put(records, id,
                      IF id \in DOMAIN records
                      THEN [records[id] EXCEPT !.measured = m] ELSE NewRecord(m))
    /\ UNCHANGED <<second, matched>>

\* The record of an earlier request in this second that found the same disk is
\* replaced, whatever was done with it.
CreateAttestation(m) ==
    /\ records' = Put(records, <<second, m.boot, m.config>>, NewRecord(m))
    /\ UNCHANGED <<second, matched>>

\* What a verifier leaves out ("" or no PCRs) is not compared.
Matches(m, e) == \A part \in DOMAIN m : e[part] \in {Unread, m[part]}

\* A verification that fails changes nothing, not even an earlier success.
VerifyAttestation(id, e) ==
    /\ id \in DOMAIN records
    /\ Matches(records[id].measured, e)
    /\ records' = [records EXCEPT ![id].verified = TRUE]
    /\ matched' = Put(matched, id, records[id].measured)
    /\ UNCHANGED second

AnchorToLedger(id, t) ==
    /\ id \in DOMAIN records
    /\ records' = [records EXCEPT ![id].ledgerTxid = t]
    /\ UNCHANGED <<second, matched>>

SecondPasses ==
    /\ second < MaxSeconds
    /\ second' = second + 1
    /\ UNCHANGED <<records, matched>>

AttestationRequest ==
    /\ \/ \E m \in Measured : CreateAttestation(m)
       \/ \E id \in DOMAIN records :
            \/ \E e \in Measured : VerifyAttestation(id, e)
            \/ \E t \in Txids : AnchorToLedger(id, t)
       \/ SecondPasses
    /\ UNCHANGED <<enclaveVars, proofVars>>

-----------------------------------------------------------------------------
(* Zero-knowledge proofs. *)

GenerateProof(h) ==
    /\ proofsIssued < MaxTrustIds
    /\ proofsIssued' = proofsIssued + 1
    /\ proofs' = Put(proofs, proofsIssued',
                     [programHash |-> h, verified |-> FALSE, onLedger |-> FALSE])

\* The hash alone is compared; the transaction of an earlier success stays.
VerifyProof(p, h) ==
    /\ p \in DOMAIN proofs
    /\ LET match == proofs[p].programHash = h IN
       proofs' = [proofs EXCEPT ![p].verified = match,
                                ![p].onLedger = @ \/ match]
    /\ UNCHANGED proofsIssued

DeleteProof(p) ==
    /\ p \in DOMAIN proofs
    /\ proofs' = Drop(proofs, p)
    /\ UNCHANGED proofsIssued

ProofRequest ==
    /\ \E h \in Digests :
         \/ GenerateProof(h)
         \/ \E p \in TrustId : VerifyProof(p, h) \/ DeleteProof(p)
    /\ UNCHANGED <<enclaveVars, attestVars>>

\* The process ends; the clock and the names go on.
TrustLost ==
    /\ enclaves' = EmptyDict /\ measurements' = {} /\ UNCHANGED enclavesIssued
    /\ records' = EmptyDict /\ UNCHANGED <<second, matched>>
    /\ proofs' = EmptyDict /\ UNCHANGED proofsIssued

-----------------------------------------------------------------------------
(* A record that is shown as verified is one whose own measurements a      *)
(* verification accepted, not those of a record of the same name that it   *)
(* replaced: create_attestation in backend/attestation.py, whose names     *)
(* have the resolution of a second and leave the PCRs out.                 *)
VerifiedWasMatched ==
    \A id \in DOMAIN records :
        records[id].verified => /\ id \in DOMAIN matched
                                /\ matched[id] = records[id].measured
=============================================================================
