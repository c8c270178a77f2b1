------------------------------ MODULE Services ------------------------------
(***************************************************************************)
(* The backend process as the host of its services.  All of them live in   *)
(* one process and on one event loop (backend/main.py, run.py): a request  *)
(* is handled only while the server runs and no command of a certificate   *)
(* task blocks the loop, and the end of the process, at any moment, empties*)
(* every dictionary at once while the files and the cgroups stay.          *)
(***************************************************************************)
EXTENDS Marketplace, Enclaves, Provenance, Tenants, Sensors, Dapps, Certificates, Keystore

CONSTANT MaxRequests  \* bound: requests to the services that keep dictionaries

ASSUME ServicesAssumption == MaxRequests \in Nat

VARIABLE requests

servicesVars == <<requests, marketVars, trustVars, provenanceVars, tenantVars,
                  sensorVars, dappVars, certVars, keystoreVars>>

ServicesInit ==
    /\ requests = 0
    /\ MarketInit /\ TrustInit /\ ProvenanceInit /\ TenantsInit
    /\ SensorsInit /\ DappsInit /\ CertificatesInit /\ KeystoreInit

ServicesTypeOK ==
    /\ requests \in 0..MaxRequests
    /\ MarketTypeOK /\ TrustTypeOK /\ ProvenanceTypeOK /\ TenantsTypeOK
    /\ SensorsTypeOK /\ DappsTypeOK /\ CertificatesTypeOK /\ KeystoreTypeOK

\* The event loop is free.
Served ==
    /\ serving # "down"
    /\ task["backend"] = Idle
    /\ requests < MaxRequests
    /\ requests' = requests + 1
    /\ UNCHANGED certVars

MarketServed ==
    /\ Served /\ MarketRequest
    /\ UNCHANGED <<trustVars, provenanceVars, tenantVars, sensorVars, dappVars, keystoreVars>>

EnclaveServed ==
    /\ Served /\ EnclaveRequest
    /\ UNCHANGED <<marketVars, provenanceVars, tenantVars, sensorVars, dappVars, keystoreVars>>

AttestationServed ==
    /\ Served /\ AttestationRequest
    /\ UNCHANGED <<marketVars, provenanceVars, tenantVars, sensorVars, dappVars, keystoreVars>>

ProofServed ==
    /\ Served /\ ProofRequest
    /\ UNCHANGED <<marketVars, provenanceVars, tenantVars, sensorVars, dappVars, keystoreVars>>

EventServed ==
    /\ Served /\ EventRequest
    /\ UNCHANGED <<marketVars, trustVars, tenantVars, sensorVars, dappVars, keystoreVars>>

StateProofServed ==
    /\ Served /\ ProofOfStateRequest
    /\ UNCHANGED <<marketVars, trustVars, tenantVars, sensorVars, dappVars, keystoreVars>>

BlocksServed ==
    /\ Served /\ BlocksRequest
    /\ UNCHANGED <<marketVars, trustVars, tenantVars, sensorVars, dappVars, keystoreVars>>

TenantServed ==
    /\ Served /\ TenantRequest
    /\ UNCHANGED <<marketVars, trustVars, provenanceVars, sensorVars, dappVars, keystoreVars>>

SensorServed ==
    /\ Served /\ SensorRequest
    /\ UNCHANGED <<marketVars, trustVars, provenanceVars, tenantVars, dappVars, keystoreVars>>

DappServed ==
    /\ Served /\ DappRequest
    /\ UNCHANGED <<marketVars, trustVars, provenanceVars, tenantVars, sensorVars, keystoreVars>>

KeystoreServed ==
    /\ Served /\ KeystoreRequest
    /\ UNCHANGED <<marketVars, trustVars, provenanceVars, tenantVars, sensorVars, dappVars>>

CertificatesServed ==
    /\ CertificateStep
    /\ UNCHANGED <<requests, marketVars, trustVars, provenanceVars, tenantVars, sensorVars,
                   dappVars, keystoreVars>>

\* Whatever was under way, and in every service at once; perhaps the device
\* starts again too.
ProcessEnds ==
    /\ ProcessDies
    /\ MarketLost /\ TrustLost /\ ProvenanceLost /\ TenantsLost /\ SensorsLost
    /\ Reboot \/ UNCHANGED keystoreVars
    /\ UNCHANGED <<requests, dappVars>>

ServicesNext ==
    \/ MarketServed
    \/ EnclaveServed \/ AttestationServed \/ ProofServed
    \/ EventServed \/ StateProofServed \/ BlocksServed
    \/ TenantServed \/ SensorServed \/ DappServed
    \/ KeystoreServed \/ CertificatesServed
    \/ ProcessEnds

ServicesSpec == ServicesInit /\ [][ServicesNext]_servicesVars
=============================================================================
