--------------------------- MODULE ServicesProofs ---------------------------
(***************************************************************************)
(* Machine-checked theorems about the services of the backend process, for *)
(* any requests, any sizes of their stores and any bounds.  Services share *)
(* no state, so that each has an inductive invariant of its own; what they *)
(* share, the event loop and the end of the process, is in the lemmas that *)
(* say what a step of the process is to each of them.                      *)
(***************************************************************************)
EXTENDS Services, FiniteSetTheorems, TLAPS

-----------------------------------------------------------------------------
(* To each service a step is a request to it, the end of the process, or   *)
(* nothing at all.                                                         *)

LEMMA MarketSteps ==
    [ServicesNext]_servicesVars =>
        MarketRequest \/ MarketLost \/ UNCHANGED marketVars
BY DEF ServicesNext, servicesVars, 
       MarketServed, EnclaveServed, AttestationServed, ProofServed, EventServed,
       StateProofServed, BlocksServed, TenantServed, SensorServed, DappServed,
       KeystoreServed, CertificatesServed, ProcessEnds

LEMMA AttestationSteps ==
    [ServicesNext]_servicesVars =>
        AttestationRequest \/ TrustLost \/ UNCHANGED attestVars
BY DEF ServicesNext, servicesVars, trustVars, EnclaveRequest, ProofRequest,
       MarketServed, EnclaveServed, AttestationServed, ProofServed, EventServed,
       StateProofServed, BlocksServed, TenantServed, SensorServed, DappServed,
       KeystoreServed, CertificatesServed, ProcessEnds

LEMMA EventSteps ==
    [ServicesNext]_servicesVars =>
        EventRequest \/ ProvenanceLost \/ UNCHANGED eventVars
BY DEF ServicesNext, servicesVars, provenanceVars, ProofOfStateRequest, BlocksRequest,
       MarketServed, EnclaveServed, AttestationServed, ProofServed, EventServed,
       StateProofServed, BlocksServed, TenantServed, SensorServed, DappServed,
       KeystoreServed, CertificatesServed, ProcessEnds

LEMMA StateSteps ==
    [ServicesNext]_servicesVars => ProofOfStateRequest \/ UNCHANGED proofOfStateVars
BY DEF ServicesNext, servicesVars, provenanceVars, EventRequest, BlocksRequest,
       MarketServed, EnclaveServed, AttestationServed, ProofServed, EventServed,
       StateProofServed, BlocksServed, TenantServed, SensorServed, DappServed,
       KeystoreServed, CertificatesServed, ProcessEnds, ProvenanceLost

LEMMA BlocksSteps ==
    [ServicesNext]_servicesVars =>
        BlocksRequest \/ ProvenanceLost \/ UNCHANGED blockVars
BY DEF ServicesNext, servicesVars, provenanceVars, ProofOfStateRequest, EventRequest,
       MarketServed, EnclaveServed, AttestationServed, ProofServed, EventServed,
       StateProofServed, BlocksServed, TenantServed, SensorServed, DappServed,
       KeystoreServed, CertificatesServed, ProcessEnds

LEMMA TenantSteps ==
    [ServicesNext]_servicesVars =>
        TenantRequest \/ TenantsLost \/ UNCHANGED tenantVars
BY DEF ServicesNext, servicesVars, 
       MarketServed, EnclaveServed, AttestationServed, ProofServed, EventServed,
       StateProofServed, BlocksServed, TenantServed, SensorServed, DappServed,
       KeystoreServed, CertificatesServed, ProcessEnds

LEMMA SensorSteps ==
    [ServicesNext]_servicesVars =>
        SensorRequest \/ SensorsLost \/ UNCHANGED sensorVars
BY DEF ServicesNext, servicesVars, 
       MarketServed, EnclaveServed, AttestationServed, ProofServed, EventServed,
       StateProofServed, BlocksServed, TenantServed, SensorServed, DappServed,
       KeystoreServed, CertificatesServed, ProcessEnds

LEMMA DappSteps ==
    [ServicesNext]_servicesVars =>
        DappRequest \/ UNCHANGED dappVars
BY DEF ServicesNext, servicesVars, 
       MarketServed, EnclaveServed, AttestationServed, ProofServed, EventServed,
       StateProofServed, BlocksServed, TenantServed, SensorServed, DappServed,
       KeystoreServed, CertificatesServed, ProcessEnds

LEMMA CertificateSteps ==
    [ServicesNext]_servicesVars =>
        CertificateStep \/ ProcessDies \/ UNCHANGED certVars
BY DEF ServicesNext, servicesVars, Served,
       MarketServed, EnclaveServed, AttestationServed, ProofServed, EventServed,
       StateProofServed, BlocksServed, TenantServed, SensorServed, DappServed,
       KeystoreServed, CertificatesServed, ProcessEnds

-----------------------------------------------------------------------------
(* Dictionaries. *)

LEMMA PutIsDict ==
    ASSUME NEW K, NEW V, NEW d, IsDict(d, K, V), NEW k \in K, NEW v \in V
    PROVE  IsDict(Put(d, k, v), K, V)
BY DEF IsDict, Put

LEMMA DropIsDict ==
    ASSUME NEW K, NEW V, NEW d, IsDict(d, K, V), NEW k
    PROVE  IsDict(Drop(d, k), K, V)
BY DEF IsDict, Drop

LEMMA EmptyIsDict ==
    ASSUME NEW K, NEW V
    PROVE  IsDict(EmptyDict, K, V) /\ DOMAIN EmptyDict = {}
BY DEF IsDict, EmptyDict

-----------------------------------------------------------------------------
(* Sensors. *)

LEMMA MinIntervalIsInt == MIN_INTERVAL \in Int
<1>1. \A n, s : Caps(n, s).min_poll_interval = s
  BY DEF Caps
<1>2. PlatformCaps(platform) \in
        {Caps(16, 5), Caps(12, 5), Caps(8, 10), Caps(6, 10), Caps(4, 20), Caps(4, 15),
         Caps(3, 30)}
  BY Zenon DEF PlatformCaps
<1> QED
  BY <1>1, <1>2 DEF MIN_INTERVAL

LEMMA FlooredIsFloored ==
    ASSUME NEW i \in Int
    PROVE  Floored(i) \in Int /\ Floored(i) >= MIN_INTERVAL
BY MinIntervalIsInt DEF Floored

SensorsInv ==
    /\ IsDict(sensors, SensorIds, Sensor)
    /\ IntervalsFloored

LEMMA SensorsInvInit == SensorsInit => SensorsInv
BY EmptyIsDict DEF SensorsInit, SensorsInv, IntervalsFloored

LEMMA SensorsInvStep ==
    SensorsInv /\ (SensorRequest \/ SensorsLost \/ UNCHANGED sensorVars) => SensorsInv'
<1> SUFFICES ASSUME SensorsInv, SensorRequest \/ SensorsLost \/ UNCHANGED sensorVars
             PROVE  SensorsInv'
  OBVIOUS
<1>. DEFINE Fine(d, s) == d[s].poll_interval # NotAnInterval
                          /\ d[s].poll_interval >= MIN_INTERVAL
<1>0. /\ MIN_INTERVAL \in Int
      /\ sensors \in [DOMAIN sensors -> Sensor]
      /\ DOMAIN sensors \subseteq SensorIds
      /\ \A s \in DOMAIN sensors \ unfloored : Fine(sensors, s)
      /\ \A s \in DOMAIN sensors : sensors[s].poll_interval \in Int \cup {NotAnInterval}
  BY MinIntervalIsInt DEF SensorsInv, IsDict, IntervalsFloored, Sensor
<1>i. \A i \in Intervals : i \in Int
  BY SensorsAssumption
<1>n. \A i \in Int : i # NotAnInterval
  BY SensorsAssumption
<1>p. platform' = platform /\ MIN_INTERVAL' = MIN_INTERVAL
  BY DEF SensorRequest, SensorsLost, sensorVars, CreateSensor, UpdateSensor, UpdateOther,
         UpdateRefusedLate, RemoveSensor, ReadSensor, ReadInThread, BeginReadAll, MIN_INTERVAL
<1>. SUFFICES /\ IsDict(sensors', SensorIds, Sensor)
              /\ \A s \in DOMAIN sensors' \ unfloored' : Fine(sensors', s)
  BY <1>p DEF SensorsInv, IntervalsFloored
<1>1. ASSUME NEW s \in SensorIds, NEW bus \in Buses, NEW placed \in BOOLEAN, NEW i \in Intervals,
             CreateSensor(s, bus, placed, i)
      PROVE  /\ IsDict(sensors', SensorIds, Sensor)
             /\ \A t \in DOMAIN sensors' \ unfloored' : Fine(sensors', t)
  <2>. DEFINE new == [enabled |-> TRUE, bus |-> bus, placed |-> placed,
                      poll_interval |-> Floored(i)]
  <2>1. Floored(i) \in Int /\ Floored(i) >= MIN_INTERVAL
    BY <1>i, FlooredIsFloored
  <2>2. new \in Sensor /\ new.poll_interval = Floored(i)
    BY <2>1 DEF Sensor
  <2>. HIDE DEF new
  <2>3. sensors' = Put(sensors, s, new) /\ unfloored' = unfloored \ {s}
    BY <1>1 DEF CreateSensor, new
  <2>4. IsDict(sensors', SensorIds, Sensor)
    BY <2>2, <2>3, PutIsDict DEF SensorsInv
  <2>5. ASSUME NEW t \in DOMAIN sensors' \ unfloored'
        PROVE  Fine(sensors', t)
    <3>1. CASE t = s
      BY <3>1, <2>1, <2>2, <2>3, <1>n DEF Put
    <3>2. CASE t # s
      <4>1. t \in DOMAIN sensors \ unfloored /\ sensors'[t] = sensors[t]
        BY <3>2, <2>3, <2>5 DEF Put
      <4> QED
        BY <4>1, <1>0
    <3> QED
      BY <3>1, <3>2
  <2> QED
    BY <2>4, <2>5
<1>2. ASSUME NEW s \in SensorIds, NEW i \in Int \cup {NotAnInterval}, s \in DOMAIN sensors,
             sensors' = [sensors EXCEPT ![s].poll_interval = i],
             \/ unfloored' = unfloored \cup {s}
             \/ unfloored' = unfloored \ {s} /\ i # NotAnInterval /\ i >= MIN_INTERVAL
      PROVE  /\ IsDict(sensors', SensorIds, Sensor)
             /\ \A t \in DOMAIN sensors' \ unfloored' : Fine(sensors', t)
  <2>1. /\ sensors' \in [DOMAIN sensors -> Sensor]
        /\ \A t \in DOMAIN sensors \ {s} : sensors'[t] = sensors[t]
        /\ sensors'[s].poll_interval = i
    BY <1>0, <1>2 DEF Sensor
  <2>2. DOMAIN sensors' = DOMAIN sensors
    BY <2>1
  <2> QED
    BY <1>0, <1>2, <2>1, <2>2 DEF IsDict
<1>3. ASSUME NEW s \in SensorIds, NEW enabled \in BOOLEAN, UpdateOther(s, enabled)
      PROVE  /\ IsDict(sensors', SensorIds, Sensor)
             /\ \A t \in DOMAIN sensors' \ unfloored' : Fine(sensors', t)
  <2>. DEFINE i == sensors[s].poll_interval
              j == IF i = NotAnInterval THEN i ELSE Floored(i)
  <2>0. s \in DOMAIN sensors
    BY <1>3 DEF UpdateOther
  <2>1. i \in Int \cup {NotAnInterval}
    BY <1>0, <2>0
  <2>2. /\ j \in Int \cup {NotAnInterval}
        /\ i # NotAnInterval => j # NotAnInterval /\ j >= MIN_INTERVAL
    BY <2>1, <1>n, FlooredIsFloored
  <2>3. /\ sensors' = [sensors EXCEPT ![s].enabled = enabled, ![s].poll_interval = j]
        /\ unfloored' = IF i = NotAnInterval THEN unfloored ELSE unfloored \ {s}
    BY <1>3 DEF UpdateOther
  <2>4. i = NotAnInterval => s \in unfloored
    BY <1>0, <2>0
  <2>. HIDE DEF i, j
  <2>5. /\ sensors' \in [DOMAIN sensors -> Sensor]
        /\ \A t \in DOMAIN sensors \ {s} : sensors'[t] = sensors[t]
        /\ sensors'[s].poll_interval = j
    BY <1>0, <2>0, <2>2, <2>3 DEF Sensor
  <2>6. DOMAIN sensors' = DOMAIN sensors
    BY <2>5
  <2> QED
    BY <1>0, <2>2, <2>3, <2>4, <2>5, <2>6 DEF IsDict
<1>4. ASSUME NEW s \in SensorIds, RemoveSensor(s)
      PROVE  /\ IsDict(sensors', SensorIds, Sensor)
             /\ \A t \in DOMAIN sensors' \ unfloored' : Fine(sensors', t)
  <2>1. sensors' = Drop(sensors, s) /\ unfloored' = unfloored
    BY <1>4 DEF RemoveSensor
  <2>2. IsDict(sensors', SensorIds, Sensor)
    BY <2>1, DropIsDict DEF SensorsInv
  <2> QED
    BY <1>0, <2>1, <2>2 DEF Drop
<1>5. ASSUME UNCHANGED <<sensors, unfloored>>
      PROVE  /\ IsDict(sensors', SensorIds, Sensor)
             /\ \A t \in DOMAIN sensors' \ unfloored' : Fine(sensors', t)
  BY <1>0, <1>5 DEF SensorsInv
<1>6. CASE SensorRequest
  <2>1. ASSUME NEW s \in SensorIds, NEW i \in Intervals \cup {NotAnInterval},
               UpdateSensor(s, i) \/ UpdateRefusedLate(s, i)
        PROVE  /\ IsDict(sensors', SensorIds, Sensor)
               /\ \A t \in DOMAIN sensors' \ unfloored' : Fine(sensors', t)
    <3>1. CASE UpdateSensor(s, i)
      <4>1. i \in Int /\ Floored(i) \in Int /\ Floored(i) >= MIN_INTERVAL
        BY <2>1, <3>1, <1>i, FlooredIsFloored DEF UpdateSensor
      <4> QED
        BY <3>1, <4>1, <1>2, <1>n DEF UpdateSensor
    <3>2. CASE UpdateRefusedLate(s, i)
      BY <3>2, <1>2, <1>i DEF UpdateRefusedLate
    <3> QED
      BY <2>1, <3>1, <3>2
  <2>2. ASSUME NEW s \in SensorIds, ReadSensor(s) \/ ReadInThread(s)
        PROVE  UNCHANGED <<sensors, unfloored>>
    BY <2>2 DEF ReadSensor, ReadInThread
  <2>3. BeginReadAll => UNCHANGED <<sensors, unfloored>>
    BY DEF BeginReadAll
  <2> QED
    BY <1>1, <1>3, <1>4, <1>5, <1>6, <2>1, <2>2, <2>3 DEF SensorRequest
<1>7. CASE SensorsLost
  BY <1>7, EmptyIsDict DEF SensorsLost
<1>8. CASE UNCHANGED sensorVars
  BY <1>8, <1>5 DEF sensorVars
<1> QED
  BY <1>6, <1>7, <1>8

(* The floor under every poll interval that was not left by a refused      *)
(* update, on every board: add_sensor and update_sensor of                 *)
(* backend/sensor_manager.py.                                              *)
THEOREM SensorsAreFloored == ServicesSpec => []IntervalsFloored
<1>1. ServicesInit => SensorsInv
  BY SensorsInvInit DEF ServicesInit
<1>2. SensorsInv /\ [ServicesNext]_servicesVars => SensorsInv'
  BY SensorSteps, SensorsInvStep
<1>3. SensorsInv => IntervalsFloored
  BY DEF SensorsInv
<1> QED
  BY <1>1, <1>2, <1>3, PTL DEF ServicesSpec

-----------------------------------------------------------------------------
(* Attestation records. *)

AttestationInv ==
    /\ IsDict(records, AttestationId, Record)
    /\ second \in 0..MaxSeconds
    /\ VerifiedWasMatched

LEMMA AttestationInvInit == TrustInit => AttestationInv
BY EmptyIsDict, EnclavesAssumption DEF TrustInit, AttestationInv, VerifiedWasMatched

LEMMA AttestationInvStep ==
    AttestationInv /\ (AttestationRequest \/ TrustLost \/ UNCHANGED attestVars)
        => AttestationInv'
<1> SUFFICES ASSUME AttestationInv, AttestationRequest \/ TrustLost \/ UNCHANGED attestVars
             PROVE  AttestationInv'
  OBVIOUS
<1>0. /\ records \in [DOMAIN records -> Record]
      /\ DOMAIN records \subseteq AttestationId
      /\ second \in 0..MaxSeconds
      /\ \A id \in DOMAIN records :
           records[id].verified => id \in DOMAIN matched /\ matched[id] = records[id].measured
  BY DEF AttestationInv, IsDict, VerifiedWasMatched
\* The new record is not verified, whatever the one it replaces was.
<1>1. ASSUME NEW m \in Measured, CreateAttestation(m)
      PROVE  AttestationInv'
  <2>. DEFINE id == <<second, m.boot, m.config>>
              new == NewRecord(m)
  <2>1. new \in Record /\ new.verified = FALSE
    BY DEF NewRecord, Record, Txid
  <2>2. id \in AttestationId
    BY <1>0 DEF AttestationId, Measured
  <2>3. records' = Put(records, id, new) /\ second' = second /\ matched' = matched
    BY <1>1 DEF CreateAttestation
  <2>. HIDE DEF id, new
  <2>4. IsDict(records', AttestationId, Record)
    BY <2>1, <2>2, <2>3, PutIsDict DEF AttestationInv
  <2>5. ASSUME NEW x \in DOMAIN records', records'[x].verified
        PROVE  x \in DOMAIN matched' /\ matched'[x] = records'[x].measured
    <3>1. x # id
      BY <2>1, <2>3, <2>5 DEF Put
    <3>2. x \in DOMAIN records /\ records'[x] = records[x]
      BY <2>3, <2>5, <3>1 DEF Put
    <3> QED
      BY <1>0, <2>3, <2>5, <3>2
  <2> QED
    BY <1>0, <2>3, <2>4, <2>5 DEF AttestationInv, VerifiedWasMatched
<1>2. ASSUME NEW id \in DOMAIN records, NEW e \in Measured, VerifyAttestation(id, e)
      PROVE  AttestationInv'
  <2>1. /\ records' = [records EXCEPT ![id].verified = TRUE]
        /\ matched' = Put(matched, id, records[id].measured)
        /\ second' = second
    BY <1>2 DEF VerifyAttestation
  <2>2. /\ records' \in [DOMAIN records -> Record]
        /\ \A x \in DOMAIN records \ {id} : records'[x] = records[x]
        /\ records'[id].measured = records[id].measured
    BY <1>0, <2>1 DEF Record
  <2>3. DOMAIN records' = DOMAIN records
    BY <2>2
  <2>4. /\ id \in DOMAIN matched' /\ matched'[id] = records[id].measured
        /\ \A x \in DOMAIN matched \ {id} : x \in DOMAIN matched' /\ matched'[x] = matched[x]
    BY <2>1 DEF Put
  <2>5. VerifiedWasMatched'
    BY <1>0, <2>2, <2>3, <2>4 DEF VerifiedWasMatched
  <2> QED
    BY <1>0, <2>1, <2>2, <2>3, <2>5 DEF AttestationInv, IsDict
<1>3. ASSUME NEW id \in DOMAIN records, NEW t \in Txids, AnchorToLedger(id, t)
      PROVE  AttestationInv'
  <2>1. /\ records' = [records EXCEPT ![id].ledgerTxid = t]
        /\ matched' = matched /\ second' = second /\ t \in Txid
    BY <1>3 DEF AnchorToLedger, Txid
  <2>2. /\ records' \in [DOMAIN records -> Record]
        /\ \A x \in DOMAIN records \ {id} : records'[x] = records[x]
        /\ records'[id].measured = records[id].measured
        /\ records'[id].verified = records[id].verified
    BY <1>0, <2>1 DEF Record
  <2>3. DOMAIN records' = DOMAIN records
    BY <2>2
  <2>4. VerifiedWasMatched'
    BY <1>0, <2>1, <2>2, <2>3 DEF VerifiedWasMatched
  <2> QED
    BY <1>0, <2>1, <2>2, <2>3, <2>4 DEF AttestationInv, IsDict
<1>4. CASE SecondPasses
  BY <1>4, EnclavesAssumption DEF SecondPasses, AttestationInv, VerifiedWasMatched
<1>5. CASE TrustLost
  BY <1>5, EmptyIsDict DEF TrustLost, AttestationInv, VerifiedWasMatched
<1>6. CASE UNCHANGED attestVars
  BY <1>6 DEF attestVars, AttestationInv, VerifiedWasMatched
<1> QED
  BY <1>1, <1>2, <1>3, <1>4, <1>5, <1>6 DEF AttestationRequest

(* A record is shown as verified only while the measurements it holds are  *)
(* those a verification accepted: create_attestation and                   *)
(* verify_attestation of backend/attestation.py.                           *)
THEOREM VerifiedRecordsWereMatched == ServicesSpec => []VerifiedWasMatched
<1>1. ServicesInit => AttestationInv
  BY AttestationInvInit DEF ServicesInit
<1>2. AttestationInv /\ [ServicesNext]_servicesVars => AttestationInv'
  BY AttestationSteps, AttestationInvStep
<1>3. AttestationInv => VerifiedWasMatched
  BY DEF AttestationInv
<1> QED
  BY <1>1, <1>2, <1>3, PTL DEF ServicesSpec

-----------------------------------------------------------------------------
(* The chain of events. *)

Event == [rmpeHash : Nat, previousHash : Nat]

LEMMA LastOfFacts ==
    ASSUME NEW S, NEW s \in Seq(S), NEW n \in Nat \ {0}
    PROVE  /\ LastOf(s, n) \in Seq(S)
           /\ Len(LastOf(s, n)) = IF Len(s) > n THEN n ELSE Len(s)
           /\ \A i \in 1..Len(LastOf(s, n)) :
                LastOf(s, n)[i] = s[i + (Len(s) - Len(LastOf(s, n)))]
<1>1. CASE Len(s) > n
  <2>. DEFINE a == Len(s) - n + 1
              t == SubSeq(s, a, Len(s))
  <2>1. a \in 1..Len(s) /\ Len(s) \in Nat /\ Len(s) - a + 1 = n
    BY <1>1
  <2>2. /\ t \in Seq(S) /\ Len(t) = n
        /\ \A i \in 1..n : t[i] = s[a + i - 1]
    BY <2>1
  <2>3. \A i \in 1..n : a + i - 1 = i + (Len(s) - n)
    BY <2>1
  <2>4. LastOf(s, n) = t
    BY <1>1 DEF LastOf
  <2>. HIDE DEF t
  <2> QED
    BY <1>1, <2>2, <2>3, <2>4
<1>2. CASE ~(Len(s) > n)
  BY <1>2 DEF LastOf
<1> QED
  BY <1>1, <1>2

\* The store is bounded too; without the bound a full one could not be told
\* from one that still grows.
EventsInv ==
    /\ recorded \in Nat
    /\ events \in Seq(Event)
    /\ Len(events) <= MAX_EVENTS
    /\ ChainLinks

LEMMA EventsInvInit == ProvenanceInit => EventsInv
BY ProvenanceAssumption DEF ProvenanceInit, EventsInv, ChainLinks

LEMMA EventsInvStep ==
    EventsInv /\ (EventRequest \/ ProvenanceLost \/ UNCHANGED eventVars) => EventsInv'
<1> SUFFICES ASSUME EventsInv, EventRequest \/ ProvenanceLost \/ UNCHANGED eventVars
             PROVE  EventsInv'
  OBVIOUS
<1>1. CASE EventRequest
  <2>. DEFINE previous == IF events = <<>> THEN 0 ELSE Last(events).rmpeHash
              new == [rmpeHash |-> recorded', previousHash |-> previous]
              longer == Append(events, new)
  <2>0. /\ recorded \in Nat /\ events \in Seq(Event) /\ MAX_EVENTS \in Nat \ {0}
        /\ Len(events) <= MAX_EVENTS
        /\ \A i \in 2..Len(events) : events[i].previousHash = events[i - 1].rmpeHash
        /\ events # <<>> => events[Len(events)].rmpeHash = recorded
    BY ProvenanceAssumption DEF EventsInv, ChainLinks, Last
  <2>1. recorded' = recorded + 1 /\ events' = LastOf(longer, MAX_EVENTS)
    BY <1>1 DEF EventRequest, RecordEvent
  <2>2. previous \in Nat /\ (events # <<>> => previous = events[Len(events)].rmpeHash)
    BY <2>0 DEF Last, Event
  <2>3. new \in Event /\ new.rmpeHash = recorded + 1 /\ new.previousHash = previous
    BY <2>0, <2>1, <2>2 DEF Event
  <2>. HIDE DEF previous, new
  <2>4. /\ longer \in Seq(Event) /\ Len(longer) = Len(events) + 1
        /\ \A i \in 1..Len(events) : longer[i] = events[i]
        /\ longer[Len(events) + 1] = new
    BY <2>0, <2>3
  <2>5. \A i \in 2..Len(longer) : longer[i].previousHash = longer[i - 1].rmpeHash
    <3>1. ASSUME NEW i \in 2..Len(longer)
          PROVE  longer[i].previousHash = longer[i - 1].rmpeHash
      <4>1. CASE i <= Len(events)
        BY <4>1, <2>0, <2>4
      <4>2. CASE i = Len(events) + 1
        <5>1. events # <<>> /\ i - 1 = Len(events) /\ Len(events) \in 1..Len(events)
          BY <4>2, <3>1, <2>0
        <5>2. longer[i - 1] = events[Len(events)] /\ longer[i] = new
          BY <4>2, <5>1, <2>4
        <5> QED
          BY <5>1, <5>2, <2>2, <2>3
      <4> QED
        BY <4>1, <4>2, <2>0, <2>4
    <3> QED
      BY <3>1
  <2>. HIDE DEF longer
  <2>6. /\ events' \in Seq(Event)
        /\ Len(events') = IF Len(longer) > MAX_EVENTS THEN MAX_EVENTS ELSE Len(longer)
        /\ \A i \in 1..Len(events') : events'[i] = longer[i + (Len(longer) - Len(events'))]
    BY <2>0, <2>1, <2>4, LastOfFacts
  <2>. DEFINE k == Len(longer) - Len(events')
  <2>7. k \in Nat /\ Len(events') \in Nat /\ Len(longer) \in Nat
        /\ Len(events') + k = Len(longer) /\ Len(events') > 0 /\ Len(events') <= MAX_EVENTS
    BY <2>0, <2>4, <2>6
  <2>8. \A i \in 1..Len(events') : events'[i] = longer[i + k]
    BY <2>6
  <2>. HIDE DEF k
  <2>9. \A i \in 2..Len(events') : events'[i].previousHash = events'[i - 1].rmpeHash
    <3>1. ASSUME NEW i \in 2..Len(events')
          PROVE  events'[i].previousHash = events'[i - 1].rmpeHash
      <4>1. /\ i \in 1..Len(events') /\ i - 1 \in 1..Len(events')
            /\ i + k \in 2..Len(longer) /\ (i - 1) + k = (i + k) - 1
        BY <2>7, <3>1
      <4> QED
        BY <4>1, <2>5, <2>8
    <3> QED
      BY <3>1
  <2>10. events'[Len(events')] = new
    BY <2>4, <2>7, <2>8
  <2> QED
    BY <2>0, <2>1, <2>3, <2>6, <2>7, <2>9, <2>10 DEF EventsInv, ChainLinks, Last
<1>2. CASE ProvenanceLost
  BY <1>2, ProvenanceAssumption DEF ProvenanceLost, EventsInv, ChainLinks
<1>3. CASE UNCHANGED eventVars
  BY <1>3 DEF eventVars, EventsInv, ChainLinks, Last
<1> QED
  BY <1>1, <1>2, <1>3

(* Every event that is kept names the one before it, and the last one is   *)
(* kept, whatever the size of the store: record_event of                   *)
(* backend/provenance_store.py.                                            *)
THEOREM EventsAreLinked ==
    ServicesSpec => [](ChainLinks /\ Len(events) <= MAX_EVENTS)
<1>1. ServicesInit => EventsInv
  BY EventsInvInit DEF ServicesInit
<1>2. EventsInv /\ [ServicesNext]_servicesVars => EventsInv'
  BY EventSteps, EventsInvStep
<1>3. EventsInv => ChainLinks /\ Len(events) <= MAX_EVENTS
  BY DEF EventsInv
<1> QED
  BY <1>1, <1>2, <1>3, PTL DEF ServicesSpec

-----------------------------------------------------------------------------
(* Requests for missing blocks. *)

\* A request was made for a height the chain had; since then it only grew.
BlocksInv ==
    /\ height \in Nat
    /\ read \in Int /\ -1 <= read /\ read <= height
    /\ \/ request = <<>>
       \/ \E local \in 0..height, peer \in PeerHeights : request = BlockRequest(local, peer)

LEMMA BlocksInvInit == ProvenanceInit => BlocksInv
BY DEF ProvenanceInit, BlocksInv

LEMMA BlocksInvStep ==
    BlocksInv /\ (BlocksRequest \/ ProvenanceLost \/ UNCHANGED blockVars) => BlocksInv'
<1> SUFFICES ASSUME BlocksInv, BlocksRequest \/ ProvenanceLost \/ UNCHANGED blockVars
             PROVE  BlocksInv'
  OBVIOUS
<1>0. /\ height \in Nat /\ read \in Int /\ -1 <= read /\ read <= height
      /\ \/ request = <<>>
         \/ \E local \in 0..height, peer \in PeerHeights : request = BlockRequest(local, peer)
  BY DEF BlocksInv
<1>1. CASE BlockArrives
  <2>1. height' = height + 1 /\ UNCHANGED <<read, request>>
    BY <1>1 DEF BlockArrives
  <2>2. 0..height \subseteq 0..height'
    BY <1>0, <2>1
  <2> QED
    BY <1>0, <2>1, <2>2 DEF BlocksInv
<1>2. CASE ReadHeight
  BY <1>0, <1>2 DEF ReadHeight, BlocksInv
<1>3. CASE RequestBlocks
  <2>1. read \in 0..height
    BY <1>0, <1>3 DEF RequestBlocks
  <2> QED
    BY <1>0, <1>3, <2>1 DEF RequestBlocks, BlocksInv
<1>4. CASE ProvenanceLost
  BY <1>0, <1>4 DEF ProvenanceLost, BlocksInv
<1>5. CASE UNCHANGED blockVars
  BY <1>5 DEF blockVars, BlocksInv
<1> QED
  BY <1>1, <1>2, <1>3, <1>4, <1>5 DEF BlocksRequest

\* What a request asks for, given a height the node has or had.
LEMMA BlockRequestFacts ==
    ASSUME NEW local \in Nat, NEW peer \in Int
    PROVE  /\ BlockRequest(local, peer).peer = peer
           /\ peer <= local => BlockRequest(local, peer).missing = {}
           /\ peer > local =>
                BlockRequest(local, peer) =
                  [missing |-> (local + 1)..Smaller(peer, local + MAX_BLOCK_REQUEST),
                   truncated |-> peer > Smaller(peer, local + MAX_BLOCK_REQUEST),
                   peer |-> peer]
<1>1. MAX_BLOCK_REQUEST \in Nat \ {0}
  BY ProvenanceAssumption
<1>2. /\ Larger(local + 1, 0) = local + 1
      /\ peer > local => Larger(peer, local) = peer
      /\ (local + 1) + MAX_BLOCK_REQUEST - 1 = local + MAX_BLOCK_REQUEST
  BY <1>1 DEF Larger
<1>3. CASE peer <= local
  <2>1. ~(peer > local)
    BY <1>3
  <2> QED
    BY <1>3, <2>1 DEF BlockRequest
<1>4. CASE peer > local
  <2>1. ~(peer <= local)
    BY <1>4
  <2> QED
    BY <1>2, <1>4, <2>1, Zenon DEF BlockRequest
<1> QED
  BY <1>3, <1>4

LEMMA BlocksInvWanted == BlocksInv => BlocksWanted
<1> SUFFICES ASSUME BlocksInv, request # <<>>
             PROVE  /\ Cardinality(request.missing) <= MAX_BLOCK_REQUEST
                    /\ \A b \in request.missing :
                         /\ b <= request.peer
                         /\ b > height + 1 => b - 1 \in request.missing
                    /\ request.missing # {} =>
                         (request.truncated <=> request.peer \notin request.missing)
  BY DEF BlocksWanted
<1>1. PICK local \in 0..height, peer \in PeerHeights : request = BlockRequest(local, peer)
  BY DEF BlocksInv
<1>2. /\ height \in Nat /\ local \in Nat /\ local <= height /\ peer \in Int
      /\ MAX_BLOCK_REQUEST \in Nat \ {0}
  BY ProvenanceAssumption DEF BlocksInv
<1>. DEFINE last == Smaller(peer, local + MAX_BLOCK_REQUEST)
<1>3. /\ request.peer = peer
      /\ peer <= local => request.missing = {}
      /\ peer > local =>
           request = [missing |-> (local + 1)..last, truncated |-> peer > last, peer |-> peer]
  BY <1>1, <1>2, BlockRequestFacts
<1>4. CASE peer <= local
  <2>1. Cardinality(request.missing) = 0
    BY <1>3, <1>4, FS_EmptySet
  <2> QED
    BY <1>2, <1>3, <1>4, <2>1
<1>5. CASE peer > local
  <2>1. last \in Int /\ last <= peer /\ last <= local + MAX_BLOCK_REQUEST /\ last > local
    BY <1>2, <1>5 DEF Smaller
  <2>. HIDE DEF last
  <2>a. request = [missing |-> (local + 1)..last, truncated |-> peer > last, peer |-> peer]
    BY <1>3, <1>5
  <2>b. request.missing = (local + 1)..last /\ request.truncated = (peer > last)
    BY <2>a
  <2>0. request.missing = (local + 1)..last /\ (request.truncated <=> peer > last)
    BY <2>b
  <2>2. Cardinality((local + 1)..last) <= MAX_BLOCK_REQUEST
    BY <1>2, <2>1, FS_Interval
  <2> QED
    BY <1>2, <1>3, <1>5, <2>0, <2>1, <2>2
<1> QED
  BY <1>2, <1>4, <1>5

(* A request for blocks never has a gap, never exceeds the limit or what   *)
(* the peer claims, and says when it is cut, for any limit and any heights *)
(* a peer may claim, though the chain grows while it is made:              *)
(* create_rnpe2_request of backend/rmp.py and its route.                   *)
THEOREM RequestsAreWanted == ServicesSpec => []BlocksWanted
<1>1. ServicesInit => BlocksInv
  BY BlocksInvInit DEF ServicesInit
<1>2. BlocksInv /\ [ServicesNext]_servicesVars => BlocksInv'
  BY BlocksSteps, BlocksInvStep
<1> QED
  BY <1>1, <1>2, BlocksInvWanted, PTL DEF ServicesSpec

-----------------------------------------------------------------------------
(* Merkle proofs.  The tree, the way of a leaf and the climb are recursive *)
(* functions; that each exists, and what it computes, is found by          *)
(* induction over the naturals.                                            *)

LEMMA SetInduction ==
    ASSUME NEW S, 0 \in S, \A n \in Nat : n \in S => n + 1 \in S
    PROVE  Nat \subseteq S
<1> SUFFICES ASSUME NEW x \in Nat, x \notin S PROVE FALSE
  OBVIOUS
<1>. DEFINE T == Nat \ S
<1>1. T \subseteq Nat /\ T # {}
  OBVIOUS
<1>2. PICK t \in T : \A s \in T : ~ (<<s, t>> \in OpToRel(<, Nat))
  BY <1>1, NatLessThanWellFounded, WFMin, Zenon
<1>3. OpToRel(<, Nat) = {ss \in Nat \X Nat : ss[1] < ss[2]}
  BY Zenon DEF OpToRel
<1>4. t \in Nat /\ t \notin S
  OBVIOUS
<1>5. t # 0
  BY <1>4
<1>6. t - 1 \in Nat /\ (t - 1) + 1 = t
  BY <1>4, <1>5
<1>7. t - 1 \in T
  BY <1>4, <1>6
<1>8. <<t - 1, t>> \in {ss \in Nat \X Nat : ss[1] < ss[2]}
  BY <1>4, <1>6
<1> QED
  BY <1>2, <1>3, <1>7, <1>8

\* A recursion over 0..m exists if one over 0..k can always be continued.
IsLevels(g, state, m) ==
    g = [d \in 0..m |->
            IF d = 0 THEN [i \in DOMAIN state |-> LeafHash(state[i])]
            ELSE IF Len(g[d - 1]) > 1 THEN Above(g[d - 1]) ELSE g[d - 1]]

IsCursors(g, i, m) == g = [d \in 0..m |-> IF d = 0 THEN i - 1 ELSE g[d - 1] \div 2]

IsClimb(g, target, m) ==
    g = [d \in 0..m |->
            IF d = 0 THEN LeafHash(target.leaf)
            ELSE IF target.proof[d].position = "left"
                 THEN HashPair(target.proof[d].hash, g[d - 1])
                 ELSE HashPair(g[d - 1], target.proof[d].hash)]

\* A function over 0..k, continued.
Continues(h, g, k, next) ==
    /\ h = [d \in 0..(k + 1) |-> h[d]]
    /\ h[k + 1] = next
    /\ \A d \in 0..k : h[d] = g[d]

LEMMA Continued ==
    ASSUME NEW k \in Nat, NEW g, NEW next
    PROVE  \E h : Continues(h, g, k, next)
<1>. DEFINE h == [d \in 0..(k + 1) |-> IF d = k + 1 THEN next ELSE g[d]]
<1>1. Continues(h, g, k, next)
  BY DEF Continues
<1> QED
  BY <1>1

LEMMA LevelsExist ==
    ASSUME NEW state, NEW m \in Nat
    PROVE  \E g : IsLevels(g, state, m)
<1>. DEFINE S == {k \in Nat : \E g : IsLevels(g, state, k)}
<1>1. 0 \in S
  <2>1. IsLevels([d \in {0} |-> [i \in DOMAIN state |-> LeafHash(state[i])]], state, 0)
    <3>1. 0..0 = {0}
      OBVIOUS
    <3> QED
      BY <3>1, Zenon DEF IsLevels
  <2> QED
    BY <2>1
<1>2. ASSUME NEW k \in Nat, k \in S PROVE k + 1 \in S
  <2>1. PICK g : IsLevels(g, state, k)
    BY <1>2
  <2>2. \A d \in 0..k : g[d] = IF d = 0 THEN [i \in DOMAIN state |-> LeafHash(state[i])]
                              ELSE IF Len(g[d - 1]) > 1 THEN Above(g[d - 1]) ELSE g[d - 1]
    BY <2>1 DEF IsLevels
  <2>. DEFINE next == IF Len(g[k]) > 1 THEN Above(g[k]) ELSE g[k]
  <2>3. PICK h : Continues(h, g, k, next)
    BY Continued
  <2>. HIDE DEF next
  <2>4. h[k + 1] = next /\ \A d \in 0..k : h[d] = g[d]
    BY <2>3, Zenon DEF Continues
  <2>5. ASSUME NEW d \in 0..(k + 1)
        PROVE  h[d] = IF d = 0 THEN [i \in DOMAIN state |-> LeafHash(state[i])]
                      ELSE IF Len(h[d - 1]) > 1 THEN Above(h[d - 1]) ELSE h[d - 1]
    <3>1. CASE d = k + 1
      <4>1. d # 0 /\ h[d] = next /\ h[d - 1] = g[k]
        BY <2>4, <3>1
      <4> QED
        BY <3>1, <4>1 DEF next
    <3>2. CASE d # k + 1
      <4>1. d \in 0..k /\ h[d] = g[d] /\ (d # 0 => h[d - 1] = g[d - 1])
        BY <2>4, <3>2
      <4> QED
        BY <2>2, <4>1
    <3> QED
      BY <3>1, <3>2
  <2>6. IsLevels(h, state, k + 1)
    BY <2>3, <2>5, Zenon DEF IsLevels, Continues
  <2> QED
    BY <2>6
<1>. HIDE DEF S
<1>3. Nat \subseteq S
  BY <1>1, <1>2, SetInduction
<1> QED
  BY <1>3 DEF S

LEMMA CursorsExist ==
    ASSUME NEW i, NEW m \in Nat
    PROVE  \E g : IsCursors(g, i, m)
<1>. DEFINE S == {k \in Nat : \E g : IsCursors(g, i, k)}
<1>1. 0 \in S
  <2>1. IsCursors([d \in {0} |-> i - 1], i, 0)
    <3>1. 0..0 = {0}
      OBVIOUS
    <3> QED
      BY <3>1, Zenon DEF IsCursors
  <2> QED
    BY <2>1
<1>2. ASSUME NEW k \in Nat, k \in S PROVE k + 1 \in S
  <2>1. PICK g : IsCursors(g, i, k)
    BY <1>2
  <2>2. \A d \in 0..k : g[d] = IF d = 0 THEN i - 1
                              ELSE g[d - 1] \div 2
    BY <2>1 DEF IsCursors
  <2>. DEFINE next == g[k] \div 2
  <2>3. PICK h : Continues(h, g, k, next)
    BY Continued
  <2>. HIDE DEF next
  <2>4. h[k + 1] = next /\ \A d \in 0..k : h[d] = g[d]
    BY <2>3, Zenon DEF Continues
  <2>5. ASSUME NEW d \in 0..(k + 1)
        PROVE  h[d] = IF d = 0 THEN i - 1
                      ELSE h[d - 1] \div 2
    <3>1. CASE d = k + 1
      <4>1. d # 0 /\ h[d] = next /\ h[d - 1] = g[k]
        BY <2>4, <3>1
      <4> QED
        BY <3>1, <4>1 DEF next
    <3>2. CASE d # k + 1
      <4>1. d \in 0..k /\ h[d] = g[d] /\ (d # 0 => h[d - 1] = g[d - 1])
        BY <2>4, <3>2
      <4> QED
        BY <2>2, <4>1
    <3> QED
      BY <3>1, <3>2
  <2>6. IsCursors(h, i, k + 1)
    BY <2>3, <2>5, Zenon DEF IsCursors, Continues
  <2> QED
    BY <2>6
<1>. HIDE DEF S
<1>3. Nat \subseteq S
  BY <1>1, <1>2, SetInduction
<1> QED
  BY <1>3 DEF S

LEMMA ClimbExists ==
    ASSUME NEW target, NEW m \in Nat
    PROVE  \E g : IsClimb(g, target, m)
<1>. DEFINE S == {k \in Nat : \E g : IsClimb(g, target, k)}
<1>1. 0 \in S
  <2>1. IsClimb([d \in {0} |-> LeafHash(target.leaf)], target, 0)
    <3>1. 0..0 = {0}
      OBVIOUS
    <3> QED
      BY <3>1, Zenon DEF IsClimb
  <2> QED
    BY <2>1
<1>2. ASSUME NEW k \in Nat, k \in S PROVE k + 1 \in S
  <2>1. PICK g : IsClimb(g, target, k)
    BY <1>2
  <2>2. \A d \in 0..k : g[d] = IF d = 0 THEN LeafHash(target.leaf)
                              ELSE IF target.proof[d].position = "left"
                                   THEN HashPair(target.proof[d].hash, g[d - 1])
                                   ELSE HashPair(g[d - 1], target.proof[d].hash)
    BY <2>1 DEF IsClimb
  <2>. DEFINE next == IF target.proof[k + 1].position = "left"
                            THEN HashPair(target.proof[k + 1].hash, g[k])
                            ELSE HashPair(g[k], target.proof[k + 1].hash)
  <2>3. PICK h : Continues(h, g, k, next)
    BY Continued
  <2>. HIDE DEF next
  <2>4. h[k + 1] = next /\ \A d \in 0..k : h[d] = g[d]
    BY <2>3, Zenon DEF Continues
  <2>5. ASSUME NEW d \in 0..(k + 1)
        PROVE  h[d] = IF d = 0 THEN LeafHash(target.leaf)
                      ELSE IF target.proof[d].position = "left"
                           THEN HashPair(target.proof[d].hash, h[d - 1])
                           ELSE HashPair(h[d - 1], target.proof[d].hash)
    <3>1. CASE d = k + 1
      <4>1. d # 0 /\ h[d] = next /\ h[d - 1] = g[k]
        BY <2>4, <3>1
      <4> QED
        BY <3>1, <4>1 DEF next
    <3>2. CASE d # k + 1
      <4>1. d \in 0..k /\ h[d] = g[d] /\ (d # 0 => h[d - 1] = g[d - 1])
        BY <2>4, <3>2
      <4> QED
        BY <2>2, <4>1
    <3> QED
      BY <3>1, <3>2
  <2>6. IsClimb(h, target, k + 1)
    BY <2>3, <2>5, Zenon DEF IsClimb, Continues
  <2> QED
    BY <2>6
<1>. HIDE DEF S
<1>3. Nat \subseteq S
  BY <1>1, <1>2, SetInduction
<1> QED
  BY <1>3 DEF S

LEMMA LevelsAre ==
    ASSUME NEW state, Len(state) \in Nat
    PROVE  IsLevels(Levels(state), state, Len(state))
<1>1. \E g : IsLevels(g, state, Len(state))
  BY LevelsExist
<1>2. Levels(state) = CHOOSE g : IsLevels(g, state, Len(state))
  BY DEF Levels, IsLevels
<1> QED
  BY <1>1, <1>2, Zenon

LEMMA CursorsAre ==
    ASSUME NEW i, NEW n \in Nat
    PROVE  IsCursors(Cursors(i, n), i, n)
<1>1. \E g : IsCursors(g, i, n)
  BY CursorsExist
<1>2. Cursors(i, n) = CHOOSE g : IsCursors(g, i, n)
  BY DEF Cursors, IsCursors
<1> QED
  BY <1>1, <1>2, Zenon

LEMMA ClimbIs ==
    ASSUME NEW target, Len(target.proof) \in Nat
    PROVE  \E g : /\ IsClimb(g, target, Len(target.proof))
                  /\ Climb(target) = g[Len(target.proof)]
<1>. DEFINE g == CHOOSE f : IsClimb(f, target, Len(target.proof))
<1>1. IsClimb(g, target, Len(target.proof))
  BY ClimbExists, Zenon
<1>2. Climb(target) = g[Len(target.proof)]
  BY DEF Climb, IsClimb
<1> QED
  BY <1>1, <1>2

LEMMA HashesDiffer ==
    /\ \A l, k : LeafHash(l) = LeafHash(k) => l = k
    /\ \A a, b, c, d : HashPair(a, b) = HashPair(c, d) => a = c /\ b = d
    /\ \A l, a, b : LeafHash(l) # HashPair(a, b)
    /\ \A l : LeafHash(l) # EmptyRoot
    /\ \A a, b : HashPair(a, b) # EmptyRoot
BY DEF LeafHash, HashPair, EmptyRoot

LEMMA AboveFacts ==
    ASSUME NEW level, NEW n \in Nat \ {0}, Len(level) = n
    PROVE  /\ Len(Above(level)) = (n + 1) \div 2
           /\ (n + 1) \div 2 \in Nat \ {0}
           /\ n > 1 => (n + 1) \div 2 <= n - 1
           /\ \A i \in 1..((n + 1) \div 2) :
                /\ 2 * i - 1 \in 1..n
                /\ 2 * i <= n => 2 * i \in 1..n
                /\ Above(level)[i] = HashPair(level[2 * i - 1],
                                              level[IF 2 * i <= n THEN 2 * i ELSE 2 * i - 1])
<1>1. PICK m : m = (n + 1) \div 2
  OBVIOUS
<1>2. m \in Nat \ {0} /\ (n > 1 => m <= n - 1) /\ 2 * m <= n + 1
  BY <1>1
<1>3. Above(level) = [i \in 1..m |-> HashPair(level[2 * i - 1],
                                              level[IF 2 * i <= n THEN 2 * i ELSE 2 * i - 1])]
  BY <1>1 DEF Above
<1>4. Len(Above(level)) = m
  BY <1>2, <1>3
<1>5. \A i \in 1..m : 2 * i - 1 \in 1..n /\ (2 * i <= n => 2 * i \in 1..n)
  BY <1>2
<1> QED
  BY <1>1, <1>2, <1>3, <1>4, <1>5

\* Each level is made from the one below, until one hash is left.
LEMMA LevelStep ==
    ASSUME NEW state, Len(state) \in Nat
    PROVE  /\ Levels(state)[0] = [i \in DOMAIN state |-> LeafHash(state[i])]
           /\ \A d \in 0..(Len(state) - 1) :
                Levels(state)[d + 1] = IF Len(Levels(state)[d]) > 1 THEN Above(Levels(state)[d])
                                       ELSE Levels(state)[d]
<1>. DEFINE L == Levels(state)
            n == Len(state)
<1>1. IsLevels(L, state, n)
  BY LevelsAre
<1>. HIDE DEF L
<1>2. \A d \in 0..n : L[d] = IF d = 0 THEN [i \in DOMAIN state |-> LeafHash(state[i])]
                             ELSE IF Len(L[d - 1]) > 1 THEN Above(L[d - 1]) ELSE L[d - 1]
  BY <1>1 DEF IsLevels
<1>3. L[0] = [i \in DOMAIN state |-> LeafHash(state[i])]
  BY <1>2
<1>4. ASSUME NEW d \in 0..(n - 1)
      PROVE  L[d + 1] = IF Len(L[d]) > 1 THEN Above(L[d]) ELSE L[d]
  <2>1. d + 1 \in 0..n /\ d + 1 # 0 /\ (d + 1) - 1 = d
    OBVIOUS
  <2> QED
    BY <1>2, <2>1
<1> QED
  BY <1>3, <1>4 DEF L

LEMMA LevelSizes ==
    ASSUME NEW S, NEW state \in Seq(S), state # <<>>
    PROVE  /\ Len(state) \in Nat \ {0}
           /\ Len(Levels(state)[0]) = Len(state)
           /\ \A i \in 1..Len(state) : Levels(state)[0][i] = LeafHash(state[i])
           /\ \A d \in 0..Len(state) : Len(Levels(state)[d]) \in Nat \ {0}
           /\ Len(Levels(state)[Len(state)]) = 1
<1>. DEFINE L == Levels(state)
            n == Len(state)
<1>1. n \in Nat \ {0} /\ DOMAIN state = 1..n
  OBVIOUS
<1>2. /\ L[0] = [i \in 1..n |-> LeafHash(state[i])]
      /\ \A d \in 0..(n - 1) : L[d + 1] = IF Len(L[d]) > 1 THEN Above(L[d]) ELSE L[d]
  BY <1>1, LevelStep
<1>. HIDE DEF L, n
<1>3. Len(L[0]) = n /\ \A i \in 1..n : L[0][i] = LeafHash(state[i])
  BY <1>1, <1>2
<1>4. PICK size : size = [d \in 0..n |-> Len(L[d])]
  OBVIOUS
<1>5. \A d \in 0..n : size[d] = Len(L[d])
  BY <1>4
<1>6. ASSUME NEW d \in 0..(n - 1), size[d] \in Nat \ {0}
      PROVE  /\ size[d + 1] \in Nat \ {0}
             /\ size[d] > 1 => size[d + 1] <= size[d] - 1
             /\ size[d] = 1 => size[d + 1] = 1
  <2>1. d \in 0..n /\ d + 1 \in 0..n
    BY <1>1
  <2>2. Len(L[d]) = size[d] /\ Len(L[d + 1]) = size[d + 1]
    BY <1>5, <2>1
  <2>3. CASE size[d] > 1
    <3>1. L[d + 1] = Above(L[d])
      BY <1>2, <2>2, <2>3
    <3>2. /\ Len(Above(L[d])) = (size[d] + 1) \div 2 /\ (size[d] + 1) \div 2 \in Nat \ {0}
          /\ (size[d] + 1) \div 2 <= size[d] - 1
      BY <1>6, <2>2, <2>3, AboveFacts
    <3> QED
      BY <2>2, <2>3, <3>1, <3>2
  <2>4. CASE ~(size[d] > 1)
    <3>1. L[d + 1] = L[d]
      BY <1>2, <2>2, <2>4
    <3> QED
      BY <1>6, <2>2, <2>4, <3>1
  <2> QED
    BY <2>3, <2>4
<1>. DEFINE T == {d \in Nat : d <= n => /\ size[d] \in Nat \ {0}
                                        /\ size[d] = 1 \/ size[d] <= n - d}
<1>7. 0 \in T
  BY <1>1, <1>3, <1>5
<1>8. ASSUME NEW d \in Nat, d \in T PROVE d + 1 \in T
  <2> SUFFICES ASSUME d + 1 <= n
               PROVE  size[d + 1] \in Nat \ {0} /\ (size[d + 1] = 1 \/ size[d + 1] <= n - (d + 1))
    OBVIOUS
  <2>1. size[d] \in Nat \ {0} /\ (size[d] = 1 \/ size[d] <= n - d) /\ d \in 0..(n - 1)
    BY <1>1, <1>8
  <2>2. /\ size[d + 1] \in Nat \ {0}
        /\ size[d] > 1 => size[d + 1] <= size[d] - 1
        /\ size[d] = 1 => size[d + 1] = 1
    BY <1>6, <2>1
  <2> QED
    BY <1>1, <2>1, <2>2
<1>. HIDE DEF T
<1>9. Nat \subseteq T
  BY <1>7, <1>8, SetInduction
<1>10. ASSUME NEW d \in 0..n
       PROVE  size[d] \in Nat \ {0} /\ (size[d] = 1 \/ size[d] <= n - d)
  <2>1. d \in Nat /\ d \in T /\ d <= n
    BY <1>1, <1>9
  <2> QED
    BY <2>1 DEF T
<1>11. \A d \in 0..n : Len(L[d]) \in Nat \ {0}
  BY <1>5, <1>10
<1>12. n \in 0..n /\ size[n] = 1
  BY <1>1, <1>10
<1>13. Len(L[n]) = 1
  BY <1>5, <1>12
<1> QED
  BY <1>1, <1>3, <1>11, <1>13 DEF L, n

LEMMA DepthFacts ==
    ASSUME NEW S, NEW state \in Seq(S), state # <<>>
    PROVE  /\ Depth(state) \in 0..Len(state)
           /\ Len(Levels(state)[Depth(state)]) = 1
           /\ \A e \in 0..(Depth(state) - 1) : Len(Levels(state)[e]) > 1
<1>. DEFINE L == Levels(state)
            n == Len(state)
            Shrunk(d) == Len(L[d]) = 1 /\ \A e \in 0..(d - 1) : Len(L[e]) > 1
<1>1. /\ n \in Nat \ {0}
      /\ \A d \in 0..n : Len(L[d]) \in Nat \ {0}
      /\ Len(L[n]) = 1
  BY LevelSizes
<1>. HIDE DEF L, n
<1>2. \E d \in 0..n : Shrunk(d)
  <2> SUFFICES ASSUME ~ \E d \in 0..n : Shrunk(d) PROVE FALSE
    OBVIOUS
  <2>1. ASSUME NEW d \in 0..n, \A e \in 0..(d - 1) : Len(L[e]) > 1
        PROVE  Len(L[d]) > 1
    <3>1. Len(L[d]) # 1
      BY <2>1
    <3>2. PICK m \in Nat \ {0} : m = Len(L[d])
      BY <1>1
    <3>3. m # 1
      BY <3>1, <3>2, Zenon
    <3>4. m > 1
      BY <3>3
    <3> QED
      BY <3>2, <3>4, Zenon
  <2>. DEFINE T == {d \in Nat : d <= n => \A e \in 0..d : Len(L[e]) > 1}
  <2>2. 0 \in T
    <3>1. Len(L[0]) > 1
      BY <1>1, <2>1
    <3> QED
      BY <3>1
  <2>3. ASSUME NEW d \in Nat, d \in T PROVE d + 1 \in T
    <3> SUFFICES ASSUME d + 1 <= n PROVE \A e \in 0..(d + 1) : Len(L[e]) > 1
      OBVIOUS
    <3>1. \A e \in 0..((d + 1) - 1) : Len(L[e]) > 1
      BY <1>1, <2>3
    <3>2. d + 1 \in 0..n
      BY <1>1
    <3>3. Len(L[d + 1]) > 1
      BY <2>1, <3>1, <3>2
    <3> QED
      BY <3>1, <3>3
  <2>. HIDE DEF T
  <2>4. Nat \subseteq T
    BY <2>2, <2>3, SetInduction
  <2>5. n \in T /\ n \in 0..n
    BY <1>1, <2>4
  <2>6. Len(L[n]) > 1
    BY <2>5 DEF T
  <2> QED
    BY <1>1, <2>6
<1>3. Depth(state) = CHOOSE d \in 0..n : Shrunk(d)
  BY DEF Depth, L, n
<1>. HIDE DEF Shrunk
<1>4. Depth(state) \in 0..n /\ Shrunk(Depth(state))
  BY <1>2, <1>3
<1> QED
  BY <1>4 DEF Shrunk, L, n

\* The hashes of the tree of a state.
InTree(h, state) ==
    \E d \in 0..Len(state) : \E i \in 1..Len(Levels(state)[d]) : h = Levels(state)[d][i]

\* Each is that of a leaf, or is made from two others.
LEMMA MadeOfTree ==
    ASSUME NEW S, NEW state \in Seq(S), state # <<>>, NEW h, InTree(h, state)
    PROVE  \/ \E j \in 1..Len(state) : h = LeafHash(state[j])
           \/ \E a, b : h = HashPair(a, b) /\ InTree(a, state) /\ InTree(b, state)
<1>. DEFINE L == Levels(state)
            n == Len(state)
            FromTree(x) == \/ \E j \in 1..n : x = LeafHash(state[j])
                       \/ \E a, b : x = HashPair(a, b) /\ InTree(a, state) /\ InTree(b, state)
<1>1. /\ n \in Nat \ {0} /\ Len(L[0]) = n
      /\ \A i \in 1..n : L[0][i] = LeafHash(state[i])
      /\ \A d \in 0..n : Len(L[d]) \in Nat \ {0}
  BY LevelSizes
<1>2. \A d \in 0..(n - 1) : L[d + 1] = IF Len(L[d]) > 1 THEN Above(L[d]) ELSE L[d]
  BY <1>1, LevelStep
<1>3. \A x : InTree(x, state) <=> \E d \in 0..n : \E i \in 1..Len(L[d]) : x = L[d][i]
  BY DEF InTree
<1>. HIDE DEF L, n, FromTree
<1>. DEFINE T == {d \in Nat : d <= n => \A i \in 1..Len(L[d]) : FromTree(L[d][i])}
<1>4. 0 \in T
  BY <1>1 DEF FromTree
<1>5. ASSUME NEW d \in Nat, d \in T PROVE d + 1 \in T
  <2>0. d + 1 \in Nat
    OBVIOUS
  <2> SUFFICES ASSUME d + 1 <= n, NEW i \in 1..Len(L[d + 1]) PROVE FromTree(L[d + 1][i])
    BY <2>0
  <2>1. d \in 0..(n - 1) /\ d \in 0..n
    BY <1>1
  <2>2. PICK m \in Nat \ {0} : m = Len(L[d])
    BY <1>1, <2>1
  <2>3. CASE m > 1
    <3>1. L[d + 1] = Above(L[d])
      BY <1>2, <2>1, <2>2, <2>3
    <3>2. i \in 1..((m + 1) \div 2)
      BY <2>2, <3>1, AboveFacts
    <3>. DEFINE p == 2 * i - 1
                q == IF 2 * i <= m THEN 2 * i ELSE 2 * i - 1
    <3>3. L[d + 1][i] = HashPair(L[d][p], L[d][q]) /\ p \in 1..m /\ q \in 1..m
      BY <2>2, <3>1, <3>2, AboveFacts
    <3>. HIDE DEF p, q
    <3>4. InTree(L[d][p], state) /\ InTree(L[d][q], state)
      BY <1>3, <2>1, <2>2, <3>3
    <3> QED
      BY <3>3, <3>4 DEF FromTree
  <2>4. CASE ~(m > 1)
    <3>1. L[d + 1] = L[d]
      BY <1>2, <2>1, <2>2, <2>4
    <3>2. d <= n
      BY <2>1
    <3> QED
      BY <1>5, <3>1, <3>2
  <2> QED
    BY <2>3, <2>4
<1>. HIDE DEF T
<1>6. Nat \subseteq T
  BY <1>4, <1>5, SetInduction
<1>7. PICK d \in 0..n : \E i \in 1..Len(L[d]) : h = L[d][i]
  BY <1>3
<1>8. d \in T /\ d <= n
  BY <1>1, <1>6
<1>9. FromTree(h)
  BY <1>7, <1>8 DEF T
<1> QED
  BY <1>9 DEF FromTree, n

\* A climb that gets into the tree began at one of its leaves.
LEMMA ClimbsFromLeaf ==
    ASSUME NEW S, NEW state \in Seq(S), state # <<>>,
           NEW target, Len(target.proof) \in Nat, InTree(Climb(target), state)
    PROVE  \E j \in 1..Len(state) : target.leaf = state[j]
<1>. DEFINE m == Len(target.proof)
<1>1. PICK g : IsClimb(g, target, m) /\ Climb(target) = g[m]
  BY ClimbIs
<1>2. /\ m \in Nat
      /\ \A d \in 0..m :
           g[d] = IF d = 0 THEN LeafHash(target.leaf)
                  ELSE IF target.proof[d].position = "left"
                       THEN HashPair(target.proof[d].hash, g[d - 1])
                       ELSE HashPair(g[d - 1], target.proof[d].hash)
  BY <1>1 DEF IsClimb
<1>. HIDE DEF m
<1>. DEFINE T == {k \in Nat : k <= m => InTree(g[m - k], state)}
<1>3. 0 \in T
  <2>1. m - 0 = m
    BY <1>2
  <2> QED
    BY <1>1, <2>1
<1>4. ASSUME NEW k \in Nat, k \in T PROVE k + 1 \in T
  <2>0. k + 1 \in Nat
    OBVIOUS
  <2> SUFFICES ASSUME k + 1 <= m PROVE InTree(g[m - (k + 1)], state)
    BY <2>0
  <2>1. PICK d \in 0..m : d = m - k
    BY <1>2
  <2>2. d # 0 /\ d - 1 = m - (k + 1) /\ k <= m
    BY <1>2, <2>1
  <2>3. InTree(g[d], state)
    BY <1>4, <2>1, <2>2
  <2>4. \E x : g[d] = HashPair(x, g[d - 1]) \/ g[d] = HashPair(g[d - 1], x)
    BY <1>2, <2>2
  <2>5. \E a, b : g[d] = HashPair(a, b) /\ InTree(a, state) /\ InTree(b, state)
    BY <2>3, <2>4, MadeOfTree, HashesDiffer
  <2>6. InTree(g[d - 1], state)
    BY <2>4, <2>5, HashesDiffer
  <2> QED
    BY <2>2, <2>6
<1>. HIDE DEF T
<1>5. Nat \subseteq T
  BY <1>3, <1>4, SetInduction
<1>6. m \in T /\ m - m = 0
  BY <1>2, <1>5
<1>7. InTree(g[0], state)
  BY <1>2, <1>6 DEF T
<1>8. g[0] = LeafHash(target.leaf)
  BY <1>2
<1> QED
  BY <1>7, <1>8, MadeOfTree, HashesDiffer

\* A hash and its sibling make the hash above them.
LEMMA SiblingMakesAbove ==
    ASSUME NEW level, NEW n \in Nat \ {0}, Len(level) = n, NEW c \in 0..(n - 1)
    PROVE  /\ c \div 2 \in 0..(Len(Above(level)) - 1)
           /\ Above(level)[c \div 2 + 1] =
                IF Sibling(level, c) < c
                THEN HashPair(level[Sibling(level, c) + 1], level[c + 1])
                ELSE HashPair(level[c + 1], level[Sibling(level, c) + 1])
<1>1. PICK p : p = c \div 2 + 1
  OBVIOUS
<1>2. PICK q : q = IF 2 * p <= n THEN 2 * p ELSE 2 * p - 1
  OBVIOUS
<1>3. PICK s : s = Sibling(level, c)
  OBVIOUS
<1>4. c \in Nat /\ c < n /\ p \in Nat /\ c \div 2 = p - 1 /\ p \in 1..((n + 1) \div 2)
  BY <1>1
<1>5. Len(Above(level)) = (n + 1) \div 2 /\ (n + 1) \div 2 \in Nat
  BY AboveFacts
<1>6. Above(level)[p] = HashPair(level[2 * p - 1], level[q])
  BY <1>2, <1>4, AboveFacts
<1>7. CASE c % 2 = 1
  <2>1. s = c - 1
    BY <1>3, <1>7 DEF Sibling
  <2>2. 2 * p = c + 1 /\ q = c + 1 /\ 2 * p - 1 = s + 1 /\ s < c
    BY <1>1, <1>2, <1>4, <1>7, <2>1
  <2> QED
    BY <1>1, <1>3, <1>4, <1>5, <1>6, <2>2
<1>8. CASE c % 2 # 1
  <2>1. s = IF c + 1 < n THEN c + 1 ELSE c
    BY <1>3, <1>8 DEF Sibling
  <2>2. 2 * p - 1 = c + 1 /\ q = s + 1 /\ ~(s < c)
    BY <1>1, <1>2, <1>4, <1>8, <2>1
  <2> QED
    BY <1>1, <1>3, <1>4, <1>5, <1>6, <2>2
<1> QED
  BY <1>7, <1>8

\* A target as it is built climbs to the root.
LEMMA ClimbsToRoot ==
    ASSUME NEW S, NEW state \in Seq(S), state # <<>>, NEW i \in 1..Len(state),
           NEW target, target.leaf = state[i], target.proof = Siblings(state, i)
    PROVE  Climb(target) = Root(state)
<1>. DEFINE L == Levels(state)
            D == Depth(state)
            C == Cursors(i, D)
            n == Len(state)
<1>1. /\ n \in Nat \ {0} /\ D \in 0..n /\ Len(L[D]) = 1
      /\ \A d \in 0..(D - 1) : Len(L[d]) > 1
      /\ \A d \in 0..n : Len(L[d]) \in Nat \ {0}
      /\ Len(L[0]) = n
      /\ \A j \in 1..n : L[0][j] = LeafHash(state[j])
  BY LevelSizes, DepthFacts
<1>2. \A d \in 0..(n - 1) : L[d + 1] = IF Len(L[d]) > 1 THEN Above(L[d]) ELSE L[d]
  BY <1>1, LevelStep
<1>3. IsCursors(C, i, D)
  BY <1>1, CursorsAre
<1>4. target.proof = [d \in 1..D |->
                        [position |-> IF Sibling(L[d - 1], C[d - 1]) < C[d - 1]
                                      THEN "left" ELSE "right",
                         hash |-> L[d - 1][Sibling(L[d - 1], C[d - 1]) + 1]]]
  BY DEF Siblings
<1>5. Root(state) = L[D][1]
  BY DEF Root
<1>. HIDE DEF L, D, C, n
<1>6. \A d \in 0..D : C[d] = IF d = 0 THEN i - 1 ELSE C[d - 1] \div 2
  BY <1>3 DEF IsCursors
<1>7. Len(target.proof) = D
  BY <1>1, <1>4
<1>8. PICK g : IsClimb(g, target, D) /\ Climb(target) = g[D]
  BY <1>1, <1>7, ClimbIs
<1>9. \A d \in 0..D :
        g[d] = IF d = 0 THEN LeafHash(target.leaf)
               ELSE IF target.proof[d].position = "left"
                    THEN HashPair(target.proof[d].hash, g[d - 1])
                    ELSE HashPair(g[d - 1], target.proof[d].hash)
  BY <1>8 DEF IsClimb
<1>. DEFINE P(d) == C[d] \in 0..(Len(L[d]) - 1) /\ g[d] = L[d][C[d] + 1]
            T == {d \in Nat : d <= D => P(d)}
<1>10. 0 \in T
  <2>1. C[0] = i - 1 /\ g[0] = LeafHash(state[i]) /\ i \in 1..n
    BY <1>1, <1>6, <1>9 DEF n
  <2>2. C[0] + 1 = i
    BY <2>1
  <2> QED
    BY <1>1, <2>1, <2>2
<1>11. ASSUME NEW d \in Nat, d \in T PROVE d + 1 \in T
  <2>0. d + 1 \in Nat
    OBVIOUS
  <2> SUFFICES ASSUME d + 1 <= D PROVE P(d + 1)
    BY <2>0
  <2>1. /\ d \in 0..(D - 1) /\ d \in 0..(n - 1) /\ d \in 0..n
        /\ d + 1 \in 1..D /\ d + 1 \in 0..D /\ d + 1 # 0 /\ (d + 1) - 1 = d /\ d <= D
    BY <1>1
  <2>2. PICK m \in Nat \ {0} : m = Len(L[d])
    BY <1>1, <2>1
  <2>3. PICK c : c = C[d]
    OBVIOUS
  <2>4. c \in 0..(m - 1) /\ g[d] = L[d][c + 1]
    BY <1>11, <2>1, <2>2, <2>3
  <2>5. L[d + 1] = Above(L[d])
    BY <1>1, <1>2, <2>1
  <2>6. C[d + 1] = c \div 2
    BY <1>6, <2>1, <2>3
  <2>7. PICK s : s = Sibling(L[d], c)
    OBVIOUS
  <2>8. target.proof[d + 1] = [position |-> IF s < c THEN "left" ELSE "right",
                               hash |-> L[d][s + 1]]
    BY <1>4, <2>1, <2>3, <2>7
  <2>9. g[d + 1] = IF s < c THEN HashPair(L[d][s + 1], g[d]) ELSE HashPair(g[d], L[d][s + 1])
    <3>1. /\ target.proof[d + 1].position = IF s < c THEN "left" ELSE "right"
          /\ target.proof[d + 1].hash = L[d][s + 1]
      BY <2>8
    <3>2. g[d + 1] = IF target.proof[d + 1].position = "left"
                     THEN HashPair(target.proof[d + 1].hash, g[d])
                     ELSE HashPair(g[d], target.proof[d + 1].hash)
      BY <1>9, <2>1
    <3> QED
      BY <3>1, <3>2
  <2>10. /\ c \div 2 \in 0..(Len(L[d + 1]) - 1)
         /\ L[d + 1][c \div 2 + 1] = IF s < c THEN HashPair(L[d][s + 1], L[d][c + 1])
                                     ELSE HashPair(L[d][c + 1], L[d][s + 1])
    BY <2>2, <2>4, <2>5, <2>7, SiblingMakesAbove
  <2> QED
    BY <2>4, <2>6, <2>9, <2>10
<1>. HIDE DEF T
<1>12. Nat \subseteq T
  BY <1>10, <1>11, SetInduction
<1>13. P(D)
  <2>1. D \in Nat /\ D \in T
    BY <1>1, <1>12
  <2> QED
    BY <2>1 DEF T
<1>14. C[D] = 0
  BY <1>1, <1>13
<1> QED
  BY <1>5, <1>8, <1>13, <1>14


\* Nothing climbs to the root of the empty state.
LEMMA ClimbIsAHash ==
    ASSUME NEW target, Len(target.proof) \in Nat
    PROVE  Climb(target) # EmptyRoot
<1>. DEFINE m == Len(target.proof)
<1>1. PICK g : IsClimb(g, target, m) /\ Climb(target) = g[m]
  BY ClimbIs
<1>2. m \in 0..m
  OBVIOUS
<1>3. g[m] = IF m = 0 THEN LeafHash(target.leaf)
             ELSE IF target.proof[m].position = "left"
                  THEN HashPair(target.proof[m].hash, g[m - 1])
                  ELSE HashPair(g[m - 1], target.proof[m].hash)
  BY <1>1, <1>2 DEF IsClimb
<1> QED
  BY <1>1, <1>3, HashesDiffer

LEMMA RootIsInTree ==
    ASSUME NEW S, NEW state \in Seq(S), state # <<>>
    PROVE  InTree(Root(state), state)
<1>1. Root(state) = Levels(state)[Depth(state)][1]
  BY DEF Root
<1>2. Depth(state) \in 0..Len(state) /\ Len(Levels(state)[Depth(state)]) = 1
  BY DepthFacts
<1>3. 1 \in 1..1
  OBVIOUS
<1> QED
  BY <1>1, <1>2, <1>3, Zenon DEF InTree

\* A verified proof names the root of a state only to show its leaves.
LEMMA RootShowsLeaves ==
    ASSUME NEW S, NEW state \in Seq(S),
           NEW target, Len(target.proof) \in Nat, Climb(target) = Root(state)
    PROVE  state # <<>> /\ target.leaf \in Range(state)
<1>1. state # <<>>
  BY ClimbIsAHash DEF Root
<1>2. \E j \in 1..Len(state) : target.leaf = state[j]
  BY <1>1, RootIsInTree, ClimbsFromLeaf
<1>3. DOMAIN state = 1..Len(state)
  OBVIOUS
<1> QED
  BY <1>1, <1>2, <1>3 DEF Range

\* The target for a leaf, as build_rmp_proof makes it.
TargetOf(state, i) ==
    [leaf |-> state[i], leafHash |-> LeafHash(state[i]), proof |-> Siblings(state, i)]

LEMMA BuiltTarget ==
    ASSUME NEW S, NEW state \in Seq(S), NEW i \in DOMAIN state
    PROVE  /\ TargetOf(state, i).leaf = state[i]
           /\ TargetOf(state, i).leafHash = LeafHash(state[i])
           /\ TargetOf(state, i).proof \in Seq(Range(Siblings(state, i)))
           /\ Len(TargetOf(state, i).proof) \in Nat
           /\ Climb(TargetOf(state, i)) = Root(state)
<1>1. /\ TargetOf(state, i).leaf = state[i]
      /\ TargetOf(state, i).leafHash = LeafHash(state[i])
      /\ TargetOf(state, i).proof = Siblings(state, i)
  BY DEF TargetOf
<1>2. i \in 1..Len(state) /\ state # <<>>
  OBVIOUS
<1>3. Depth(state) \in Nat
  BY <1>2, LevelSizes, DepthFacts
<1>4. Siblings(state, i) = [d \in 1..Depth(state) |-> Siblings(state, i)[d]]
  BY Zenon DEF Siblings
<1>. DEFINE p == Siblings(state, i)
<1>. HIDE DEF p
<1>5. p = [d \in 1..Depth(state) |-> p[d]] /\ \A d \in 1..Depth(state) : p[d] \in Range(p)
  <2>1. p = [d \in 1..Depth(state) |-> p[d]]
    BY <1>4 DEF p
  <2>2. DOMAIN p = 1..Depth(state)
    BY <2>1
  <2> QED
    BY <2>1, <2>2 DEF Range
<1>6. p \in Seq(Range(p)) /\ Len(p) \in Nat
  BY <1>3, <1>5
<1>7. Climb(TargetOf(state, i)) = Root(state)
  BY <1>1, <1>2, ClimbsToRoot
<1> QED
  BY <1>1, <1>6, <1>7 DEF p

LEMMA BuildProofIs ==
    ASSUME NEW state, NEW paths
    PROVE  /\ BuildProof(state, paths).root = Root(state)
           /\ \A t \in BuildProof(state, paths).targets :
                \E i \in DOMAIN state : t = TargetOf(state, i)
           /\ paths = {} => BuildProof(state, paths).targets =
                              {TargetOf(state, i) : i \in DOMAIN state}
<1>. DEFINE Asked == {j \in DOMAIN state : paths = {} \/ state[j][1] \in paths}
<1>1. BuildProof(state, paths) =
        [root |-> Root(state), targets |-> {TargetOf(state, i) : i \in Asked}]
  BY Zenon DEF BuildProof, TargetOf
<1>2. /\ BuildProof(state, paths).root = Root(state)
      /\ BuildProof(state, paths).targets = {TargetOf(state, i) : i \in Asked}
  BY <1>1
<1>3. Asked \subseteq DOMAIN state /\ (paths = {} => Asked = DOMAIN state)
  OBVIOUS
<1>. HIDE DEF Asked
<1> QED
  BY <1>2, <1>3

\* What came from the peer is what it built for the state it had, or names the
\* root of that state still.
ConvinceInv ==
    /\ leaves \in Seq(Range(leaves))
    /\ other \in Seq(Range(other))
    /\ received # <<>> =>
         \/ ~garbled /\ \E paths : received = BuildProof(other, paths)
         \/ /\ garbled
            /\ received.root = Root(other)
            /\ \A t \in received.targets : Len(t.proof) \in Nat

LEMMA ConvinceInvInit == ProvenanceInit => ConvinceInv
BY ProvenanceAssumption DEF ProvenanceInit, ConvinceInv

LEMMA GarbleChanges ==
    ASSUME ConvinceInv, Garble
    PROVE  /\ garbled' /\ received # <<>> /\ ~garbled
           /\ UNCHANGED <<leaves, other>>
           /\ \E t \in received.targets : \E changed :
                /\ received' = [received EXCEPT !.targets = (@ \ {t}) \cup {changed}]
                /\ \/ changed.proof = t.proof
                   \/ \E d \in 0..(Len(t.proof) - 1) : changed.proof = SubSeq(t.proof, 1, d)
                   \/ \E sibling : changed.proof = Append(t.proof, sibling)
<1>1. garbled' /\ received # <<>> /\ ~garbled /\ UNCHANGED <<leaves, other>>
  BY DEF Garble
<1>2. PICK t \in received.targets :
        \E changed \in
              {[t EXCEPT !.leaf = l] : l \in Range(leaves)}
              \cup {[leaf |-> l, leafHash |-> LeafHash(l), proof |-> t.proof] : l \in Range(leaves)}
              \cup {[t EXCEPT !.proof = SubSeq(@, 1, d)] : d \in 0..(Len(t.proof) - 1)}
              \cup {[t EXCEPT !.proof = Append(@, sibling)] :
                      sibling \in [position : {"left", "right"}, hash : {t.leafHash}]} :
          received' = [received EXCEPT !.targets = (@ \ {t}) \cup {changed}]
  BY Zenon DEF Garble
<1>3. PICK changed \in
              {[t EXCEPT !.leaf = l] : l \in Range(leaves)}
              \cup {[leaf |-> l, leafHash |-> LeafHash(l), proof |-> t.proof] : l \in Range(leaves)}
              \cup {[t EXCEPT !.proof = SubSeq(@, 1, d)] : d \in 0..(Len(t.proof) - 1)}
              \cup {[t EXCEPT !.proof = Append(@, sibling)] :
                      sibling \in [position : {"left", "right"}, hash : {t.leafHash}]} :
          received' = [received EXCEPT !.targets = (@ \ {t}) \cup {changed}]
  BY <1>2
<1>4. DOMAIN t = {"leaf", "leafHash", "proof"}
  <2>1. PICK paths : received = BuildProof(other, paths)
    BY <1>1 DEF ConvinceInv
  <2>2. PICK i \in DOMAIN other : t = TargetOf(other, i)
    BY <2>1, BuildProofIs
  <2> QED
    BY <2>2 DEF TargetOf
<1>5. ASSUME NEW l, changed = [t EXCEPT !.leaf = l]
      PROVE  changed.proof = t.proof
  BY <1>4, <1>5
<1>6. ASSUME NEW l, changed = [leaf |-> l, leafHash |-> LeafHash(l), proof |-> t.proof]
      PROVE  changed.proof = t.proof
  BY <1>6
<1>7. ASSUME NEW p, changed = [t EXCEPT !.proof = p]
      PROVE  changed.proof = p
  BY <1>4, <1>7
<1>8. \/ \E l : changed = [t EXCEPT !.leaf = l]
      \/ \E l : changed = [leaf |-> l, leafHash |-> LeafHash(l), proof |-> t.proof]
      \/ \E d \in 0..(Len(t.proof) - 1) : changed = [t EXCEPT !.proof = SubSeq(t.proof, 1, d)]
      \/ \E sibling : changed = [t EXCEPT !.proof = Append(t.proof, sibling)]
  BY <1>3, Zenon
<1>9. \/ changed.proof = t.proof
      \/ \E d \in 0..(Len(t.proof) - 1) : changed.proof = SubSeq(t.proof, 1, d)
      \/ \E sibling : changed.proof = Append(t.proof, sibling)
  BY <1>5, <1>6, <1>7, <1>8, Zenon
<1> QED
  BY <1>1, <1>3, <1>9

LEMMA ConvinceInvStep ==
    ConvinceInv /\ (ProofOfStateRequest \/ UNCHANGED proofOfStateVars) => ConvinceInv'
<1> SUFFICES ASSUME ConvinceInv, ProofOfStateRequest \/ UNCHANGED proofOfStateVars
             PROVE  ConvinceInv'
  OBVIOUS
<1>1. CASE StateChanges
  BY <1>1, ProvenanceAssumption DEF StateChanges, ConvinceInv
<1>2. CASE PeerSends
  <2>1. /\ other' \in States /\ ~garbled' /\ UNCHANGED leaves
        /\ \E paths : received' = BuildProof(other', paths)
    BY <1>2, Zenon DEF PeerSends
  <2> QED
    BY <2>1, ProvenanceAssumption DEF ConvinceInv
<1>4. CASE UNCHANGED proofOfStateVars
  BY <1>4 DEF proofOfStateVars, ConvinceInv
<1>3. CASE Garble
  <2>1. PICK t, changed :
          /\ t \in received.targets
          /\ received' = [received EXCEPT !.targets = (@ \ {t}) \cup {changed}]
          /\ \/ changed.proof = t.proof
             \/ \E d \in 0..(Len(t.proof) - 1) : changed.proof = SubSeq(t.proof, 1, d)
             \/ \E sibling : changed.proof = Append(t.proof, sibling)
    BY <1>3, GarbleChanges
  <2>2. garbled' /\ received # <<>> /\ ~garbled /\ UNCHANGED <<leaves, other>>
    BY <1>3, GarbleChanges
  <2>3. PICK paths : received = BuildProof(other, paths)
    BY <2>2 DEF ConvinceInv
  <2>4. /\ received.root = Root(other)
        /\ \A u \in received.targets : \E i \in DOMAIN other : u = TargetOf(other, i)
    BY <2>3, BuildProofIs
  <2>5. other \in Seq(Range(other))
    BY DEF ConvinceInv
  <2>6. \A u \in received.targets : \E T : u.proof \in Seq(T)
    BY <2>4, <2>5, BuiltTarget
  <2>7. Len(changed.proof) \in Nat
    <3>1. PICK T : t.proof \in Seq(T)
      BY <2>1, <2>6
    <3>2. CASE changed.proof = t.proof
      BY <3>1, <3>2
    <3>3. ASSUME NEW d \in 0..(Len(t.proof) - 1), changed.proof = SubSeq(t.proof, 1, d)
          PROVE  Len(changed.proof) \in Nat
      BY <3>1, <3>3
    <3>4. ASSUME NEW sibling, changed.proof = Append(t.proof, sibling)
          PROVE  Len(changed.proof) \in Nat
      <4>1. t.proof \in Seq(T \cup {sibling})
        BY <3>1
      <4> QED
        BY <4>1, <3>4
    <3> QED
      BY <2>1, <3>2, <3>3, <3>4
  <2>8. \A u \in received.targets : Len(u.proof) \in Nat
    BY <2>6
  <2>9. received = [root |-> received.root, targets |-> received.targets]
    BY <2>3, Zenon DEF BuildProof
  <2>10. /\ received'.root = received.root
         /\ received'.targets = (received.targets \ {t}) \cup {changed}
    BY <2>1, <2>9
  <2>11. \A u \in received'.targets : Len(u.proof) \in Nat
    BY <2>7, <2>8, <2>10
  <2>12. received'.root = Root(other')
    BY <2>2, <2>4, <2>10
  <2>13. /\ leaves' \in Seq(Range(leaves')) /\ other' \in Seq(Range(other'))
    BY <2>2 DEF ConvinceInv
  <2> QED
    BY <2>2, <2>11, <2>12, <2>13 DEF ConvinceInv
<1> QED
  BY <1>1, <1>2, <1>3, <1>4 DEF ProofOfStateRequest

\* Of what came, the root is that of the peer's state and every path is finite.
LEMMA ReceivedFacts ==
    ASSUME ConvinceInv, received # <<>>
    PROVE  /\ received.root = Root(other)
           /\ \A t \in received.targets : Len(t.proof) \in Nat
<1>1. CASE garbled
  BY <1>1 DEF ConvinceInv
<1>2. CASE ~garbled
  <2>1. PICK paths : received = BuildProof(other, paths)
    BY <1>2 DEF ConvinceInv
  <2>2. other \in Seq(Range(other))
    BY DEF ConvinceInv
  <2> QED
    BY <2>1, <2>2, BuildProofIs, BuiltTarget
<1> QED
  BY <1>1, <1>2

\* Leaves of one state are leaves of another that has the same root.
LEMMA SameRootSameLeaves ==
    ASSUME NEW S, NEW one \in Seq(S), NEW T, NEW two \in Seq(T),
           Root(one) = Root(two)
    PROVE  Range(one) \subseteq Range(two)
<1> SUFFICES ASSUME NEW i \in DOMAIN one PROVE one[i] \in Range(two)
  BY DEF Range
<1>1. /\ TargetOf(one, i).leaf = one[i]
      /\ Len(TargetOf(one, i).proof) \in Nat
      /\ Climb(TargetOf(one, i)) = Root(two)
  BY BuiltTarget
<1> QED
  BY <1>1, RootShowsLeaves

LEMMA ConvinceInvConvinces == ConvinceInv => ProofsConvince
<1> SUFFICES ASSUME ConvinceInv, received # <<>>
             PROVE  /\ ~garbled /\ received.targets # {} => Verify(received)
                    /\ Verify(received) =>
                         \A t \in received.targets : t.leaf \in Range(other)
                    /\ ConsensusMatch(BuildProof(leaves, {}), received) =>
                         Range(leaves) = Range(other)
  BY DEF ProofsConvince
<1>0. leaves \in Seq(Range(leaves)) /\ other \in Seq(Range(other))
  BY DEF ConvinceInv
<1>1. ASSUME ~garbled, received.targets # {}
      PROVE  Verify(received)
  <2>1. PICK paths : received = BuildProof(other, paths)
    BY <1>1 DEF ConvinceInv
  <2>2. ASSUME NEW t \in received.targets
        PROVE  LeafHash(t.leaf) = t.leafHash /\ Climb(t) = received.root
    <3>1. PICK i \in DOMAIN other : t = TargetOf(other, i)
      BY <2>1, BuildProofIs
    <3>2. received.root = Root(other)
      BY <2>1, BuildProofIs
    <3>3. /\ t.leaf = other[i] /\ t.leafHash = LeafHash(other[i])
          /\ Climb(t) = Root(other)
      BY <1>0, <3>1, BuiltTarget
    <3> QED
      BY <3>2, <3>3
  <2> QED
    BY <1>1, <2>2 DEF Verify
<1>2. ASSUME Verify(received), NEW t \in received.targets
      PROVE  t.leaf \in Range(other)
  <2>1. Climb(t) = Root(other) /\ Len(t.proof) \in Nat
    BY <1>2, ReceivedFacts DEF Verify
  <2> QED
    BY <1>0, <2>1, RootShowsLeaves
<1>3. ASSUME ConsensusMatch(BuildProof(leaves, {}), received)
      PROVE  Range(leaves) = Range(other)
  <2>1. BuildProof(leaves, {}).root = Root(leaves)
    BY BuildProofIs
  <2>2. Root(leaves) = Root(other)
    BY <1>3, <2>1, ReceivedFacts DEF ConsensusMatch
  <2>3. Range(leaves) \subseteq Range(other)
    BY <1>0, <2>2, SameRootSameLeaves
  <2>4. Range(other) \subseteq Range(leaves)
    BY <1>0, <2>2, SameRootSameLeaves
  <2> QED
    BY <2>3, <2>4
<1> QED
  BY <1>1, <1>2, <1>3


(* For any states of the two nodes, however large and deep their trees: a  *)
(* proof as build_rmp_proof made it is accepted, one that verify_rmp_proof *)
(* accepts shows only leaves of the state whose root it names, and where   *)
(* verify_rnpe2_consensus says that the roots match both hold the same     *)
(* leaves.                                                                 *)
THEOREM ProofsAreConvincing == ServicesSpec => []ProofsConvince
<1>1. ServicesInit => ConvinceInv
  BY ConvinceInvInit DEF ServicesInit
<1>2. ConvinceInv /\ [ServicesNext]_servicesVars => ConvinceInv'
  BY StateSteps, ConvinceInvStep
<1> QED
  BY <1>1, <1>2, ConvinceInvConvinces, PTL DEF ServicesSpec

-----------------------------------------------------------------------------
(* DApps. *)

DappsInv == DappsTypeOK /\ AcknowledgedIsServed

LEMMA DappsInvInit == DappsInit => DappsInv
<1> SUFFICES ASSUME DappsInit PROVE DappsInv
  OBVIOUS
<1>1. registry = EmptyDict /\ DOMAIN Load = {} /\ directories = <<>> /\ acknowledged = {}
      /\ readable = FALSE /\ misreads \in 0..MaxMisreads
  BY EmptyIsDict, DappsAssumption DEF DappsInit, Load
<1>2. IsDict(registry, DappIds, DOMAIN directories)
  BY <1>1, EmptyIsDict
<1>3. directories \in Seq({"partly", "whole", "gone"}) /\ Len(directories) <= MaxInstalls
  BY <1>1, DappsAssumption
<1>4. AcknowledgedIsServed
  BY <1>1 DEF AcknowledgedIsServed
<1> QED
  BY <1>1, <1>2, <1>3, <1>4 DEF DappsInv, DappsTypeOK

LEMMA DappsInvStep == DappsInv /\ (DappRequest \/ UNCHANGED dappVars) => DappsInv'
<1> SUFFICES ASSUME DappsInv, DappRequest \/ UNCHANGED dappVars
             PROVE  DappsInv'
  OBVIOUS
<1>. DEFINE State == {"partly", "whole", "gone"}
            n == Len(directories)
            \* The invariant, once what Load returns is known.
            ServedBy(load, dirs, ack) ==
              /\ \A a \in ack : a \in DOMAIN load /\ dirs[load[a]] = "whole"
              /\ \A a, b \in DOMAIN load : load[a] = load[b] => a = b
<1>0. /\ IsDict(registry, DappIds, 1..n) /\ readable \in BOOLEAN
      /\ directories \in Seq(State) /\ n \in Nat /\ n <= MaxInstalls /\ MaxInstalls \in Nat
      /\ acknowledged \subseteq DappIds
      /\ ServedBy(Load, directories, acknowledged)
  BY DappsAssumption DEF DappsInv, DappsTypeOK, AcknowledgedIsServed
<1>1. IsDict(Load, DappIds, 1..n)
  BY <1>0, EmptyIsDict DEF Load
<1>2. /\ Load \in [DOMAIN Load -> 1..n]
      /\ DOMAIN Load \subseteq DappIds
  BY <1>1 DEF IsDict
<1>w. ASSUME NEW d, IsDict(d, DappIds, 1..n)
      PROVE  IsDict(d, DappIds, 1..(n + 1))
  <2>1. 1..n \subseteq 1..(n + 1)
    BY <1>0
  <2> QED
    BY <1>w, <2>1 DEF IsDict
<1>r. misreads' \in 0..MaxMisreads
  <2>1. misreads \in 0..MaxMisreads /\ MaxMisreads \in Nat
    BY DappsAssumption DEF DappsInv, DappsTypeOK
  <2>2. misreads' = misreads \/ (misreads < MaxMisreads /\ misreads' = misreads + 1)
    BY DEF DappRequest, InstallDapp, UninstallDapp, Reads, dappVars
  <2> QED
    BY <2>1, <2>2
\* What a step must show.
<1>3. ASSUME directories' \in Seq(State), Len(directories') <= MaxInstalls,
             IsDict(registry', DappIds, 1..Len(directories')), readable' \in BOOLEAN,
             acknowledged' \subseteq DappIds,
             ServedBy(Load', directories', acknowledged')
      PROVE  DappsInv'
  BY <1>3, <1>r DEF DappsInv, DappsTypeOK, AcknowledgedIsServed
<1>. HIDE DEF ServedBy
\* A save that stops half way leaves nothing to be served.
<1>4. ASSUME SaveStops, directories' \in Seq(State), Len(directories') <= MaxInstalls
      PROVE  DappsInv'
  <2>1. registry' = EmptyDict /\ readable' = FALSE /\ acknowledged' = {} /\ Load' = EmptyDict
    BY <1>4 DEF SaveStops, Load
  <2>2. ServedBy(Load', directories', acknowledged')
    BY <2>1, EmptyIsDict DEF ServedBy
  <2> QED
    BY <1>3, <1>4, <2>1, <2>2, EmptyIsDict
<1>5. ASSUME NEW a \in DappIds, InstallDapp(a)
      PROVE  DappsInv'
  <2>0. PICK r \in {Load, EmptyDict} : Installs(a, r)
    BY <1>5 DEF InstallDapp
  <2>. DEFINE kept == IF r = Load THEN acknowledged ELSE {}
  <2>r. /\ IsDict(r, DappIds, 1..n) /\ r \in [DOMAIN r -> 1..n]
        /\ kept \subseteq DappIds /\ ServedBy(r, directories, kept)
    <3>1. CASE r = Load
      BY <1>0, <1>1, <1>2, <3>1
    <3>2. CASE r = EmptyDict /\ r # Load
      BY <3>2, EmptyIsDict DEF ServedBy, IsDict
    <3> QED
      BY <2>0, <3>1, <3>2
  <2>1. a \notin DOMAIN r /\ n < MaxInstalls
    BY <2>0 DEF Installs
  <2>2. PICK left \in State : directories' = Append(directories, left)
    BY <2>0 DEF Installs
  <2>3. /\ directories' \in Seq(State) /\ Len(directories') = n + 1
        /\ \A i \in 1..n : directories'[i] = directories[i]
        /\ directories'[n + 1] = left
        /\ Len(directories') <= MaxInstalls
    BY <1>0, <2>1, <2>2
  <2>. HIDE DEF n
  <2>4. CASE StopsBeforeSave /\ UNCHANGED acknowledged
    <3>1. registry' = registry /\ readable' = readable /\ Load' = Load
      BY <2>4 DEF StopsBeforeSave, Load
    <3>2. ServedBy(Load', directories', acknowledged')
      BY <1>0, <1>2, <2>3, <2>4, <3>1 DEF ServedBy
    <3> QED
      BY <1>0, <1>3, <1>w, <2>3, <2>4, <3>1, <3>2
  <2>5. CASE SaveStops
    BY <1>4, <2>3, <2>5
  <2>6. CASE /\ directories' = Append(directories, "whole")
             /\ SaveRegistry(Put(r, a, n + 1))
             /\ acknowledged' = kept \cup {a}
    <3>1. registry' = Put(r, a, n + 1) /\ readable' = TRUE /\ Load' = Put(r, a, n + 1)
      BY <2>6 DEF SaveRegistry, Load
    <3>2. IsDict(registry', DappIds, 1..Len(directories'))
      <4>1. n + 1 \in 1..(n + 1)
        BY <1>0
      <4> QED
        BY <2>r, <1>w, <2>3, <3>1, <4>1, PutIsDict
    <3>. HIDE DEF kept
    <3>3. /\ DOMAIN Load' = DOMAIN r \cup {a} /\ Load'[a] = n + 1
          /\ \A b \in DOMAIN r : b # a /\ Load'[b] = r[b] /\ r[b] \in 1..n
      BY <2>r, <2>1, <3>1 DEF Put
    <3>4. directories'[n + 1] = "whole"
      BY <1>0, <2>6 DEF n
    <3>5. \A i \in 1..n : i # n + 1
      BY <1>0
    <3>6. ServedBy(Load', directories', acknowledged')
      <4>1. \A b \in kept : b \in DOMAIN r /\ directories[r[b]] = "whole"
        BY <2>r DEF ServedBy
      <4>2. \A b \in acknowledged' : b \in DOMAIN Load' /\ directories'[Load'[b]] = "whole"
        BY <2>3, <2>6, <3>3, <3>4, <4>1
      <4>3. \A b, c \in DOMAIN r : r[b] = r[c] => b = c
        BY <2>r DEF ServedBy
      <4>4. \A b, c \in DOMAIN Load' : Load'[b] = Load'[c] => b = c
        BY <3>3, <3>5, <4>3
      <4> QED
        BY <4>2, <4>4 DEF ServedBy
    <3>7. readable' \in BOOLEAN /\ acknowledged' \subseteq DappIds
      BY <1>5, <2>r, <2>6, <3>1
    <3> QED
      BY <1>3, <2>3, <3>2, <3>6, <3>7
  <2> QED
    BY <2>0, <2>4, <2>5, <2>6 DEF Installs, n
<1>6. ASSUME NEW a \in DappIds, UninstallDapp(a)
      PROVE  DappsInv'
  <2>1. PICK left \in State : directories' = [directories EXCEPT ![Load[a]] = left]
    BY <1>6 DEF UninstallDapp
  <2>2. a \in DOMAIN Load
    BY <1>6 DEF UninstallDapp
  <2>3. /\ directories' \in Seq(State) /\ Len(directories') = n
        /\ \A i \in 1..n \ {Load[a]} : directories'[i] = directories[i]
    BY <1>0, <1>2, <2>1, <2>2
  <2>. HIDE DEF n
  <2>4. CASE SaveStops
    BY <1>0, <1>4, <2>3, <2>4
  <2>5. CASE StopsBeforeSave /\ acknowledged' = acknowledged \ {a}
    <3>1. registry' = registry /\ readable' = readable /\ Load' = Load
      BY <2>5 DEF StopsBeforeSave, Load
    <3>2. ServedBy(Load', directories', acknowledged')
      BY <1>0, <1>2, <2>2, <2>3, <2>5, <3>1 DEF ServedBy
    <3> QED
      BY <1>0, <1>3, <2>3, <2>5, <3>1, <3>2
  <2>6. CASE SaveRegistry(Drop(Load, a)) /\ acknowledged' = acknowledged \ {a}
    <3>1. registry' = Drop(Load, a) /\ readable' = TRUE /\ Load' = Drop(Load, a)
      BY <2>6 DEF SaveRegistry, Load
    <3>2. IsDict(registry', DappIds, 1..Len(directories'))
      BY <1>1, <2>3, <3>1, DropIsDict
    <3>3. /\ DOMAIN Load' = DOMAIN Load \ {a}
          /\ \A b \in DOMAIN Load \ {a} : Load'[b] = Load[b]
      BY <3>1 DEF Drop
    <3>4. ServedBy(Load', directories', acknowledged')
      BY <1>0, <1>2, <2>2, <2>3, <2>6, <3>3 DEF ServedBy
    <3> QED
      BY <1>0, <1>3, <2>3, <2>6, <3>1, <3>2, <3>4
  <2> QED
    BY <1>6, <2>4, <2>5, <2>6 DEF UninstallDapp
<1>7. CASE UNCHANGED dappVars
  BY <1>7 DEF dappVars, DappsInv, DappsTypeOK, AcknowledgedIsServed, Load
<1> QED
  BY <1>5, <1>6, <1>7 DEF DappRequest

(* Whatever is installed, removed and interrupted, a DApp that was         *)
(* acknowledged is listed with all its files, in a directory no other one  *)
(* has, unless a save that was interrupted or followed a failed read took  *)
(* it: install_dapp and uninstall_dapp of backend/routes/dapps.py.         *)
THEOREM AcknowledgedDappsAreServed == ServicesSpec => []AcknowledgedIsServed
<1>1. ServicesInit => DappsInv
  BY DappsInvInit DEF ServicesInit
<1>2. DappsInv /\ [ServicesNext]_servicesVars => DappsInv'
  BY DappSteps, DappsInvStep
<1>3. DappsInv => AcknowledgedIsServed
  BY DEF DappsInv
<1> QED
  BY <1>1, <1>2, <1>3, PTL DEF ServicesSpec

-----------------------------------------------------------------------------
(* The marketplace. *)

\* What Average computes is not looked into: 0 before the first rating.
Averages == {0} \cup {Average(s) : s \in Seq(1..5)}
Shown == [status : {"active", "paused"}, price : Price, ratingAvg : Averages,
          ratingCount : Nat]

\* An identifier is issued once, so that a new listing finds no ratings of an
\* older one that was deleted.
RatingsInv ==
    /\ listingsIssued \in Nat
    /\ IsDict(listings, 1..listingsIssued, Shown)
    /\ IsDict(ratings, 1..listingsIssued, Seq(1..5))
    /\ RatingsAreShown

LEMMA ClampScoreRange == ASSUME NEW n \in Int PROVE ClampScore(n) \in 1..5
BY DEF ClampScore

LEMMA IsDictMonotone ==
    ASSUME NEW d, NEW K, NEW L, NEW V, IsDict(d, K, V), K \subseteq L
    PROVE  IsDict(d, L, V)
BY DEF IsDict

LEMMA RatingsInvInit == MarketInit => RatingsInv
BY EmptyIsDict DEF MarketInit, RatingsInv, RatingsAreShown

LEMMA RatingsInvStep ==
    RatingsInv /\ (MarketRequest \/ MarketLost \/ UNCHANGED marketVars) => RatingsInv'
<1> SUFFICES ASSUME RatingsInv, MarketRequest \/ MarketLost \/ UNCHANGED marketVars
             PROVE  RatingsInv'
  OBVIOUS
<1>. DEFINE Right(d, l, s) == /\ d[l].ratingCount = Len(s)
                              /\ d[l].ratingCount > 0 => d[l].ratingAvg = Average(s)
<1>0. /\ listingsIssued \in Nat
      /\ DOMAIN listings \subseteq 1..listingsIssued
      /\ DOMAIN ratings \subseteq 1..listingsIssued
      /\ listings \in [DOMAIN listings -> Shown]
      /\ ratings \in [DOMAIN ratings -> Seq(1..5)]
      /\ \A l \in DOMAIN listings : Right(listings, l, RatingsOf(l))
  BY DEF RatingsInv, IsDict, RatingsAreShown
<1>1. ASSUME NEW p \in Price, CreateListing(p)
      PROVE  RatingsInv'
  <2>. DEFINE new == [status |-> "active", price |-> p, ratingAvg |-> 0, ratingCount |-> 0]
  <2>0. PICK id : id = listingsIssued + 1
    OBVIOUS
  <2>1. /\ listingsIssued' = id /\ ratings' = ratings
        /\ listings' = Put(listings, id, new)
    BY <1>1, <2>0 DEF CreateListing
  <2>2. new \in Shown /\ new.ratingCount = 0
    BY DEF Shown, Averages
  <2>. HIDE DEF new
  <2>3. id \in 1..id /\ 1..listingsIssued \subseteq 1..id /\ id \notin 1..listingsIssued
    BY <1>0, <2>0
  <2>4. IsDict(ratings', 1..listingsIssued', Seq(1..5)) /\ IsDict(listings, 1..id, Shown)
    BY <2>1, <2>3, IsDictMonotone DEF RatingsInv
  <2>5. IsDict(listings', 1..listingsIssued', Shown)
    BY <2>1, <2>2, <2>3, <2>4, PutIsDict
  <2>6. /\ DOMAIN listings' = DOMAIN listings \cup {id} /\ listings'[id] = new
        /\ \A l \in DOMAIN listings : l # id /\ listings'[l] = listings[l]
    BY <1>0, <2>1, <2>3 DEF Put
  <2>7. /\ RatingsOf(id)' = <<>>
        /\ \A l \in DOMAIN listings : RatingsOf(l)' = RatingsOf(l)
    BY <1>0, <2>1, <2>3 DEF RatingsOf
  <2>8. RatingsAreShown'
    <3>1. ASSUME NEW l \in DOMAIN listings
          PROVE  Right(listings', l, RatingsOf(l)')
      BY <1>0, <2>6, <2>7
    <3>2. Right(listings', id, RatingsOf(id)')
      BY <2>2, <2>6, <2>7
    <3> QED
      BY <2>6, <3>1, <3>2 DEF RatingsAreShown
  <2> QED
    BY <1>0, <2>0, <2>1, <2>4, <2>5, <2>8 DEF RatingsInv
<1>2. ASSUME NEW l \in Id, NEW s \in {"active", "paused"}, UpdateListingStatus(l, s)
      PROVE  RatingsInv'
  <2>1. /\ l \in DOMAIN listings
        /\ listings' = [listings EXCEPT ![l].status = s]
        /\ UNCHANGED <<ratings, listingsIssued>>
    BY <1>2 DEF UpdateListingStatus
  <2>2. /\ listings' \in [DOMAIN listings -> Shown]
        /\ \A m \in DOMAIN listings :
             /\ listings'[m].ratingCount = listings[m].ratingCount
             /\ listings'[m].ratingAvg = listings[m].ratingAvg
    BY <1>0, <2>1 DEF Shown
  <2>3. DOMAIN listings' = DOMAIN listings
    BY <2>2
  <2>4. RatingsAreShown'
    BY <1>0, <2>1, <2>2, <2>3 DEF RatingsAreShown, RatingsOf
  <2> QED
    BY <1>0, <2>1, <2>2, <2>3, <2>4 DEF RatingsInv, IsDict
<1>3. ASSUME NEW l \in Id, DeleteListing(l)
      PROVE  RatingsInv'
  <2>1. listings' = Drop(listings, l) /\ UNCHANGED <<ratings, listingsIssued>>
    BY <1>3 DEF DeleteListing
  <2>2. IsDict(listings', 1..listingsIssued, Shown)
    BY <2>1, DropIsDict DEF RatingsInv
  <2>3. \A m \in DOMAIN listings' : m \in DOMAIN listings /\ listings'[m] = listings[m]
    BY <2>1 DEF Drop
  <2>4. RatingsAreShown'
    BY <1>0, <2>1, <2>3 DEF RatingsAreShown, RatingsOf
  <2> QED
    BY <1>0, <2>1, <2>2, <2>4 DEF RatingsInv
<1>4. ASSUME NEW l \in 1..listingsIssued, NEW n \in Scores, CreateRating(l, n)
      PROVE  RatingsInv'
  <2>. DEFINE new == Append(RatingsOf(l), ClampScore(n))
  <2>1. ClampScore(n) \in 1..5
    BY ClampScoreRange, MarketAssumption
  <2>2. RatingsOf(l) \in Seq(1..5)
    BY <1>0 DEF RatingsOf
  <2>3. new \in Seq(1..5) /\ Len(new) \in Nat
    BY <2>1, <2>2
  <2>4. ratings' = Put(ratings, l, new) /\ listingsIssued' = listingsIssued
    BY <1>4 DEF CreateRating
  <2>. HIDE DEF new
  <2>a. Average(new) \in Averages
    BY <2>3, Zenon DEF Averages
  <2>5. IsDict(ratings', 1..listingsIssued', Seq(1..5))
    BY <2>3, <2>4, PutIsDict DEF RatingsInv
  <2>6. /\ ratings'[l] = new /\ RatingsOf(l)' = new
        /\ \A m : m # l => RatingsOf(m)' = RatingsOf(m)
    BY <2>4 DEF RatingsOf, Put
  <2>7. CASE l \in DOMAIN listings
    <3>1. listings' = [listings EXCEPT ![l].ratingAvg = Average(new),
                                       ![l].ratingCount = Len(new)]
      BY <1>4, <2>6, <2>7 DEF CreateRating
    <3>2. /\ listings' \in [DOMAIN listings -> Shown]
          /\ \A m \in DOMAIN listings \ {l} : listings'[m] = listings[m]
          /\ listings'[l].ratingCount = Len(new) /\ listings'[l].ratingAvg = Average(new)
      BY <1>0, <2>3, <2>a, <2>7, <3>1, Zenon DEF Shown
    <3>3. DOMAIN listings' = DOMAIN listings
      BY <3>2
    <3>4. RatingsAreShown'
      BY <1>0, <2>6, <3>2, <3>3 DEF RatingsAreShown
    <3> QED
      BY <1>0, <2>4, <2>5, <3>2, <3>3, <3>4 DEF RatingsInv, IsDict
  <2>8. CASE l \notin DOMAIN listings
    <3>1. listings' = listings
      BY <1>4, <2>8 DEF CreateRating
    <3>2. RatingsAreShown'
      BY <1>0, <2>6, <2>8, <3>1 DEF RatingsAreShown
    <3> QED
      BY <1>0, <2>4, <2>5, <3>1, <3>2 DEF RatingsInv
  <2> QED
    BY <2>7, <2>8
<1>5. ASSUME UNCHANGED <<listings, ratings, listingsIssued>>
      PROVE  RatingsInv'
  BY <1>5 DEF RatingsInv, RatingsAreShown, RatingsOf
<1>6. CASE MarketRequest
  <2>1. ASSUME NEW l \in Id, CreateOrder(l)
        PROVE  RatingsInv'
    BY <1>5, <2>1 DEF CreateOrder
  <2>2. ASSUME NEW o \in Id, CompleteOrder(o) \/ CancelOrder(o)
        PROVE  RatingsInv'
    BY <1>5, <2>2 DEF CompleteOrder, CancelOrder
  <2> QED
    BY <1>1, <1>2, <1>3, <1>4, <1>6, <2>1, <2>2 DEF MarketRequest
<1>7. CASE MarketLost
  BY <1>0, <1>7, EmptyIsDict DEF MarketLost, RatingsInv, RatingsAreShown
<1>8. CASE UNCHANGED marketVars
  BY <1>5, <1>8 DEF marketVars
<1> QED
  BY <1>6, <1>7, <1>8

(* The number and the average a listing shows are those of the ratings     *)
(* kept for it: create_listing, delete_listing and create_rating of        *)
(* backend/marketplace.py.                                                 *)
THEOREM ListingsShowRatings == ServicesSpec => []RatingsAreShown
<1>1. ServicesInit => RatingsInv
  BY RatingsInvInit DEF ServicesInit
<1>2. RatingsInv /\ [ServicesNext]_servicesVars => RatingsInv'
  BY MarketSteps, RatingsInvStep
<1>3. RatingsInv => RatingsAreShown
  BY DEF RatingsInv
<1> QED
  BY <1>1, <1>2, <1>3, PTL DEF ServicesSpec

-----------------------------------------------------------------------------
(* Quotas of tenants. *)

\* A quota that is under another name than its tenant's excuses both.
RenamedExcused ==
    \A t \in DOMAIN quotas :
        quotas[t].tenant_id # t => t \in excused /\ quotas[t].tenant_id \in excused

TenantsInv ==
    /\ IsDict(quotas, TenantIds, Quota)
    /\ RenamedExcused
    /\ LimitsInForce

LEMMA TenantsInvInit == TenantsInit => TenantsInv
BY EmptyIsDict DEF TenantsInit, TenantsInv, RenamedExcused, LimitsInForce

\* However _apply_cgroup_limits ends, it touches one cgroup, and whoever is not
\* excused afterwards has the limits that were asked for, if they are acceptable.
LEMMA ApplyLimitsFacts ==
    ASSUME NEW q, NEW others, ApplyLimits(q, others)
    PROVE  /\ excused \cup others \subseteq excused'
           /\ \A w : w # q.tenant_id =>
                /\ w \in DOMAIN cgroups' <=> w \in DOMAIN cgroups
                /\ w \in DOMAIN cgroups => cgroups'[w] = cgroups[w]
           /\ enforced /\ q.tenant_id \notin excused' =>
                /\ q.tenant_id \in DOMAIN cgroups'
                /\ Acceptable(q.limits) => cgroups'[q.tenant_id] = Wanted(q.limits)
<1>. DEFINE t == q.tenant_id
            Untouched == \A w : w # t => /\ w \in DOMAIN cgroups' <=> w \in DOMAIN cgroups
                                         /\ w \in DOMAIN cgroups => cgroups'[w] = cgroups[w]
<1>1. ASSUME NEW v, cgroups' = Put(cgroups, t, v)
      PROVE  Untouched /\ t \in DOMAIN cgroups' /\ cgroups'[t] = v
  BY <1>1 DEF Put
<1>2. cgroups' = cgroups => Untouched
  OBVIOUS
<1>3. cgroups' = Made(t) => Untouched /\ t \in DOMAIN cgroups'
  BY <1>1, <1>2 DEF Made
<1>4. CASE /\ cgroups' = IF ~enforced THEN cgroups
                         ELSE IF Acceptable(q.limits) THEN Put(cgroups, t, Wanted(q.limits))
                         ELSE Made(t)
           /\ excused' = excused \cup others
  <2>1. CASE enforced /\ Acceptable(q.limits)
    BY <1>1, <1>4, <2>1
  <2>2. CASE enforced /\ ~Acceptable(q.limits)
    BY <1>3, <1>4, <2>2
  <2>3. CASE ~enforced
    BY <1>2, <1>4, <2>3
  <2> QED
    BY <2>1, <2>2, <2>3
<1>5. CASE cgroups' = Made(t) /\ Faults(others \cup {t})
  BY <1>3, <1>5 DEF Faults
<1>6. CASE UNCHANGED cgroups /\ Faults(others \cup {t})
  BY <1>2, <1>6 DEF Faults
<1>7. CASE Faults(others \cup {t}) /\ \E v : cgroups' = Put(cgroups, t, v)
  BY <1>1, <1>7 DEF Faults
<1> QED
  BY <1>4, <1>5, <1>6, <1>7 DEF ApplyLimits

\* A quota is set or changed and applied.
LEMMA TenantSetStep ==
    ASSUME TenantsInv, NEW t \in TenantIds, NEW others,
           IsDict(quotas', TenantIds, Quota), enforced' = enforced,
           DOMAIN quotas' = DOMAIN quotas \cup {t},
           \A w \in DOMAIN quotas \ {t} : quotas'[w] = quotas[w],
           ApplyLimits(quotas'[t], others),
           quotas'[t].tenant_id # t =>
               t \in excused \cup others /\ quotas'[t].tenant_id \in excused \cup others
    PROVE  TenantsInv'
<1>. DEFINE u == quotas'[t].tenant_id
<1>0. /\ RenamedExcused /\ LimitsInForce
  BY DEF TenantsInv
<1>1. /\ excused \cup others \subseteq excused'
      /\ \A w : w # u => /\ w \in DOMAIN cgroups' <=> w \in DOMAIN cgroups
                         /\ w \in DOMAIN cgroups => cgroups'[w] = cgroups[w]
      /\ enforced /\ u \notin excused' =>
           /\ u \in DOMAIN cgroups'
           /\ Acceptable(quotas'[t].limits) => cgroups'[u] = Wanted(quotas'[t].limits)
  BY ApplyLimitsFacts
<1>2. RenamedExcused'
  BY <1>0, <1>1 DEF RenamedExcused
<1>3. ASSUME enforced, NEW w \in TenantIds \ excused'
      PROVE  /\ w \in DOMAIN cgroups' <=> w \in DOMAIN quotas'
             /\ w \in DOMAIN quotas' =>
                  /\ quotas'[w].tenant_id = w
                  /\ Acceptable(quotas'[w].limits) => cgroups'[w] = Wanted(quotas'[w].limits)
  <2>1. w \in TenantIds \ excused
    BY <1>1
  <2>2. CASE w = t
    <3>1. u = t
      BY <1>1, <2>2
    <3> QED
      BY <1>1, <1>3, <2>2, <3>1
  <2>3. CASE w # t
    <3>1. w # u
      BY <1>1, <2>3
    <3>2. /\ w \in DOMAIN cgroups <=> w \in DOMAIN quotas
          /\ w \in DOMAIN quotas =>
               /\ quotas[w].tenant_id = w
               /\ Acceptable(quotas[w].limits) => cgroups[w] = Wanted(quotas[w].limits)
      BY <1>0, <1>3, <2>1 DEF LimitsInForce
    <3> QED
      BY <1>1, <2>3, <3>1, <3>2
  <2> QED
    BY <2>2, <2>3
<1> QED
  BY <1>2, <1>3 DEF TenantsInv, LimitsInForce

LEMMA TenantsInvStep ==
    TenantsInv /\ (TenantRequest \/ TenantsLost \/ UNCHANGED tenantVars) => TenantsInv'
<1> SUFFICES ASSUME TenantsInv, TenantRequest \/ TenantsLost \/ UNCHANGED tenantVars
             PROVE  TenantsInv'
  OBVIOUS
<1>0. /\ quotas \in [DOMAIN quotas -> Quota]
      /\ DOMAIN quotas \subseteq TenantIds
      /\ RenamedExcused /\ LimitsInForce
  BY DEF TenantsInv, IsDict
<1>1. ASSUME NEW t \in TenantIds, NEW v \in Limits, CreateTenant(t, v)
      PROVE  TenantsInv'
  <2>. DEFINE q == [tenant_id |-> t, limits |-> [f \in File |-> v]]
  <2>1. q \in Quota /\ q.tenant_id = t
    BY DEF Quota
  <2>2. quotas' = Put(quotas, t, q) /\ ApplyLimits(q, {}) /\ enforced' = enforced
    BY <1>1 DEF CreateTenant
  <2>. HIDE DEF q
  <2>3. IsDict(quotas', TenantIds, Quota)
    BY <2>1, <2>2, PutIsDict DEF TenantsInv
  <2>4. /\ DOMAIN quotas' = DOMAIN quotas \cup {t} /\ quotas'[t] = q
        /\ \A w \in DOMAIN quotas \ {t} : quotas'[w] = quotas[w]
    BY <2>2 DEF Put
  <2> QED
    BY <2>1, <2>2, <2>3, <2>4, TenantSetStep
\* One limit of one quota.
<1>2. ASSUME NEW t \in TenantIds, NEW f \in File, NEW v \in Limits \cup {NotANumber},
             t \in DOMAIN quotas, quotas' = [quotas EXCEPT ![t].limits[f] = v]
      PROVE  /\ IsDict(quotas', TenantIds, Quota)
             /\ DOMAIN quotas' = DOMAIN quotas
             /\ \A w \in DOMAIN quotas \ {t} : quotas'[w] = quotas[w]
             /\ quotas'[t].tenant_id = quotas[t].tenant_id
  <2>1. /\ quotas' \in [DOMAIN quotas -> Quota]
        /\ \A w \in DOMAIN quotas \ {t} : quotas'[w] = quotas[w]
        /\ quotas'[t].tenant_id = quotas[t].tenant_id
    BY <1>0, <1>2 DEF Quota
  <2>2. DOMAIN quotas' = DOMAIN quotas
    BY <2>1
  <2> QED
    BY <1>0, <2>1, <2>2 DEF IsDict
<1>3. ASSUME NEW t \in TenantIds, NEW f \in File, NEW v \in Limits \cup {NotANumber},
             UpdateLimit(t, f, v)
      PROVE  TenantsInv'
  <2>1. /\ t \in DOMAIN quotas /\ quotas' = [quotas EXCEPT ![t].limits[f] = v]
        /\ ApplyLimits(quotas'[t], {}) /\ enforced' = enforced
    BY <1>3 DEF UpdateLimit
  <2>2. /\ IsDict(quotas', TenantIds, Quota)
        /\ DOMAIN quotas' = DOMAIN quotas \cup {t}
        /\ \A w \in DOMAIN quotas \ {t} : quotas'[w] = quotas[w]
        /\ quotas'[t].tenant_id = quotas[t].tenant_id
    BY <1>2, <2>1
  <2>3. quotas'[t].tenant_id # t => t \in excused /\ quotas'[t].tenant_id \in excused
    BY <1>0, <2>1, <2>2 DEF RenamedExcused
  <2> QED
    BY <2>1, <2>2, <2>3, TenantSetStep
<1>4. ASSUME NEW t \in TenantIds, NEW f \in File, NEW v \in Limits \cup {NotANumber},
             UpdateRefused(t, f, v)
      PROVE  TenantsInv'
  <2>1. /\ t \in DOMAIN quotas /\ quotas' = [quotas EXCEPT ![t].limits[f] = v]
        /\ excused' = excused \cup {quotas[t].tenant_id}
        /\ enforced' = enforced /\ cgroups' = cgroups
    BY <1>4 DEF UpdateRefused
  <2>2. /\ IsDict(quotas', TenantIds, Quota)
        /\ DOMAIN quotas' = DOMAIN quotas
        /\ \A w \in DOMAIN quotas \ {t} : quotas'[w] = quotas[w]
        /\ quotas'[t].tenant_id = quotas[t].tenant_id
    BY <1>2, <2>1
  <2>3. RenamedExcused' /\ t \in excused'
    BY <1>0, <2>1, <2>2 DEF RenamedExcused
  <2>4. LimitsInForce'
    BY <1>0, <2>1, <2>2, <2>3 DEF LimitsInForce
  <2> QED
    BY <2>2, <2>3, <2>4 DEF TenantsInv
<1>5. ASSUME NEW t \in TenantIds, NEW u \in TenantIds, RenameTenant(t, u)
      PROVE  TenantsInv'
  <2>1. /\ t \in DOMAIN quotas /\ quotas' = [quotas EXCEPT ![t].tenant_id = u]
        /\ ApplyLimits(quotas'[t], {t, u, quotas[t].tenant_id}) /\ enforced' = enforced
    BY <1>5 DEF RenameTenant
  <2>2. /\ quotas' \in [DOMAIN quotas -> Quota]
        /\ \A w \in DOMAIN quotas \ {t} : quotas'[w] = quotas[w]
        /\ quotas'[t].tenant_id = u
    BY <1>0, <2>1 DEF Quota
  <2>3. DOMAIN quotas' = DOMAIN quotas \cup {t} /\ IsDict(quotas', TenantIds, Quota)
    BY <1>0, <2>1, <2>2 DEF IsDict
  <2> QED
    BY <2>1, <2>2, <2>3, TenantSetStep
<1>6. ASSUME NEW t \in TenantIds, RemoveTenant(t)
      PROVE  TenantsInv'
  <2>. DEFINE u == quotas[t].tenant_id
  <2>1. t \in DOMAIN quotas /\ quotas' = Drop(quotas, t) /\ enforced' = enforced
    BY <1>6 DEF RemoveTenant
  <2>2. /\ DOMAIN quotas' = DOMAIN quotas \ {t}
        /\ \A w \in DOMAIN quotas \ {t} : quotas'[w] = quotas[w]
    BY <2>1 DEF Drop
  <2>3. IsDict(quotas', TenantIds, Quota)
    BY <2>1, DropIsDict DEF TenantsInv
  <2>4. u # t => t \in excused /\ u \in excused
    BY <1>0, <2>1 DEF RenamedExcused
  <2>5. /\ excused \subseteq excused'
        /\ \A w : w # u => /\ w \in DOMAIN cgroups' <=> w \in DOMAIN cgroups
                           /\ w \in DOMAIN cgroups => cgroups'[w] = cgroups[w]
        /\ enforced => u \in excused' \/ u \notin DOMAIN cgroups'
    <3>1. CASE cgroups' = (IF enforced THEN Drop(cgroups, u) ELSE cgroups) /\ excused' = excused
      BY <3>1 DEF Drop
    <3>2. CASE Faults({u}) /\ (UNCHANGED cgroups \/ cgroups' = Made(u))
      BY <3>2 DEF Faults, Made, Put
    <3> QED
      BY <1>6, <3>1, <3>2 DEF RemoveTenant
  <2>6. RenamedExcused'
    BY <1>0, <2>2, <2>5 DEF RenamedExcused
  <2>7. LimitsInForce'
    <3> SUFFICES ASSUME enforced, NEW w \in TenantIds \ excused'
                 PROVE  /\ w \in DOMAIN cgroups' <=> w \in DOMAIN quotas'
                        /\ w \in DOMAIN quotas' =>
                             /\ quotas'[w].tenant_id = w
                             /\ Acceptable(quotas'[w].limits)
                                  => cgroups'[w] = Wanted(quotas'[w].limits)
      BY <2>1 DEF LimitsInForce
    <3>1. w \in TenantIds \ excused
      BY <2>5
    <3>2. CASE w = t
      BY <2>2, <2>4, <2>5, <3>1, <3>2
    <3>3. CASE w # t
      <4>1. w # u
        BY <2>4, <3>1, <3>3
      <4>2. /\ w \in DOMAIN cgroups <=> w \in DOMAIN quotas
            /\ w \in DOMAIN quotas =>
                 /\ quotas[w].tenant_id = w
                 /\ Acceptable(quotas[w].limits) => cgroups[w] = Wanted(quotas[w].limits)
        BY <1>0, <3>1 DEF LimitsInForce
      <4> QED
        BY <2>2, <2>5, <3>3, <4>1, <4>2
    <3> QED
      BY <3>2, <3>3
  <2> QED
    BY <2>3, <2>6, <2>7 DEF TenantsInv
<1>7. ASSUME NEW t \in TenantIds, GetUsage(t)
      PROVE  TenantsInv'
  <2>. DEFINE u == quotas[t].tenant_id
  <2>1. t \in DOMAIN quotas /\ quotas' = quotas /\ enforced' = enforced
    BY <1>7 DEF GetUsage
  <2>2. /\ excused \subseteq excused'
        /\ cgroups' = cgroups \/ (enforced /\ u \notin DOMAIN cgroups /\ cgroups' = Made(u))
    BY <1>7 DEF GetUsage, Faults, Made
  <2>3. RenamedExcused'
    BY <1>0, <2>1, <2>2 DEF RenamedExcused
  <2>4. CASE cgroups' = cgroups
    BY <1>0, <2>1, <2>2, <2>3, <2>4 DEF LimitsInForce, TenantsInv
  <2>5. CASE enforced /\ u \notin DOMAIN cgroups /\ cgroups' = Made(u)
    <3>1. u \in excused \/ u \notin TenantIds
      BY <1>0, <2>1, <2>5 DEF RenamedExcused, LimitsInForce
    <3>2. \A w : w # u => /\ w \in DOMAIN cgroups' <=> w \in DOMAIN cgroups
                          /\ w \in DOMAIN cgroups => cgroups'[w] = cgroups[w]
      BY <2>5 DEF Made, Put
    <3>3. LimitsInForce'
      BY <1>0, <2>1, <2>2, <3>1, <3>2 DEF LimitsInForce
    <3> QED
      BY <2>1, <2>3, <3>3 DEF TenantsInv
  <2> QED
    BY <2>2, <2>4, <2>5
<1>8. CASE TenantsLost
  <2>1. /\ quotas' = EmptyDict /\ DOMAIN quotas' = {} /\ cgroups' = cgroups
        /\ DOMAIN cgroups \subseteq excused'
    BY <1>8, EmptyIsDict DEF TenantsLost
  <2> QED
    BY <2>1, EmptyIsDict DEF TenantsInv, RenamedExcused, LimitsInForce
<1>9. CASE UNCHANGED tenantVars
  BY <1>9 DEF tenantVars, TenantsInv, RenamedExcused, LimitsInForce
<1> QED
  BY <1>1, <1>3, <1>4, <1>5, <1>6, <1>7, <1>8, <1>9 DEF TenantRequest

(* The kernel limits the processor and the memory of exactly the tenants   *)
(* there are, and as their quotas say, but for those something went wrong  *)
(* for and for quotas that cannot be applied: lxc_manager.py.              *)
THEOREM LimitsAreInForce == ServicesSpec => []LimitsInForce
<1>1. ServicesInit => TenantsInv
  BY TenantsInvInit DEF ServicesInit
<1>2. TenantsInv /\ [ServicesNext]_servicesVars => TenantsInv'
  BY TenantSteps, TenantsInvStep
<1>3. TenantsInv => LimitsInForce
  BY DEF TenantsInv
<1> QED
  BY <1>1, <1>2, <1>3, PTL DEF ServicesSpec

-----------------------------------------------------------------------------
(* Certificates. *)

\* A task that has had the files to itself has them now.
AloneInv == \A w \in Worker : task[w].alone => task[Peer(w)] = Idle

CAInv ==
    /\ \A w \in Worker :
         task[w].alone /\ task[w].step = "ca second" => ca[Other(task[w].half)] = task[w].pair
    /\ (\A w \in Worker : task[w].step # "ca second") /\ "ca" \notin broken /\ CAExists =>
         ca["cert"] = ca["key"]

\* The pair such a task has made and not linked.
Issued(w) ==
    LET t == task[w] IN
    t.alone =>
        /\ t.step = "issue second" => files[t.name][Other(t.half)] = t.pair
        /\ t.step \in {"link", "symlink"} => files[t.name]["cert"] = files[t.name]["key"]
        /\ t.step \in {"link", "symlink"} /\ t.half = "key" => links["cert"] = t.name

IssuedInv == \A w \in Worker : Issued(w)

\* A task replaces the pair in use: one of the same second, or the links.
Replacing(w) ==
    \/ task[w].step = "issue second" /\ \E h \in Half : links[h] = task[w].name
    \/ task[w].step \in {"link", "symlink"}

ChosenMatch == CertsExist => Chosen["cert"] = Chosen["key"]

ServerInv ==
    (\A w \in Worker : ~Replacing(w)) /\ "server" \notin broken => ChosenMatch

CertificatesInv == CertificatesTypeOK /\ AloneInv /\ CAInv /\ IssuedInv /\ ServerInv

LEMMA Halves ==
    /\ Half = {"cert", "key"}
    /\ \A h \in Half : Other(h) \in Half /\ Other(h) # h /\ Other(Other(h)) = h
    /\ \A tool : First(tool) \in Half
BY DEF Half, Other, First

LEMMA Workers ==
    /\ Worker = {"backend", "cli"}
    /\ \A w \in Worker : Peer(w) \in Worker /\ Peer(w) # w /\ Peer(Peer(w)) = w
    /\ \A v, w \in Worker : v = w \/ v = Peer(w)
BY DEF Worker, Peer

LEMMA HalfDoneFacts ==
    ASSUME NEW w \in Worker
    PROVE  /\ HalfDone(w) \subseteq {"ca", "server"}
           /\ task[w].step = "ca second" => "ca" \in HalfDone(w)
           /\ Replacing(w) => "server" \in HalfDone(w)
<1>1. CASE task[w].step = "ca second"
  <2>1. HalfDone(w) = {"ca"}
    BY <1>1, Zenon DEF HalfDone
  <2> QED
    BY <1>1, <2>1 DEF Replacing
<1>2. CASE task[w].step = "issue second"
  <2>1. HalfDone(w) = IF \E h \in Half : links[h] = task[w].name THEN {"server"} ELSE {}
    BY <1>2, Zenon DEF HalfDone
  <2> QED
    BY <1>2, <2>1 DEF Replacing
<1>3. CASE task[w].step \in {"link", "symlink"}
  <2>1. HalfDone(w) = {"server"}
    BY <1>3, Zenon DEF HalfDone
  <2> QED
    BY <1>3, <2>1
<1>4. CASE task[w].step \notin {"ca second", "issue second", "link", "symlink"}
  <2>1. HalfDone(w) = {}
    BY <1>4, Zenon DEF HalfDone
  <2> QED
    BY <1>4, <2>1 DEF Replacing
<1> QED
  BY <1>1, <1>2, <1>3, <1>4

LEMMA CertificateNumbers ==
    /\ 0 \in Number /\ 1 \in Name /\ 0 \notin Name /\ 0 \in 0..MaxStops
    /\ NoPair \in Pair /\ \A h \in Half : NoPair[h] = 0
BY CertificatesAssumption DEF Number, Name, NoPair, Pair

LEMMA IdleFacts ==
    /\ Idle \in Task /\ Idle.step = "idle" /\ Idle.half = "cert" /\ Idle.tool = "openssl"
    /\ Idle.alone = FALSE /\ Idle.pair = 0
BY CertificateNumbers DEF Idle, Task, Step, Half

LEMMA CertificatesInvInit == CertificatesInit => CertificatesInv
<1> SUFFICES ASSUME CertificatesInit PROVE CertificatesInv
  OBVIOUS
<1>1. /\ task = [w \in Worker |-> Idle] /\ files = [n \in Name |-> NoPair]
      /\ links = [h \in Half |-> 0] /\ ca = NoPair
      /\ serving = "down" /\ made = 0 /\ stamp = 1 /\ stops = 0 /\ broken = {}
  BY DEF CertificatesInit
<1>2. \A w \in Worker : task[w] = Idle
  BY <1>1
<1>3. CertificatesTypeOK
  BY <1>1, IdleFacts, CertificateNumbers DEF CertificatesTypeOK
<1>4. ~CAExists /\ ~CertsExist
  BY <1>1, CertificateNumbers, Halves DEF CAExists, CertsExist, Chosen
<1> QED
  BY <1>2, <1>3, <1>4, IdleFacts
     DEF CertificatesInv, AloneInv, CAInv, IssuedInv, Issued, ServerInv, ChosenMatch

\* A step of one task: the other has not had the files to itself.
LEMMA TaskGoes ==
    ASSUME CertificatesTypeOK, AloneInv, NEW w \in Worker, task[w] # Idle,
           NEW t \in Task, Goes(w, t), t.alone => task[w].alone
    PROVE  /\ task' \in [Worker -> Task]
           /\ task'[w] = t
           /\ task'[Peer(w)] = task[Peer(w)]
           /\ ~task[Peer(w)].alone
           /\ \A v \in Worker : v # w => task'[v] = task[v] /\ ~task[v].alone
           /\ AloneInv'
<1>1. /\ task \in [Worker -> Task] /\ task' = [task EXCEPT ![w] = t]
  BY DEF CertificatesTypeOK, Goes
<1>2. /\ task' \in [Worker -> Task] /\ task'[w] = t
      /\ \A v \in Worker : v # w => task'[v] = task[v]
  BY <1>1
<1>3. \A v \in Worker : v # w => ~task[v].alone
  BY Workers DEF AloneInv
<1>4. AloneInv'
  BY <1>2, <1>3, Workers DEF AloneInv
<1> QED
  BY <1>2, <1>3, <1>4, Workers

\* Steps that leave the CA, or the server's pair, alone.
LEMMA CAKept ==
    ASSUME CAInv, ca' = ca, "ca" \in broken' <=> "ca" \in broken,
           NEW w \in Worker, \A v \in Worker : v # w => task'[v] = task[v],
           task[w].step # "ca second", task'[w].step # "ca second"
    PROVE  CAInv'
BY DEF CAInv, CAExists

LEMMA ServerKept ==
    ASSUME ServerInv, IssuedInv, files' = files, links' = links,
           "server" \in broken' <=> "server" \in broken,
           NEW w \in Worker, \A v \in Worker : v # w => task'[v] = task[v],
           ~Replacing(w),
           task'[w].step \notin {"issue second", "link", "symlink"}
    PROVE  IssuedInv' /\ ServerInv'
<1>1. ChosenMatch' <=> ChosenMatch
  BY DEF ChosenMatch, CertsExist, Chosen
<1>2. \A v \in Worker : Replacing(v)' <=> Replacing(v)
  BY DEF Replacing
<1>3. ServerInv'
  BY <1>1, <1>2 DEF ServerInv
<1>4. IssuedInv'
  BY DEF IssuedInv, Issued
<1> QED
  BY <1>3, <1>4

\* A file or a link that is removed is of no pair.
LEMMA ChosenFewer ==
    ASSUME ChosenMatch, \A h \in Half : Chosen'[h] = 0 \/ Chosen'[h] = Chosen[h]
    PROVE  ChosenMatch'
BY Halves DEF ChosenMatch, CertsExist

LEMMA BeginStep ==
    ASSUME CertificatesInv, NEW w \in Worker, NEW new \in Task, Begin(w, new),
           new.step \in {"ca", "issue", "delete"}, new.alone = FALSE,
           serving' \in {"down", "http", "https"}
    PROVE  CertificatesInv'
<1>. DEFINE n == [new EXCEPT !.alone = (task[Peer(w)] = Idle)]
            p == [task[Peer(w)] EXCEPT !.alone = FALSE]
<1>0. /\ CertificatesTypeOK /\ CAInv /\ IssuedInv /\ ServerInv
      /\ task \in [Worker -> Task] /\ task[w] = Idle
      /\ UNCHANGED <<ca, files, links, made, stamp, stops, broken>>
  BY DEF CertificatesInv, CertificatesTypeOK, Begin
<1>1. task' = [v \in Worker |-> IF v = w THEN n ELSE [task[v] EXCEPT !.alone = FALSE]]
  BY DEF Begin
<1>2. task'[w] = n /\ task'[Peer(w)] = p /\ \A v \in Worker : v = w \/ v = Peer(w)
  BY <1>1, Workers
<1>3. /\ n \in Task /\ n.step = new.step /\ n.alone = (task[Peer(w)] = Idle)
  BY Zenon DEF Task
<1>4. task[Peer(w)] \in Task
  BY <1>0, Workers
<1>5. /\ p \in Task /\ p.alone = FALSE /\ p.step = task[Peer(w)].step
      /\ p.name = task[Peer(w)].name
  BY <1>4, Zenon DEF Task
<1>6. task[Peer(w)] = Idle => p = Idle
  <2>1. [Idle EXCEPT !.alone = FALSE] = Idle
    <3>. DEFINE r == [Idle EXCEPT !.alone = FALSE]
    <3>1. Idle \in Task /\ Idle.alone = FALSE
      BY IdleFacts
    <3>2. /\ r \in Task /\ r.alone = FALSE /\ r.step = Idle.step /\ r.tool = Idle.tool
          /\ r.name = Idle.name /\ r.pair = Idle.pair /\ r.half = Idle.half
          /\ r.starts = Idle.starts
      BY <3>1, Zenon DEF Task
    <3>. HIDE DEF r
    <3>3. r = Idle
      BY <3>1, <3>2 DEF Task
    <3> QED
      BY <3>3 DEF r
  <2>2. ASSUME NEW x, x = Idle PROVE [x EXCEPT !.alone = FALSE] = Idle
    BY <2>1, <2>2, Zenon
  <2> QED
    BY <2>2, Zenon
<1>. HIDE DEF n, p
<1>7. task' \in [Worker -> Task]
  <2>1. \A v \in Worker : task'[v] \in Task
    BY <1>2, <1>3, <1>5
  <2> QED
    BY <1>1, <2>1
<1>8. CertificatesTypeOK'
  BY <1>0, <1>7 DEF CertificatesTypeOK
<1>9. AloneInv'
  BY <1>2, <1>3, <1>5, <1>6, Workers DEF AloneInv
<1>10. CAInv'
  <2>1. (\A v \in Worker : task'[v].step # "ca second") =>
            \A v \in Worker : task[v].step # "ca second"
    BY <1>0, <1>2, <1>5, IdleFacts
  <2>2. \A v \in Worker : ~(task'[v].alone /\ task'[v].step = "ca second")
    BY <1>2, <1>3, <1>5
  <2>3. CAExists' <=> CAExists
    BY <1>0 DEF CAExists
  <2> QED
    BY <1>0, <2>1, <2>2, <2>3 DEF CAInv
<1>11. IssuedInv'
  BY <1>2, <1>3, <1>5 DEF IssuedInv, Issued
<1>12. ServerInv'
  <2>1. ChosenMatch' <=> ChosenMatch
    BY <1>0 DEF ChosenMatch, CertsExist, Chosen
  <2>2. \A v \in Worker : Replacing(v) => Replacing(v)'
    BY <1>0, <1>2, <1>5, IdleFacts DEF Replacing
  <2> QED
    BY <1>0, <2>1, <2>2 DEF ServerInv
<1> QED
  BY <1>8, <1>9, <1>10, <1>11, <1>12 DEF CertificatesInv

LEMMA BeginsStep ==
    CertificatesInv /\ (Start \/ Generate \/ Delete \/ CliGenerate \/ CliDelete)
        => CertificatesInv'
<1> SUFFICES ASSUME CertificatesInv,
                    Start \/ Generate \/ Delete \/ CliGenerate \/ CliDelete
             PROVE  CertificatesInv'
  OBVIOUS
<1>0. /\ "backend" \in Worker /\ "cli" \in Worker
      /\ serving \in {"down", "http", "https"}
  BY Workers DEF CertificatesInv, CertificatesTypeOK
<1>1. ASSUME NEW w \in Worker, NEW tool \in {"mkcert", "openssl"},
             NEW s \in {"ca", "issue"}, serving' = serving,
             \/ Begin(w, [Idle EXCEPT !.step = s, !.tool = tool, !.starts = TRUE])
             \/ Begin(w, [Idle EXCEPT !.step = s, !.tool = tool])
      PROVE  CertificatesInv'
  <2>. DEFINE a == [Idle EXCEPT !.step = s, !.tool = tool, !.starts = TRUE]
              b == [Idle EXCEPT !.step = s, !.tool = tool]
  <2>1. Idle \in Task /\ s \in Step /\ Idle.alone = FALSE
    BY IdleFacts DEF Step
  <2>2. /\ a \in Task /\ a.step = s /\ a.alone = FALSE
        /\ b \in Task /\ b.step = s /\ b.alone = FALSE
    BY <2>1, Zenon DEF Task
  <2>. HIDE DEF a, b
  <2>3. Begin(w, a) \/ Begin(w, b)
    BY <1>1 DEF a, b
  <2>4. serving' \in {"down", "http", "https"}
    BY <1>0, <1>1
  <2> QED
    BY <2>2, <2>3, <2>4, BeginStep
<1>2. ASSUME NEW w \in Worker, serving' = serving, Begin(w, [Idle EXCEPT !.step = "delete"])
      PROVE  CertificatesInv'
  <2>. DEFINE a == [Idle EXCEPT !.step = "delete"]
  <2>1. Idle \in Task /\ "delete" \in Step /\ Idle.alone = FALSE
    BY IdleFacts DEF Step
  <2>2. a \in Task /\ a.step = "delete" /\ a.alone = FALSE
    BY <2>1, Zenon DEF Task
  <2>. HIDE DEF a
  <2>3. Begin(w, a) /\ serving' \in {"down", "http", "https"}
    BY <1>0, <1>2 DEF a
  <2> QED
    BY <2>2, <2>3, BeginStep
<1>3. ASSUME serving' \in {"down", "http", "https"},
             UNCHANGED <<ca, files, links, task, made, stamp, stops, broken>>
      PROVE  CertificatesInv'
  BY <1>3 DEF CertificatesInv, CertificatesTypeOK, AloneInv, CAInv, CAExists, IssuedInv, Issued,
              ServerInv, Replacing, ChosenMatch, CertsExist, Chosen
<1>4. CASE Start
  <2>1. CASE \E tool \in {"mkcert", "openssl"} :
               Begin("backend", [Idle EXCEPT !.step = IF tool = "openssl" /\ ~CAExists
                                                      THEN "ca" ELSE "issue",
                                             !.tool = tool, !.starts = TRUE])
             /\ UNCHANGED serving
    BY <1>0, <1>1, <2>1, Zenon
  <2>2. CASE /\ serving' = ServedWith(Chosen)
             /\ UNCHANGED <<ca, files, links, task, made, stamp, stops, broken>>
    BY <1>3, <2>2 DEF ServedWith
  <2>3. CASE /\ serving' = "http"
             /\ UNCHANGED <<ca, files, links, task, made, stamp, stops, broken>>
    BY <1>3, <2>3
  <2> QED
    BY <1>4, <2>1, <2>2, <2>3 DEF Start
<1>5. CASE Generate
  <2>1. serving' = serving /\ \E tool \in {"mkcert", "openssl"} :
          Begin("backend", [Idle EXCEPT !.step = IF CAExists THEN "issue" ELSE "ca",
                                        !.tool = tool])
    BY <1>5 DEF Generate
  <2> QED
    BY <1>0, <1>1, <2>1, Zenon
<1>6. CASE CliGenerate
  <2>1. serving' = serving /\ \E tool \in {"mkcert", "openssl"} :
          Begin("cli", [Idle EXCEPT !.step = IF ca["cert"] # 0 THEN "issue" ELSE "ca",
                                    !.tool = tool])
    BY <1>6 DEF CliGenerate
  <2> QED
    BY <1>0, <1>1, <2>1, Zenon
<1>7. CASE Delete \/ CliDelete
  BY <1>0, <1>2, <1>7 DEF Delete, CliDelete
<1> QED
  BY <1>4, <1>5, <1>6, <1>7

LEMMA TaskFacts ==
    ASSUME CertificatesTypeOK, NEW w \in Worker
    PROVE  /\ task[w] \in Task /\ task[w].step \in Step /\ task[w].half \in Half
           /\ task[w].name \in Name /\ task[w].pair \in Number /\ task[w].alone \in BOOLEAN
           /\ task[w].starts \in BOOLEAN
           /\ 0 \in Number
           /\ made \in Nat /\ (made < MaxPairs => made + 1 \in Number)
           /\ task[w].step # "idle" => task[w] # Idle
BY IdleFacts, CertificatesAssumption DEF CertificatesTypeOK, Number, Task

LEMMA CAStep ==
    ASSUME CertificatesInv, NEW w \in Worker, MakeCA(w) \/ MakeCASecond(w) \/ DeleteCA(w)
    PROVE  CertificatesInv'
<1>0. /\ CertificatesTypeOK /\ AloneInv /\ CAInv /\ ServerInv /\ IssuedInv /\ ca \in Pair
      /\ UNCHANGED <<serving, files, links, stamp, stops>>
      /\ task[w] \in Task
  BY TaskFacts DEF CertificatesInv, CertificatesTypeOK, MakeCA, MakeCASecond, DeleteCA
<1>1. CASE MakeCA(w)
  <2>. DEFINE h == First(task[w].tool)
              t == [task[w] EXCEPT !.step = "ca second", !.pair = made', !.half = Other(h)]
  <2>0. h \in Half /\ Other(h) \in Half /\ Other(Other(h)) = h
    BY Halves
  <2>1. /\ task[w].step = "ca" /\ made' = made + 1 /\ made < MaxPairs /\ broken' = broken
        /\ ca' = [ca EXCEPT ![h] = made'] /\ Goes(w, t)
    BY <1>1 DEF MakeCA, NewPair
  <2>2. made' \in Number /\ task[w] # Idle
    BY <1>0, <2>1, TaskFacts
  <2>3. /\ t \in Task /\ t.step = "ca second" /\ t.half = Other(h) /\ t.pair = made'
        /\ t.alone = task[w].alone
    <3>1. "ca second" \in Step
      BY DEF Step
    <3> QED
      BY <1>0, <2>0, <2>2, <3>1, Zenon DEF Task
  <2>. HIDE DEF h, t
  <2>4. ca' \in Pair /\ ca'[h] = made'
    BY <1>0, <2>0, <2>1, <2>2 DEF Pair
  <2>5. /\ task' \in [Worker -> Task] /\ task'[w] = t /\ AloneInv'
        /\ \A v \in Worker : v # w => task'[v] = task[v] /\ ~task[v].alone
    BY <1>0, <2>1, <2>2, <2>3, TaskGoes
  <2>6. CertificatesTypeOK'
    BY <1>0, <2>1, <2>2, <2>4, <2>5 DEF CertificatesTypeOK
  <2>7. CAInv'
    BY <2>0, <2>3, <2>4, <2>5 DEF CAInv
  <2>8. IssuedInv' /\ ServerInv'
    BY <1>0, <2>1, <2>3, <2>5, ServerKept DEF Replacing
  <2> QED
    BY <2>5, <2>6, <2>7, <2>8 DEF CertificatesInv
<1>2. CASE MakeCASecond(w)
  <2>1. /\ task[w].step = "ca second" /\ made' = made
        /\ ca' = [ca EXCEPT ![task[w].half] = task[w].pair]
        /\ broken' = IF task[w].alone THEN broken \ {"ca"} ELSE broken \cup {"ca"}
    BY <1>2 DEF MakeCASecond, Replaced
  <2>2. PICK tool \in {"mkcert", "openssl"} :
          Goes(w, [task[w] EXCEPT !.step = "issue", !.tool = tool, !.pair = 0, !.half = "cert"])
    BY <1>2 DEF MakeCASecond
  <2>. DEFINE t == [task[w] EXCEPT !.step = "issue", !.tool = tool, !.pair = 0, !.half = "cert"]
  <2>3. t \in Task /\ t.step = "issue" /\ t.alone = task[w].alone
    <3>1. "issue" \in Step /\ "cert" \in Half /\ 0 \in Number
      BY CertificateNumbers DEF Step, Half
    <3> QED
      BY <1>0, <3>1, Zenon DEF Task
  <2>4. Goes(w, t)
    BY <2>2
  <2>. HIDE DEF t
  <2>5. /\ task[w].half \in Half /\ Other(task[w].half) \in Half
        /\ Other(task[w].half) # task[w].half
        /\ task[w].pair \in Number /\ task[w] # Idle /\ task[w].alone \in BOOLEAN
    BY <1>0, <2>1, TaskFacts, Halves
  <2>6. /\ ca' \in Pair /\ ca'[task[w].half] = task[w].pair
        /\ ca'[Other(task[w].half)] = ca[Other(task[w].half)]
    BY <1>0, <2>1, <2>5 DEF Pair
  <2>7. /\ task' \in [Worker -> Task] /\ task'[w] = t /\ AloneInv'
        /\ \A v \in Worker : v # w => task'[v] = task[v] /\ ~task[v].alone
    BY <1>0, <2>3, <2>4, <2>5, TaskGoes
  <2>8. CertificatesTypeOK'
    BY <1>0, <2>1, <2>6, <2>7 DEF CertificatesTypeOK
  <2>9. CAInv'
    <3>1. CASE task[w].alone
      <4>1. ca[Other(task[w].half)] = task[w].pair
        BY <1>0, <2>1, <3>1 DEF CAInv
      <4>2. ca'["cert"] = ca'["key"]
        BY <2>5, <2>6, <4>1 DEF Half, Other
      <4> QED
        BY <2>3, <2>7, <4>2 DEF CAInv
    <3>2. CASE ~task[w].alone
      <4>1. "ca" \in broken'
        BY <2>1, <3>2
      <4> QED
        BY <2>3, <2>7, <4>1 DEF CAInv
    <3> QED
      BY <3>1, <3>2
  <2>10. IssuedInv' /\ ServerInv'
    <3>1. "server" \in broken' <=> "server" \in broken
      BY <2>1
    <3> QED
      BY <1>0, <2>1, <2>3, <2>7, <3>1, ServerKept DEF Replacing
  <2> QED
    BY <2>7, <2>8, <2>9, <2>10 DEF CertificatesInv
<1>3. CASE DeleteCA(w)
  <2>1. task[w].step = "delete ca" /\ made' = made /\ broken' = broken
    BY <1>3 DEF DeleteCA
  <2>2. CASE Goes(w, Idle) /\ ca' = ca
    <3>1. task[w] # Idle
      BY <1>0, <2>1, TaskFacts
    <3>2. /\ task' \in [Worker -> Task] /\ task'[w] = Idle /\ AloneInv'
          /\ \A v \in Worker : v # w => task'[v] = task[v]
      BY <1>0, <2>2, <3>1, IdleFacts, TaskGoes
    <3>3. CAInv'
      BY <1>0, <2>1, <2>2, <3>2, IdleFacts, CAKept
    <3>4. IssuedInv' /\ ServerInv'
      BY <1>0, <2>1, <3>2, IdleFacts, ServerKept DEF Replacing
    <3> QED
      BY <1>0, <2>1, <2>2, <3>2, <3>3, <3>4 DEF CertificatesInv, CertificatesTypeOK
  <2>3. CASE \E h \in Half : ca[h] # 0 /\ ca' = [ca EXCEPT ![h] = 0] /\ UNCHANGED task
    <3>1. PICK h \in Half : ca' = [ca EXCEPT ![h] = 0] /\ task' = task
      BY <2>3
    <3>2. ca' \in Pair /\ ca'[h] = 0
      BY <1>0, <3>1, CertificateNumbers DEF Pair
    <3>3. ~CAExists'
      BY <3>2 DEF CAExists
    <3>4. \A v \in Worker : ~(task[v].alone /\ task[v].step = "ca second")
      BY <1>0, <2>1, IdleFacts, Workers DEF AloneInv
    <3>5. CAInv'
      BY <3>1, <3>3, <3>4 DEF CAInv
    <3>6. IssuedInv' /\ ServerInv'
      BY <1>0, <2>1, <3>1, ServerKept DEF Replacing
    <3> QED
      BY <1>0, <2>1, <3>1, <3>2, <3>5, <3>6 DEF CertificatesInv, CertificatesTypeOK, AloneInv
  <2> QED
    BY <1>3, <2>2, <2>3 DEF DeleteCA
<1> QED
  BY <1>1, <1>2, <1>3

LEMMA IssueStep ==
    ASSUME CertificatesInv, NEW w \in Worker, Issue(w) \/ IssueSecond(w)
    PROVE  CertificatesInv'
<1>0. /\ CertificatesTypeOK /\ AloneInv /\ CAInv /\ IssuedInv /\ ServerInv
      /\ task[w] \in Task /\ stamp \in Name /\ files \in [Name -> Pair]
      /\ UNCHANGED <<serving, ca, links, stamp, stops, broken>>
  BY TaskFacts DEF CertificatesInv, CertificatesTypeOK, Issue, IssueSecond
<1>1. CASE Issue(w)
  <2>. DEFINE h == First(task[w].tool)
              t == [task[w] EXCEPT !.step = "issue second", !.name = stamp, !.pair = made',
                                   !.half = Other(h)]
  <2>0. h \in Half /\ Other(h) \in Half /\ Other(Other(h)) = h
    BY Halves
  <2>1. /\ task[w].step = "issue" /\ made' = made + 1 /\ made < MaxPairs
        /\ files' = [files EXCEPT ![stamp][h] = made'] /\ Goes(w, t)
    BY <1>1 DEF Issue, NewPair
  <2>2. made' \in Number /\ task[w] # Idle
    BY <1>0, <2>1, TaskFacts
  <2>3. /\ t \in Task /\ t.step = "issue second" /\ t.name = stamp /\ t.half = Other(h)
        /\ t.pair = made' /\ t.alone = task[w].alone
    <3>1. "issue second" \in Step
      BY DEF Step
    <3> QED
      BY <1>0, <2>0, <2>2, <3>1, Zenon DEF Task
  <2>. HIDE DEF h, t
  <2>4. /\ files' \in [Name -> Pair] /\ files'[stamp][h] = made'
        /\ \A n \in Name : n # stamp => files'[n] = files[n]
    BY <1>0, <2>0, <2>1, <2>2 DEF Pair
  <2>5. /\ task' \in [Worker -> Task] /\ task'[w] = t /\ AloneInv'
        /\ \A v \in Worker : v # w => task'[v] = task[v] /\ ~task[v].alone
    BY <1>0, <2>1, <2>2, <2>3, TaskGoes
  <2>6. CertificatesTypeOK'
    BY <1>0, <2>2, <2>4, <2>5 DEF CertificatesTypeOK
  <2>7. CAInv'
    BY <1>0, <2>1, <2>3, <2>5, CAKept
  <2>8. IssuedInv'
    BY <2>0, <2>3, <2>4, <2>5 DEF IssuedInv, Issued
  <2>9. ASSUME \A v \in Worker : ~Replacing(v)', "server" \notin broken'
        PROVE  ChosenMatch'
    <3>1. \A g \in Half : links[g] # stamp
      BY <1>0, <2>3, <2>5, <2>9 DEF Replacing
    <3>2. \A g \in Half : links[g] \in Name \cup {0}
      BY <1>0 DEF CertificatesTypeOK
    <3>3. \A g \in Half : Chosen'[g] = Chosen[g]
      BY <1>0, <2>4, <3>1, <3>2 DEF Chosen
    <3>4. \A v \in Worker : ~Replacing(v)
      BY <1>0, <2>1, <2>5, <2>9 DEF Replacing
    <3>5. ChosenMatch
      BY <1>0, <2>9, <3>4 DEF ServerInv
    <3> QED
      BY <3>3, <3>5, ChosenFewer
  <2> QED
    BY <2>5, <2>6, <2>7, <2>8, <2>9 DEF CertificatesInv, ServerInv
<1>2. CASE IssueSecond(w)
  <2>. DEFINE t == [task[w] EXCEPT !.step = "link", !.half = "cert", !.tool = Idle.tool, !.pair = 0]
  <2>1. /\ task[w].step = "issue second" /\ made' = made
        /\ files' = [files EXCEPT ![task[w].name][task[w].half] = task[w].pair]
        /\ Goes(w, t)
    BY <1>2 DEF IssueSecond
  <2>2. /\ task[w].half \in Half /\ Other(task[w].half) \in Half
        /\ Other(task[w].half) # task[w].half
        /\ task[w].pair \in Number /\ task[w].name \in Name /\ task[w] # Idle
    BY <1>0, <2>1, TaskFacts, Halves
  <2>3. /\ t \in Task /\ t.step = "link" /\ t.name = task[w].name /\ t.half = "cert"
        /\ t.alone = task[w].alone
    <3>1. "link" \in Step /\ "cert" \in Half /\ Idle.tool \in {"mkcert", "openssl"} /\ 0 \in Number
      BY IdleFacts, CertificateNumbers DEF Step, Half
    <3> QED
      BY <1>0, <3>1, Zenon DEF Task
  <2>. HIDE DEF t
  <2>4. /\ files' \in [Name -> Pair]
        /\ files'[task[w].name][task[w].half] = task[w].pair
        /\ files'[task[w].name][Other(task[w].half)] = files[task[w].name][Other(task[w].half)]
    BY <1>0, <2>1, <2>2 DEF Pair
  <2>5. /\ task' \in [Worker -> Task] /\ task'[w] = t /\ AloneInv'
        /\ \A v \in Worker : v # w => task'[v] = task[v] /\ ~task[v].alone
    BY <1>0, <2>1, <2>2, <2>3, TaskGoes
  <2>6. CertificatesTypeOK'
    BY <1>0, <2>1, <2>4, <2>5 DEF CertificatesTypeOK
  <2>7. CAInv'
    BY <1>0, <2>1, <2>3, <2>5, CAKept
  <2>8. IssuedInv'
    <3>1. task[w].alone => files[task[w].name][Other(task[w].half)] = task[w].pair
      BY <1>0, <2>1 DEF IssuedInv, Issued
    <3>2. task[w].alone => files'[task[w].name]["cert"] = files'[task[w].name]["key"]
      BY <2>2, <2>4, <3>1 DEF Half, Other
    <3> QED
      BY <2>3, <2>5, <3>2 DEF IssuedInv, Issued
  <2>9. ServerInv'
    BY <2>3, <2>5 DEF ServerInv, Replacing
  <2> QED
    BY <2>5, <2>6, <2>7, <2>8, <2>9 DEF CertificatesInv
<1> QED
  BY <1>1, <1>2

\* The state a task is in when it may link.
LEMMA LinkFacts ==
    ASSUME CertificatesInv, NEW w \in Worker, task[w].step \in {"link", "symlink"},
           NEW t \in Task, Goes(w, t), t.alone => task[w].alone,
           t.step # "ca second", UNCHANGED <<ca, files, made, stamp, stops>>,
           "ca" \in broken' <=> "ca" \in broken, broken' \subseteq {"ca", "server"},
           links' \in [Half -> Name \cup {0}], serving' \in {"down", "http", "https"}
    PROVE  /\ CertificatesTypeOK' /\ AloneInv' /\ CAInv'
           /\ task'[w] = t
           /\ \A v \in Worker : v # w => task'[v] = task[v] /\ ~task[v].alone
<1>0. CertificatesTypeOK /\ AloneInv /\ CAInv
  BY DEF CertificatesInv
<1>1. task[w] # Idle
  BY IdleFacts
<1>2. /\ task' \in [Worker -> Task] /\ task'[w] = t /\ AloneInv'
      /\ \A v \in Worker : v # w => task'[v] = task[v] /\ ~task[v].alone
  BY <1>0, <1>1, TaskGoes
<1>3. CAInv'
  BY <1>0, <1>2, CAKept
<1> QED
  BY <1>0, <1>2, <1>3 DEF CertificatesTypeOK

LEMMA LinkStep ==
    ASSUME CertificatesInv, NEW w \in Worker, Unlink(w) \/ LinkCert(w) \/ LinkKey(w)
    PROVE  CertificatesInv'
<1>0. /\ CertificatesTypeOK /\ AloneInv /\ CAInv /\ IssuedInv /\ ServerInv
      /\ task[w] \in Task /\ task[w].step \in {"link", "symlink"}
      /\ links \in [Half -> Name \cup {0}] /\ task[w].name \in Name /\ task[w].half \in Half
      /\ broken \subseteq {"ca", "server"} /\ serving \in {"down", "http", "https"}
      /\ UNCHANGED <<ca, files, made, stamp, stops>>
      /\ "cert" \in Half /\ "key" \in Half
  BY TaskFacts
     DEF CertificatesInv, CertificatesTypeOK, Unlink, LinkCert, LinkKey, Links, Half
<1>1. /\ task[w].alone => files[task[w].name]["cert"] = files[task[w].name]["key"]
      /\ task[w].alone /\ task[w].half = "key" => links["cert"] = task[w].name
  BY <1>0 DEF IssuedInv, Issued
<1>2. CASE Unlink(w)
  <2>. DEFINE t == [task[w] EXCEPT !.step = "symlink"]
  <2>1. /\ links' = [links EXCEPT ![task[w].half] = 0] /\ Goes(w, t)
        /\ broken' = broken /\ serving' = serving
    BY <1>2 DEF Unlink
  <2>2. /\ t \in Task /\ t.step = "symlink" /\ t.name = task[w].name
        /\ t.half = task[w].half /\ t.alone = task[w].alone
    <3>1. "symlink" \in Step
      BY DEF Step
    <3> QED
      BY <1>0, <3>1, Zenon DEF Task
  <2>. HIDE DEF t
  <2>3. /\ links' \in [Half -> Name \cup {0}]
        /\ task[w].half = "key" => links'["cert"] = links["cert"]
    BY <1>0, <2>1
  <2>4. /\ CertificatesTypeOK' /\ AloneInv' /\ CAInv' /\ task'[w] = t
        /\ \A v \in Worker : v # w => task'[v] = task[v] /\ ~task[v].alone
    BY <1>0, <2>1, <2>2, <2>3, LinkFacts
  <2>5. IssuedInv'
    BY <1>0, <1>1, <2>2, <2>3, <2>4 DEF IssuedInv, Issued
  <2>6. ServerInv'
    BY <2>2, <2>4 DEF ServerInv, Replacing
  <2> QED
    BY <2>4, <2>5, <2>6 DEF CertificatesInv
<1>3. CASE LinkCert(w)
  <2>. DEFINE t == [task[w] EXCEPT !.step = "link", !.half = "key"]
  <2>1. /\ links' = [links EXCEPT !["cert"] = task[w].name] /\ Goes(w, t)
        /\ broken' = broken /\ serving' = serving
    BY <1>3 DEF LinkCert, Links
  <2>2. /\ t \in Task /\ t.step = "link" /\ t.name = task[w].name /\ t.alone = task[w].alone
    <3>1. "link" \in Step
      BY DEF Step
    <3> QED
      BY <1>0, <3>1, Zenon DEF Task
  <2>. HIDE DEF t
  <2>3. links' \in [Half -> Name \cup {0}] /\ links'["cert"] = task[w].name
    BY <1>0, <2>1
  <2>4. /\ CertificatesTypeOK' /\ AloneInv' /\ CAInv' /\ task'[w] = t
        /\ \A v \in Worker : v # w => task'[v] = task[v] /\ ~task[v].alone
    BY <1>0, <2>1, <2>2, <2>3, LinkFacts
  <2>5. IssuedInv'
    BY <1>0, <1>1, <2>2, <2>3, <2>4 DEF IssuedInv, Issued
  <2>6. ServerInv'
    BY <2>2, <2>4 DEF ServerInv, Replacing
  <2> QED
    BY <2>4, <2>5, <2>6 DEF CertificatesInv
<1>4. CASE LinkKey(w)
  <2>1. /\ links' = [links EXCEPT !["key"] = task[w].name] /\ Goes(w, Idle)
        /\ serving' = IF task[w].starts THEN ServedWith(files[task[w].name]) ELSE serving
        /\ broken' = IF task[w].alone THEN broken \ {"server"} ELSE broken \cup {"server"}
        /\ task[w].half = "key"
    BY <1>4 DEF LinkKey, Links, LinkDone, Replaced
  <2>2. /\ links' \in [Half -> Name \cup {0}] /\ links'["key"] = task[w].name
        /\ links'["cert"] = links["cert"]
    BY <1>0, <2>1
  <2>3. serving' \in {"down", "http", "https"}
    BY <1>0, <2>1 DEF ServedWith
  <2>4. /\ "ca" \in broken' <=> "ca" \in broken
        /\ broken' \subseteq {"ca", "server"}
    BY <1>0, <2>1
  <2>5. /\ CertificatesTypeOK' /\ AloneInv' /\ CAInv' /\ task'[w] = Idle
        /\ \A v \in Worker : v # w => task'[v] = task[v] /\ ~task[v].alone
    BY <1>0, <2>1, <2>2, <2>3, <2>4, IdleFacts, LinkFacts
  <2>6. IssuedInv'
    BY <2>5, IdleFacts DEF IssuedInv, Issued
  <2>7. ServerInv'
    <3>1. CASE task[w].alone
      <4>1. links'["cert"] = task[w].name /\ task[w].name # 0
        BY <1>0, <1>1, <2>1, <2>2, <3>1, CertificateNumbers
      <4>2. /\ Chosen'["cert"] = files[task[w].name]["cert"]
            /\ Chosen'["key"] = files[task[w].name]["key"]
        BY <1>0, <2>2, <4>1 DEF Chosen
      <4> QED
        BY <1>1, <3>1, <4>2 DEF ServerInv, ChosenMatch
    <3>2. CASE ~task[w].alone
      BY <2>1, <3>2 DEF ServerInv
    <3> QED
      BY <3>1, <3>2
  <2> QED
    BY <2>5, <2>6, <2>7 DEF CertificatesInv
<1> QED
  BY <1>2, <1>3, <1>4

LEMMA DeleteStep ==
    ASSUME CertificatesInv, NEW w \in Worker, DeleteOne(w)
    PROVE  CertificatesInv'
<1>0. /\ CertificatesTypeOK /\ AloneInv /\ CAInv /\ IssuedInv /\ ServerInv
      /\ task[w].step = "delete" /\ task[w] \in Task /\ task[w] # Idle
      /\ files \in [Name -> Pair] /\ links \in [Half -> Name \cup {0}]
      /\ UNCHANGED <<serving, ca, made, stamp, stops, broken>>
  BY TaskFacts DEF CertificatesInv, CertificatesTypeOK, DeleteOne
\* Neither task has the files to itself and is making a pair.
<1>1. /\ \A v \in Worker : v # w => ~task[v].alone
      /\ \A v \in Worker : task[v].alone => task[v].step = "delete"
  BY <1>0, Workers DEF AloneInv
\* What the removal of a file or a link leaves.
<1>2. ASSUME task' = task, files' \in [Name -> Pair], links' \in [Half -> Name \cup {0}],
             ServerInv'
      PROVE  CertificatesInv'
  <2>1. CertificatesTypeOK' /\ AloneInv'
    BY <1>0, <1>2 DEF CertificatesTypeOK, AloneInv
  <2>2. CAInv'
    BY <1>0, <1>2, CAKept
  <2>3. IssuedInv'
    BY <1>1, <1>2 DEF IssuedInv, Issued
  <2> QED
    BY <1>2, <2>1, <2>2, <2>3 DEF CertificatesInv
<1>3. ASSUME NEW n \in Name, NEW h \in Half, files' = [files EXCEPT ![n][h] = 0],
             links' = links, task' = task
      PROVE  CertificatesInv'
  <2>1. /\ files' \in [Name -> Pair]
        /\ \A m \in Name, g \in Half : files'[m][g] = 0 \/ files'[m][g] = files[m][g]
    BY <1>0, <1>3, CertificateNumbers DEF Pair
  <2>2. \A g \in Half : links[g] \in Name \cup {0}
    BY <1>0
  <2>3. \A g \in Half : Chosen'[g] = 0 \/ Chosen'[g] = Chosen[g]
    BY <1>3, <2>1, <2>2 DEF Chosen
  <2>4. \A v \in Worker : Replacing(v)' <=> Replacing(v)
    BY <1>3 DEF Replacing
  <2>5. ServerInv'
    BY <1>0, <2>3, <2>4, ChosenFewer DEF ServerInv
  <2> QED
    BY <1>0, <1>2, <1>3, <2>1, <2>5
<1>4. ASSUME NEW h \in Half, links' = [links EXCEPT ![h] = 0], files' = files, task' = task
      PROVE  CertificatesInv'
  <2>1. links' \in [Half -> Name \cup {0}] /\ links'[h] = 0
    BY <1>0, <1>4
  <2>2. ~CertsExist'
    BY <2>1 DEF CertsExist, Chosen
  <2>3. ServerInv'
    BY <2>2 DEF ServerInv, ChosenMatch
  <2> QED
    BY <1>0, <1>2, <1>4, <2>1, <2>3
<1>5. ASSUME Goes(w, [task[w] EXCEPT !.step = "delete ca"]), files' = files, links' = links
      PROVE  CertificatesInv'
  <2>. DEFINE t == [task[w] EXCEPT !.step = "delete ca"]
  <2>1. t \in Task /\ t.step = "delete ca" /\ t.alone = task[w].alone
    <3>1. "delete ca" \in Step
      BY DEF Step
    <3> QED
      BY <1>0, <3>1, Zenon DEF Task
  <2>2. Goes(w, t)
    BY <1>5
  <2>. HIDE DEF t
  <2>3. /\ task' \in [Worker -> Task] /\ task'[w] = t /\ AloneInv'
        /\ \A v \in Worker : v # w => task'[v] = task[v] /\ ~task[v].alone
    BY <1>0, <2>1, <2>2, TaskGoes
  <2>4. CAInv'
    BY <1>0, <2>1, <2>3, CAKept
  <2>5. IssuedInv' /\ ServerInv'
    BY <1>0, <1>5, <2>1, <2>3, ServerKept DEF Replacing
  <2> QED
    BY <1>0, <1>5, <2>3, <2>4, <2>5 DEF CertificatesInv, CertificatesTypeOK
<1> QED
  BY <1>3, <1>4, <1>5 DEF DeleteOne

\* What a task leaves half done is known to be broken.
LEMMA EndStep ==
    ASSUME CertificatesInv, NEW W \in SUBSET Worker, Cut(W),
           serving' \in {"down", "http", "https"}
    PROVE  CertificatesInv'
<1>0. /\ CertificatesTypeOK /\ AloneInv /\ CAInv /\ IssuedInv /\ ServerInv
      /\ task \in [Worker -> Task]
      /\ task' = [w \in Worker |-> IF w \in W THEN Idle ELSE task[w]]
      /\ broken' = broken \cup UNION {HalfDone(w) : w \in W}
      /\ UNCHANGED <<ca, files, links, made, stamp>>
      /\ stops' = stops + 1 /\ stops < MaxStops
  BY DEF CertificatesInv, CertificatesTypeOK, Cut
<1>1. /\ task' \in [Worker -> Task]
      /\ \A w \in Worker : task'[w] = IF w \in W THEN Idle ELSE task[w]
  BY <1>0, IdleFacts
<1>2. /\ broken' \subseteq {"ca", "server"} /\ broken \subseteq broken'
      /\ \A w \in W : HalfDone(w) \subseteq broken'
  <2>1. \A w \in W : HalfDone(w) \subseteq {"ca", "server"}
    BY HalfDoneFacts
  <2> QED
    BY <1>0, <2>1 DEF CertificatesTypeOK
<1>3. CertificatesTypeOK'
  <2>1. stops' \in 0..MaxStops
    BY <1>0, CertificatesAssumption DEF CertificatesTypeOK
  <2> QED
    BY <1>0, <1>1, <1>2, <2>1 DEF CertificatesTypeOK
<1>4. AloneInv'
  BY <1>0, <1>1, IdleFacts, Workers DEF AloneInv
<1>5. CAInv'
  <2>1. \A w \in Worker : task'[w].alone /\ task'[w].step = "ca second" =>
                            ca'[Other(task'[w].half)] = task'[w].pair
    BY <1>0, <1>1, IdleFacts DEF CAInv
  <2>2. ASSUME \A w \in Worker : task'[w].step # "ca second", "ca" \notin broken', CAExists'
        PROVE  ca'["cert"] = ca'["key"]
    <3>1. \A w \in Worker : task[w].step # "ca second"
      BY <1>1, <1>2, <2>2, HalfDoneFacts
    <3>2. CAExists
      BY <1>0, <2>2 DEF CAExists
    <3> QED
      BY <1>0, <1>2, <2>2, <3>1, <3>2 DEF CAInv
  <2> QED
    BY <2>1, <2>2 DEF CAInv
<1>6. IssuedInv'
  BY <1>0, <1>1, IdleFacts DEF IssuedInv, Issued
<1>7. ServerInv'
  <2>1. ChosenMatch' <=> ChosenMatch
    BY <1>0 DEF ChosenMatch, CertsExist, Chosen
  <2>2. ASSUME \A w \in Worker : ~Replacing(w)', "server" \notin broken'
        PROVE  \A w \in Worker : ~Replacing(w)
    <3> SUFFICES ASSUME NEW w \in Worker PROVE ~Replacing(w)
      OBVIOUS
    <3>1. CASE w \in W
      BY <1>2, <2>2, <3>1, HalfDoneFacts
    <3>2. CASE w \notin W
      BY <1>0, <1>1, <2>2, <3>2 DEF Replacing
    <3> QED
      BY <3>1, <3>2
  <2> QED
    BY <1>0, <1>2, <2>1, <2>2 DEF ServerInv
<1> QED
  BY <1>3, <1>4, <1>5, <1>6, <1>7 DEF CertificatesInv

LEMMA CertificatesInvStep ==
    CertificatesInv /\ (CertificateStep \/ ProcessDies \/ UNCHANGED certVars)
        => CertificatesInv'
<1> SUFFICES ASSUME CertificatesInv, CertificateStep \/ ProcessDies \/ UNCHANGED certVars
             PROVE  CertificatesInv'
  OBVIOUS
<1>1. ASSUME UNCHANGED <<serving, ca, files, links, task, made, stops, broken>>, stamp' \in Name
      PROVE  CertificatesInv'
  BY <1>1 DEF CertificatesInv, CertificatesTypeOK, AloneInv, CAInv, CAExists, IssuedInv, Issued,
              ServerInv, Replacing, ChosenMatch, CertsExist, Chosen
<1>2. CASE ClockTicks
  <2>1. stamp' \in Name
    BY <1>2, CertificatesAssumption DEF ClockTicks, CertificatesInv, CertificatesTypeOK, Name
  <2> QED
    BY <1>1, <1>2, <2>1 DEF ClockTicks
<1>3. CASE UNCHANGED certVars
  BY <1>1, <1>3 DEF certVars, CertificatesInv, CertificatesTypeOK
<1>4. CASE ProcessDies
  <2>1. PICK W \in {{"backend"}, Worker} : Cut(W)
    BY <1>4 DEF ProcessDies
  <2>2. W \in SUBSET Worker /\ serving' \in {"down", "http", "https"}
    BY <1>4 DEF ProcessDies, Worker
  <2> QED
    BY <2>1, <2>2, EndStep
<1>5. ASSUME NEW w \in Worker, TaskStep(w) PROVE CertificatesInv'
  <2>1. CASE TaskFails(w)
    <3>1. Cut({w}) /\ {w} \in SUBSET Worker
      BY <2>1 DEF TaskFails
    <3>2. serving' \in {"down", "http", "https"}
      BY <2>1 DEF TaskFails, CertificatesInv, CertificatesTypeOK
    <3> QED
      BY <3>1, <3>2, EndStep
  <2> QED
    BY <1>5, <2>1, CAStep, IssueStep, LinkStep, DeleteStep DEF TaskStep
<1> QED
  BY <1>2, <1>3, <1>4, <1>5, BeginsStep DEF CertificateStep

(* Whatever is generated, deleted, interrupted or killed, in the backend   *)
(* and from the command line, the halves that are chosen between tasks are *)
(* of one pair unless a task that replaced them was interrupted or ran     *)
(* under the other program's: backend/ssl_manager.py and bin/pinet.        *)
THEOREM PairsAreMatched == ServicesSpec => []PairsMatch
<1>1. ServicesInit => CertificatesInv
  BY CertificatesInvInit DEF ServicesInit
<1>2. CertificatesInv /\ [ServicesNext]_servicesVars => CertificatesInv'
  BY CertificateSteps, CertificatesInvStep
<1>3. CertificatesInv => PairsMatch
  BY IdleFacts DEF CertificatesInv, CAInv, ServerInv, ChosenMatch, Replacing, PairsMatch
<1> QED
  BY <1>1, <1>2, <1>3, PTL DEF ServicesSpec

=============================================================================
