--------------------------- MODULE AppStateProofs ---------------------------
(***************************************************************************)
(* Machine-checked theorems about AppState, for any nodes, any settings,   *)
(* any number of requests at a time and any bounds.                        *)
(***************************************************************************)
EXTENDS AppState, TLAPS

-----------------------------------------------------------------------------
(* The settings in the file and in memory are both of those promised or    *)
(* attempted since: the file may be older than memory, but not than the    *)
(* last promise.                                                           *)
SettingsInv ==
    ~lost =>
        /\ up => mem["settings"] \in {promised} \cup attempted
        /\ file # Unreadable => file["settings"] \in {promised} \cup attempted

\* Only a discovery has probes pending.
PendingInv ==
    \A r \in Requests :
        pending[r] # {} => job[r] \in {"discover", "discover raised"}

Inv == TypeOK /\ SettingsInv /\ PendingInv /\ BusyMeansRunning /\ ShownIsSaved

Keys == Group \cup Nodes
Values == Settings \cup Status
Working == Kind \cup {"none", "discover", "discover raised"}

-----------------------------------------------------------------------------
(* The tables. *)

LEMMA KeyOfKind ==
    ASSUME NEW k \in Kind
    PROVE  /\ Key(k) \in Keys
           /\ Key(k) # "settings"
           /\ k \notin {"none", "discover", "discover raised"}
<1>1. CASE k \in Nodes
  BY <1>1, KeysAssumption DEF Key, Keys, Group
<1>2. CASE k \in Group \ {"settings"}
  BY <1>2 DEF Key, Keys, Group
<1>3. CASE k = "release"
  BY <1>3 DEF Key, Keys, Group
<1> QED
  BY <1>1, <1>2, <1>3 DEF Kind

LEMMA BusyIsStatus ==
    ASSUME NEW k \in Kind
    PROVE  Busy(k) \subseteq Status
BY DEF Busy, Status

LEMMA OutcomesNotBusy ==
    ASSUME NEW k \in Kind, NEW o \in Outcomes(k) \ {"none"}, Key(k) \in Announced
    PROVE  o # Announces(Key(k))
BY KeysAssumption DEF Key, Kind, Group, Announced, Announces, Outcomes

\* Who announces a result is who will report it.
LEMMA AnnouncerAnnounces ==
    ASSUME NEW k \in Kind, NEW busy \in Busy(k), Key(k) \in Announced,
           busy = Announces(Key(k))
    PROVE  k = Announcer(Key(k))
BY KeysAssumption DEF Key, Kind, Group, Announced, Announces, Announcer, Busy

LEMMA AnnouncersEnd ==
    ASSUME NEW l \in Announced
    PROVE  /\ Announcer(l) \in Kind /\ Key(Announcer(l)) = l
           /\ Announcer(l) # "none"
           /\ "none" \notin Outcomes(Announcer(l))
BY DEF Announced, Announcer, Kind, Group, Key, Outcomes

\* One key of the state changed.
LEMMA Updated ==
    ASSUME NEW m \in State, NEW k \in Keys, NEW v \in Values
    PROVE  /\ [m EXCEPT ![k] = v] \in State
           /\ [m EXCEPT ![k] = v][k] = v
           /\ \A l \in Keys \ {k} : [m EXCEPT ![k] = v][l] = m[l]
BY DEF State, Keys, Values

LEMMA AnnouncedAreKeys == Announced \subseteq Keys
BY DEF Announced, Keys, Group

LEMMA DefaultIsState == Default \in State /\ Default["settings"] = DefaultSettings
<1>1. \A k \in Keys : Default[k] \in Values
  BY SettingsAssumption DEF Default, Keys, Values, Status, Group
<1>2. Default = [k \in Keys |-> Default[k]]
  BY DEF Default, Keys
<1>3. Default \in State
  BY <1>1, <1>2 DEF State, Keys, Values
<1>4. Default["settings"] = DefaultSettings
  BY DEF Default, Group
<1> QED
  BY <1>3, <1>4

LEMMA StateReadable == \A m \in State : m # Unreadable
BY KeysAssumption DEF State

LEMMA SettingsIsKey == "settings" \in Keys /\ Settings \subseteq Values /\ Status \subseteq Values
BY DEF Keys, Group, Values

-----------------------------------------------------------------------------
(* The initial states. *)

LEMMA InitInv == Init => Inv
<1> SUFFICES ASSUME Init PROVE Inv
  OBVIOUS
<1>1. file = Unreadable \/ (file \in State /\ file["settings"] = DefaultSettings)
  <2> SUFFICES ASSUME NEW nodes \in {{}, Nodes}, NEW health \in {"unknown", "checking"},
                      file = [k \in Group \cup Nodes |->
                                 IF k \in nodes THEN "online"
                                 ELSE IF k = "health" THEN health ELSE Default[k]]
               PROVE  file \in State /\ file["settings"] = DefaultSettings
    BY DEF Init
  <2>1. "settings" \notin nodes
    BY KeysAssumption DEF Group
  <2>2. file["settings"] = DefaultSettings
    BY <2>1, DefaultIsState DEF Group
  <2>3. \A k \in Keys : file[k] \in Values
    <3>1. {"online", "unknown", "checking"} \subseteq Values
      BY DEF Values, Status
    <3>2. \A k \in Keys : Default[k] \in Values
      BY DefaultIsState DEF State, Keys, Values
    <3> QED
      BY <3>1, <3>2 DEF Keys
  <2>4. file = [k \in Keys |-> file[k]]
    BY DEF Keys
  <2> QED
    BY <2>2, <2>3, <2>4 DEF State, Keys, Values
<1>2. TypeOK
  <2>1. 0 \in 0..MaxRequests /\ 0 \in 0..MaxDeaths /\ 0 \in 0..MaxFaults
    BY BoundsAssumption
  <2>2. job \in [Requests -> Kind \cup {"none", "discover", "discover raised"}]
    BY DEF Init
  <2>3. pending \in [Requests -> SUBSET Nodes]
    BY DEF Init
  <2>4. mem \in State /\ file \in State \cup {Unreadable}
    BY <1>1, DefaultIsState DEF Init
  <2>5. promised \in Settings
    BY SettingsAssumption DEF Init
  <2> QED
    BY <2>1, <2>2, <2>3, <2>4, <2>5 DEF Init, TypeOK
<1>3. SettingsInv
  BY <1>1 DEF Init, SettingsInv
<1>4. PendingInv
  BY DEF Init, PendingInv
<1>5. BusyMeansRunning /\ ShownIsSaved
  BY DEF Init, BusyMeansRunning, ShownIsSaved
<1> QED
  BY <1>2, <1>3, <1>4, <1>5 DEF Inv

-----------------------------------------------------------------------------
(* What every save does. *)

LEMMA SaveEffect ==
    ASSUME TypeOK, NEW m \in State, Saved(m) \/ SaveRaises(m)
    PROVE  /\ mem' = m
           /\ file' \in {m, file, Unreadable}
           /\ file' \in State \cup {Unreadable}
           /\ faults' \in 0..MaxFaults
           /\ unsaved' \in BOOLEAN
           /\ ~unsaved' => file' = m
<1>1. CASE Saved(m)
  BY <1>1 DEF Saved, TypeOK
<1>2. CASE SaveRaises(m)
  <2>0. faults \in 0..MaxFaults /\ faults < MaxFaults /\ faults' = faults + 1
    BY <1>2 DEF SaveRaises, TypeOK
  <2>1. faults' \in 0..MaxFaults
    BY <2>0, BoundsAssumption
  <2>2. file' \in {file, Unreadable}
    BY <1>2 DEF SaveRaises
  <2> QED
    BY <1>2, <2>1, <2>2 DEF SaveRaises, TypeOK
<1> QED
  BY <1>1, <1>2

LEMMA ArrivesEffect ==
    ASSUME TypeOK, Arrives
    PROVE  /\ up /\ up' = up /\ deaths' = deaths
           /\ requests' \in 0..MaxRequests
<1>0. requests \in 0..MaxRequests /\ requests < MaxRequests /\ requests' = requests + 1
  BY DEF Arrives, TypeOK
<1>1. requests' \in 0..MaxRequests
  BY <1>0, BoundsAssumption
<1> QED
  BY <1>1 DEF Arrives

\* A save of a state with the settings of memory keeps SettingsInv.
LEMMA SavedSettings ==
    ASSUME TypeOK, SettingsInv, up, NEW m \in State, Saved(m) \/ SaveRaises(m),
           m["settings"] = mem["settings"], promised' = promised, attempted' = attempted, lost' = lost
    PROVE  SettingsInv'
BY SaveEffect DEF SettingsInv

LEMMA BootInv == Inv /\ Boot => Inv'
<1> SUFFICES ASSUME Inv, Boot PROVE Inv'
  OBVIOUS
<1>1. Loadable(file) => file \in State
  BY DEF Inv, TypeOK, Loadable
<1>2. mem' \in State
  BY <1>1, DefaultIsState DEF Boot
<1>3. leftover' = BusyIn(mem') /\ BusyIn(mem') \subseteq Announced
  BY DEF Boot, BusyIn
<1>4. TypeOK'
  BY <1>2, <1>3 DEF Inv, TypeOK, Boot, counters
<1>5. SettingsInv'
  BY DEF Inv, SettingsInv, Boot, Loadable
<1>6. PendingInv'
  BY DEF Inv, PendingInv, Boot
<1>7. BusyMeansRunning'
  BY <1>3 DEF BusyMeansRunning
<1>8. ShownIsSaved'
  BY DEF Boot, ShownIsSaved
<1> QED
  BY <1>4, <1>5, <1>6, <1>7, <1>8 DEF Inv

LEMMA DiesInv == Inv /\ Dies => Inv'
<1> SUFFICES ASSUME Inv, Dies PROVE Inv'
  OBVIOUS
<1>1. deaths \in 0..MaxDeaths /\ deaths < MaxDeaths /\ deaths' = deaths + 1
  BY DEF Inv, TypeOK, Dies
<1>0. deaths' \in 0..MaxDeaths
  BY <1>1, BoundsAssumption
<1>2. mem' \in State /\ file' \in State \cup {Unreadable}
  BY DefaultIsState DEF Inv, TypeOK, Dies
<1>3. job' \in [Requests -> Kind \cup {"none", "discover", "discover raised"}]
  BY DEF Dies
<1>4. pending' \in [Requests -> SUBSET Nodes]
  BY DEF Dies
<1>5. TypeOK'
  BY <1>0, <1>2, <1>3, <1>4 DEF Inv, TypeOK, Dies, history, promises
<1>6. SettingsInv'
  BY DEF Inv, SettingsInv, Dies, history, promises
<1>7. PendingInv' /\ BusyMeansRunning' /\ ShownIsSaved'
  BY DEF Dies, PendingInv, BusyMeansRunning, ShownIsSaved
<1> QED
  BY <1>5, <1>6, <1>7 DEF Inv

LEMMA PollInv == Inv /\ Poll => Inv'
<1> SUFFICES ASSUME Inv, Poll PROVE Inv'
  OBVIOUS
<1>1. TypeOK /\ mem \in State /\ up /\ (Saved(mem) \/ SaveRaises(mem))
  BY DEF Inv, TypeOK, Poll
<1>2. TypeOK'
  BY <1>1, SaveEffect DEF TypeOK, Poll, promises
<1>3. SettingsInv'
  BY <1>1, SavedSettings DEF Inv, Poll, promises
<1>4. mem' = mem /\ (~unsaved' => file' = mem')
  BY <1>1, SaveEffect
<1>5. PendingInv' /\ BusyMeansRunning' /\ ShownIsSaved'
  BY <1>4 DEF Inv, Poll, PendingInv, BusyMeansRunning, BusyIn, ShownIsSaved
<1> QED
  BY <1>2, <1>3, <1>5 DEF Inv

LEMMA UpdateSettingsInv ==
    ASSUME Inv, NEW v \in Settings, UpdateSettings(v)
    PROVE  Inv'
<1> DEFINE m == [mem EXCEPT !["settings"] = v]
<1>1. TypeOK /\ mem \in State
  BY DEF Inv, TypeOK
<1>2. /\ m \in State /\ m["settings"] = v
      /\ \A l \in Keys \ {"settings"} : m[l] = mem[l]
  BY <1>1, SettingsIsKey, Updated
<1>3. \/ Saved(m) /\ promised' = v /\ attempted' = {} /\ lost' = FALSE
      \/ /\ SaveRaises(m) \/ (mem' = m /\ unsaved' = TRUE /\ file' = file /\ faults' = faults)
         /\ promised' = promised /\ attempted' = attempted \cup {v} /\ lost' = lost
  BY DEF UpdateSettings
<1> HIDE DEF m
<1>4. /\ mem' = m /\ file' \in State \cup {Unreadable} /\ file' \in {m, file, Unreadable}
      /\ faults' \in 0..MaxFaults /\ unsaved' \in BOOLEAN
      /\ ~unsaved' => file' = m
  <2>1. CASE Saved(m) \/ SaveRaises(m)
    BY <1>1, <1>2, <2>1, SaveEffect
  <2>2. CASE mem' = m /\ unsaved' = TRUE /\ file' = file /\ faults' = faults
    BY <1>1, <2>2 DEF TypeOK
  <2> QED
    BY <1>3, <2>1, <2>2
<1>5. /\ up' = up /\ deaths' = deaths /\ requests' \in 0..MaxRequests
      /\ job' = job /\ pending' = pending /\ leftover' = leftover
  BY <1>1, ArrivesEffect DEF UpdateSettings
<1>6. TypeOK'
  BY <1>2, <1>3, <1>4, <1>5 DEF Inv, TypeOK
<1>7. SettingsInv'
  <2>1. CASE Saved(m) /\ promised' = v
    BY <1>2, <2>1 DEF SettingsInv, Saved
  <2>2. CASE promised' = promised /\ attempted' = attempted \cup {v} /\ lost' = lost
    BY <1>2, <1>4, <2>2 DEF Inv, SettingsInv
  <2> QED
    BY <1>3, <2>1, <2>2
<1>8. BusyIn(mem') = BusyIn(mem)
  BY <1>2, <1>4, AnnouncedAreKeys DEF BusyIn, Announced
<1>9. PendingInv' /\ BusyMeansRunning' /\ ShownIsSaved'
  BY <1>4, <1>5, <1>8 DEF Inv, PendingInv, BusyMeansRunning, BusyIn, ShownIsSaved
<1> QED
  BY <1>6, <1>7, <1>9 DEF Inv

\* Requests.
LEMMA BeginInv ==
    ASSUME Inv, NEW r \in Requests, NEW k \in Kind, Begin(r, k)
    PROVE  Inv'
<1>1. TypeOK /\ mem \in State
  BY DEF Inv, TypeOK
<1>0. PICK busy \in Busy(k) :
         \/ /\ Saved([mem EXCEPT ![Key(k)] = busy])
            /\ job' = [job EXCEPT ![r] = k]
            /\ leftover' = leftover \ {Key(k)}
         \/ /\ SaveRaises([mem EXCEPT ![Key(k)] = busy])
            /\ leftover' = leftover \cup ({Key(k)} \cap BusyIn([mem EXCEPT ![Key(k)] = busy]))
            /\ job' = job
  BY DEF Begin
<1> DEFINE m == [mem EXCEPT ![Key(k)] = busy]
<1>2. Key(k) \in Keys /\ Key(k) # "settings" /\ busy \in Values
  BY KeyOfKind, BusyIsStatus, SettingsIsKey
<1>3. m \in State /\ m[Key(k)] = busy /\ \A l \in Keys \ {Key(k)} : m[l] = mem[l]
  BY <1>1, <1>2, Updated
<1>4. \/ Saved(m) /\ job' = [job EXCEPT ![r] = k] /\ leftover' = leftover \ {Key(k)}
      \/ SaveRaises(m) /\ leftover' = leftover \cup ({Key(k)} \cap BusyIn(m)) /\ job' = job
  BY <1>0
<1> HIDE DEF m
<1>5. /\ mem' = m /\ file' \in State \cup {Unreadable}
      /\ faults' \in 0..MaxFaults /\ unsaved' \in BOOLEAN
      /\ ~unsaved' => file' = m
  BY <1>1, <1>3, <1>4, SaveEffect
<1>6. /\ up /\ up' = up /\ deaths' = deaths /\ requests' \in 0..MaxRequests
      /\ pending' = pending /\ promised' = promised /\ attempted' = attempted /\ lost' = lost
      /\ job[r] = "none"
  BY <1>1, ArrivesEffect DEF Begin, promises
<1>7. /\ job' \in [Requests -> Working]
      /\ \A q \in Requests : job'[q] = job[q] \/ (q = r /\ job'[q] = k)
      /\ \A q \in Requests \ {r} : job'[q] = job[q]
  <2>1. job \in [Requests -> Working]
    BY <1>1 DEF TypeOK, Working
  <2>2. CASE job' = [job EXCEPT ![r] = k]
    BY <2>1, <2>2 DEF Working
  <2>3. CASE job' = job
    BY <2>1, <2>3
  <2> QED
    BY <1>4, <2>2, <2>3
<1>8. leftover' \subseteq Announced
  BY <1>1, <1>4 DEF TypeOK, BusyIn
<1>9. TypeOK'
  BY <1>1, <1>3, <1>5, <1>6, <1>7, <1>8 DEF TypeOK, Working
<1>10. SettingsInv'
  <2>1. m["settings"] = mem["settings"]
    BY <1>2, <1>3, SettingsIsKey
  <2> QED
    BY <1>1, <1>3, <1>4, <1>6, <2>1, SavedSettings DEF Inv
<1>11. PendingInv'
  BY <1>6, <1>7 DEF Inv, PendingInv
<1>12. BusyMeansRunning'
  <2> SUFFICES ASSUME NEW l \in BusyIn(mem'), l \notin leftover'
               PROVE  \E q \in Requests : job'[q] = Announcer(l)
    BY DEF BusyMeansRunning, BusyIn
  <2>1. CASE l = Key(k)
    <3>1. l \in BusyIn(m)
      BY <1>5
    <3>2. job' = [job EXCEPT ![r] = k]
      BY <1>4, <2>1, <3>1
    <3>3. job'[r] = k
      BY <1>1, <3>2 DEF TypeOK
    <3>4. k = Announcer(l)
      BY <1>3, <2>1, <3>1, AnnouncerAnnounces DEF BusyIn
    <3> QED
      BY <3>3, <3>4
  <2>2. CASE l # Key(k)
    <3>1. l \in Keys /\ m[l] = mem[l] /\ l \in BusyIn(mem)
      BY <1>3, <1>5, <2>2, AnnouncedAreKeys DEF BusyIn
    <3>2. l \notin leftover
      BY <1>4, <2>2
    <3>3. PICK q \in Requests : job[q] = Announcer(l)
      BY <1>6, <3>1, <3>2 DEF Inv, BusyMeansRunning
    <3>4. q # r
      BY <1>6, <3>1, <3>3, AnnouncersEnd DEF BusyIn
    <3> QED
      BY <1>7, <3>3, <3>4
  <2> QED
    BY <2>1, <2>2
<1>13. ShownIsSaved'
  BY <1>5 DEF ShownIsSaved
<1> QED
  BY <1>9, <1>10, <1>11, <1>12, <1>13 DEF Inv

\* What the end of a request at r leaves of the invariant, whatever it says:
\* no other request is touched, and nobody waits for r.
LEMMA Ended ==
    ASSUME TypeOK, PendingInv, NEW r \in Requests, job[r] \in Kind,
           job' = [job EXCEPT ![r] = "none"], pending' = pending
    PROVE  /\ job' \in [Requests -> Working]
           /\ \A q \in Requests \ {r} : job'[q] = job[q]
           /\ PendingInv'
           /\ (\A q \in Requests : job'[q] \notin {"discover", "discover raised"})
                  => \A q \in Requests : job[q] \notin {"discover", "discover raised"}
<1>1. job \in [Requests -> Working]
  BY DEF TypeOK, Working
<1>2. job' \in [Requests -> Working] /\ \A q \in Requests \ {r} : job'[q] = job[q]
  BY <1>1 DEF Working
<1>3. job[r] \notin {"discover", "discover raised"}
  BY KeyOfKind
<1> QED
  BY <1>2, <1>3 DEF PendingInv

LEMMA SaysInv ==
    ASSUME Inv, NEW r \in Requests, NEW o \in Status,
           Says(r, o) \/ (o = "failed" /\ ReleasedNotSaved(r))
    PROVE  Inv'
<1>1. TypeOK /\ mem \in State /\ PendingInv /\ up
  BY DEF Inv, TypeOK, Says, ReleasedNotSaved
<1> DEFINE k == job[r]
           m == [mem EXCEPT ![Key(k)] = o]
<1>2. k \in Kind /\ o \in Outcomes(k) \ {"none"}
  BY KeysAssumption DEF Says, ReleasedNotSaved, Kind, Outcomes
<1>3. Key(k) \in Keys /\ Key(k) # "settings" /\ o \in Values
  BY <1>2, KeyOfKind, SettingsIsKey
<1>4. m \in State /\ m[Key(k)] = o /\ \A l \in Keys \ {Key(k)} : m[l] = mem[l]
  BY <1>1, <1>3, Updated
<1>5. /\ job' = [job EXCEPT ![r] = "none"] /\ leftover' = leftover \ {Key(k)}
      /\ up' = up /\ pending' = pending /\ requests' = requests /\ deaths' = deaths
      /\ promised' = promised /\ attempted' = attempted /\ lost' = lost
  BY DEF Says, ReleasedNotSaved, Key, promises
<1>6. /\ mem' = m /\ file' \in {m, file, Unreadable} /\ faults' \in 0..MaxFaults
      /\ unsaved' \in BOOLEAN /\ (~unsaved' => file' = m)
  <2>1. CASE Says(r, o)
    <3>1. Saved(m) \/ SaveRaises(m)
      BY <2>1 DEF Says
    <3> QED
      BY <1>1, <1>4, <3>1, SaveEffect
  <2>2. CASE o = "failed" /\ ReleasedNotSaved(r)
    <3>1. faults \in 0..MaxFaults /\ faults < MaxFaults /\ faults' = faults + 1
      BY <1>1, <2>2 DEF TypeOK, ReleasedNotSaved
    <3>2. faults' \in 0..MaxFaults
      BY <3>1, BoundsAssumption
    <3>3. mem' = m
      BY <2>2 DEF ReleasedNotSaved, Key
    <3> QED
      BY <2>2, <3>2, <3>3 DEF ReleasedNotSaved
  <2> QED
    BY <2>1, <2>2
<1> HIDE DEF m
<1>7. file' \in State \cup {Unreadable}
  BY <1>1, <1>4, <1>6 DEF TypeOK
<1>8. /\ job' \in [Requests -> Working]
      /\ \A q \in Requests \ {r} : job'[q] = job[q]
      /\ PendingInv'
  BY <1>1, <1>2, <1>5, Ended
<1>9. TypeOK'
  BY <1>1, <1>4, <1>5, <1>6, <1>7, <1>8 DEF TypeOK, Working
<1>10. SettingsInv'
  <2>1. m["settings"] = mem["settings"]
    BY <1>3, <1>4, SettingsIsKey
  <2> QED
    BY <1>1, <1>5, <1>6, <2>1 DEF Inv, SettingsInv
<1>11. BusyMeansRunning'
  <2> SUFFICES ASSUME NEW l \in BusyIn(mem'), l \notin leftover'
               PROVE  \E q \in Requests : job'[q] = Announcer(l)
    BY DEF BusyMeansRunning, BusyIn
  <2>1. l \in Announced /\ m[l] = Announces(l)
    BY <1>6 DEF BusyIn
  <2>2. l # Key(k)
    BY <1>2, <1>4, <2>1, OutcomesNotBusy
  <2>3. l \in BusyIn(mem) /\ l \notin leftover
    BY <1>4, <1>5, <2>1, <2>2, AnnouncedAreKeys DEF BusyIn
  <2>4. PICK q \in Requests : job[q] = Announcer(l)
    BY <1>1, <2>3 DEF Inv, BusyMeansRunning
  <2>5. q # r
    BY <2>1, <2>2, <2>4, AnnouncersEnd
  <2> QED
    BY <1>8, <2>4, <2>5
<1>12. ShownIsSaved'
  BY <1>6 DEF ShownIsSaved
<1> QED
  BY <1>8, <1>9, <1>10, <1>11, <1>12 DEF Inv

LEMMA SaysNothingInv ==
    ASSUME Inv, NEW r \in Requests, SaysNothing(r)
    PROVE  Inv'
<1>1. TypeOK /\ PendingInv /\ up
  BY DEF Inv, SaysNothing
<1>2. job[r] \in Kind /\ "none" \in Outcomes(job[r])
  BY DEF SaysNothing
<1>3. /\ up' = up /\ mem' = mem /\ file' = file /\ pending' = pending
      /\ requests' = requests /\ deaths' = deaths /\ faults' = faults
      /\ promised' = promised /\ attempted' = attempted /\ lost' = lost /\ unsaved' = unsaved
      /\ leftover' = leftover /\ job' = [job EXCEPT ![r] = "none"]
  BY DEF SaysNothing, counters, history, promises
<1>4. /\ job' \in [Requests -> Working]
      /\ \A q \in Requests \ {r} : job'[q] = job[q]
      /\ PendingInv'
      /\ (\A q \in Requests : job'[q] \notin {"discover", "discover raised"})
             => \A q \in Requests : job[q] \notin {"discover", "discover raised"}
  BY <1>1, <1>2, <1>3, Ended
<1>6. TypeOK'
  BY <1>1, <1>3, <1>4 DEF TypeOK, Working
<1>7. SettingsInv' /\ ShownIsSaved'
  BY <1>3, <1>4 DEF Inv, SettingsInv, ShownIsSaved
<1>8. BusyMeansRunning'
  <2> SUFFICES ASSUME NEW l \in BusyIn(mem), l \notin leftover'
               PROVE  \E q \in Requests : job'[q] = Announcer(l)
    BY <1>3 DEF BusyMeansRunning, BusyIn
  <2>1. PICK q \in Requests : job[q] = Announcer(l)
    BY <1>1, <1>3 DEF Inv, BusyMeansRunning
  <2>2. l \in Announced
    BY DEF BusyIn
  <2>3. q # r
    BY <1>2, <2>1, <2>2, AnnouncersEnd
  <2> QED
    BY <1>4, <2>1, <2>3
<1> QED
  BY <1>4, <1>6, <1>7, <1>8 DEF Inv

LEMMA EscapesInv ==
    ASSUME Inv, NEW r \in Requests, Escapes(r)
    PROVE  Inv'
<1>1. TypeOK /\ PendingInv /\ up
  BY DEF Inv, Escapes
<1>2. PICK k \in Announced : job[r] = Announcer(k)
  BY DEF Escapes
<1>3. job[r] \in Kind /\ Key(job[r]) = k
  BY <1>2, AnnouncersEnd
<1>4. /\ up' = up /\ mem' = mem /\ file' = file /\ pending' = pending
      /\ requests' = requests /\ deaths' = deaths /\ faults' = faults
      /\ promised' = promised /\ attempted' = attempted /\ lost' = lost
      /\ unsaved' = unsaved /\ job' = [job EXCEPT ![r] = "none"]
  BY DEF Escapes, counters, promises
<1>5. /\ job' \in [Requests -> Working]
      /\ \A q \in Requests \ {r} : job'[q] = job[q]
      /\ PendingInv'
      /\ (\A q \in Requests : job'[q] \notin {"discover", "discover raised"})
             => \A q \in Requests : job[q] \notin {"discover", "discover raised"}
  BY <1>1, <1>3, <1>4, Ended
<1>6. /\ leftover' \subseteq Announced /\ leftover \subseteq leftover'
      /\ \/ k \in BusyIn(mem) => k \in leftover'
         \/ \E q \in Requests \ {r} : job[q] = job[r]
  BY <1>1, <1>3 DEF TypeOK, Escapes, BusyIn
<1>7. TypeOK'
  BY <1>1, <1>4, <1>5, <1>6 DEF TypeOK, Working
<1>8. SettingsInv' /\ ShownIsSaved'
  BY <1>4, <1>5 DEF Inv, SettingsInv, ShownIsSaved
<1>9. BusyMeansRunning'
  <2> SUFFICES ASSUME NEW l \in BusyIn(mem), l \notin leftover'
               PROVE  \E q \in Requests : job'[q] = Announcer(l)
    BY <1>4 DEF BusyMeansRunning, BusyIn
  <2>1. PICK q \in Requests : job[q] = Announcer(l)
    BY <1>1, <1>6 DEF Inv, BusyMeansRunning
  <2>2. CASE q # r
    BY <1>5, <2>1, <2>2
  <2>3. CASE q = r
    <3>1. l \in Announced /\ l = k
      BY <1>3, <2>1, <2>3, AnnouncersEnd DEF BusyIn
    <3>2. PICK p \in Requests \ {r} : job[p] = job[r]
      BY <1>6, <3>1
    <3> QED
      BY <1>5, <2>1, <2>3, <3>2
  <2> QED
    BY <2>2, <2>3
<1> QED
  BY <1>5, <1>7, <1>8, <1>9 DEF Inv

-----------------------------------------------------------------------------
(* Discovery. *)

LEMMA BeginDiscoveryInv ==
    ASSUME Inv, NEW r \in Requests, BeginDiscovery(r)
    PROVE  Inv'
<1>1. TypeOK /\ job[r] = "none"
  BY DEF Inv, BeginDiscovery
<1>2. /\ up' = up /\ deaths' = deaths /\ requests' \in 0..MaxRequests
      /\ mem' = mem /\ file' = file /\ faults' = faults
      /\ promised' = promised /\ attempted' = attempted /\ lost' = lost
      /\ leftover' = leftover /\ unsaved' = unsaved
  BY <1>1, ArrivesEffect DEF BeginDiscovery, history, promises
<1> DEFINE present == {n \in Nodes : mem[n] # "absent"}
<1>3. job' = [job EXCEPT ![r] = "discover"] /\ pending' = [pending EXCEPT ![r] = present]
  BY DEF BeginDiscovery
<1>4. present \in SUBSET Nodes
  OBVIOUS
<1> HIDE DEF present
<1>5. job \in [Requests -> Working] /\ pending \in [Requests -> SUBSET Nodes]
  BY <1>1 DEF TypeOK, Working
<1>6. /\ job' \in [Requests -> Working] /\ job'[r] = "discover"
      /\ \A q \in Requests \ {r} : job'[q] = job[q]
  BY <1>3, <1>5 DEF Working
<1>7. /\ pending' \in [Requests -> SUBSET Nodes]
      /\ \A q \in Requests \ {r} : pending'[q] = pending[q]
  BY <1>3, <1>4, <1>5
<1>8. TypeOK'
  BY <1>1, <1>2, <1>6, <1>7 DEF TypeOK, Working
<1>9. SettingsInv' /\ PendingInv' /\ ShownIsSaved'
  BY <1>2, <1>6, <1>7 DEF Inv, SettingsInv, PendingInv, ShownIsSaved
<1>10. BusyMeansRunning'
  <2> SUFFICES ASSUME up, NEW l \in BusyIn(mem), l \notin leftover
               PROVE  \E q \in Requests : job'[q] = Announcer(l)
    BY <1>2 DEF BusyMeansRunning, BusyIn
  <2>1. PICK q \in Requests : job[q] = Announcer(l)
    BY DEF Inv, BusyMeansRunning
  <2>2. q # r
    BY <1>1, <2>1, AnnouncersEnd DEF BusyIn
  <2> QED
    BY <1>6, <2>1, <2>2
<1> QED
  BY <1>8, <1>9, <1>10 DEF Inv

\* The request at r discovers, before the step and after it; nothing else does
\* anything new, and memory changes at most in the status of a node.
LEMMA DiscoveryKeeps ==
    ASSUME Inv, NEW r \in Requests, job[r] \in {"discover", "discover raised"},
           \A q \in Requests \ {r} : job'[q] = job[q],
           \A q \in Requests \ {r} : pending'[q] = pending[q],
           \A l \in Group : mem'[l] = mem[l],
           up, up' = up, leftover' = leftover
    PROVE  BusyMeansRunning'
<1> SUFFICES ASSUME NEW l \in BusyIn(mem'), l \notin leftover'
             PROVE  \E q \in Requests : job'[q] = Announcer(l)
  BY DEF BusyMeansRunning, BusyIn
<1>1. l \in BusyIn(mem) /\ l \in Announced
  BY DEF BusyIn, Announced, Group
<1>2. PICK q \in Requests : job[q] = Announcer(l)
  BY <1>1 DEF Inv, BusyMeansRunning
<1>3. q # r
  BY <1>1, <1>2, AnnouncersEnd, KeyOfKind
<1> QED
  BY <1>2, <1>3

LEMMA ProbedInv ==
    ASSUME Inv, NEW r \in Requests, NEW n \in Nodes, NEW s \in {"online", "offline"},
           Probed(r, n, s)
    PROVE  Inv'
<1>1. TypeOK /\ mem \in State /\ job[r] \in {"discover", "discover raised"}
  BY DEF Inv, TypeOK, PendingInv, Probed
<1>2. n \in Keys /\ n # "settings" /\ s \in Values
  BY KeysAssumption DEF Keys, Group, Values, Status
<1> DEFINE m == [mem EXCEPT ![n] = s]
<1>3. m \in State /\ m[n] = s /\ \A l \in Keys \ {n} : m[l] = mem[l]
  <2>1. mem \in State /\ n \in Keys /\ s \in Values
    BY <1>1, <1>2
  <2> HIDE DEF Probed
  <2> QED
    BY ONLY <2>1, Updated
<1>4. /\ up /\ up' = up /\ mem' = m /\ file' = file /\ job' = job
      /\ requests' = requests /\ deaths' = deaths /\ faults' = faults
      /\ promised' = promised /\ attempted' = attempted /\ lost' = lost
      /\ leftover' = leftover /\ unsaved' = unsaved
  BY DEF Probed, counters, history, promises
<1> HIDE DEF m
<1>5. /\ pending' \in [Requests -> SUBSET Nodes]
      /\ \A q \in Requests : pending'[q] \subseteq pending[q]
      /\ \A q \in Requests \ {r} : pending'[q] = pending[q]
  <2>1. pending \in [Requests -> SUBSET Nodes] /\ pending' = [pending EXCEPT ![r] = @ \ {n}]
    BY <1>1 DEF TypeOK, Probed
  <2> QED
    BY <2>1
<1>6. TypeOK'
  BY <1>1, <1>3, <1>4, <1>5 DEF TypeOK
<1>7. SettingsInv'
  BY <1>2, <1>3, <1>4, SettingsIsKey DEF Inv, SettingsInv
<1>8. PendingInv'
  BY <1>4, <1>5 DEF Inv, PendingInv
<1>9. ShownIsSaved'
  BY <1>1, <1>4 DEF ShownIsSaved
<1>10. \A l \in Group : mem'[l] = mem[l]
  BY <1>3, <1>4, KeysAssumption DEF Keys
<1>11. BusyMeansRunning'
  BY <1>1, <1>4, <1>5, <1>10, DiscoveryKeeps
<1> QED
  BY <1>6, <1>7, <1>8, <1>9, <1>11 DEF Inv

LEMMA ProbeRaisesInv ==
    ASSUME Inv, NEW r \in Requests, NEW n \in Nodes, ProbeRaises(r, n)
    PROVE  Inv'
<1>1. TypeOK /\ job[r] \in {"discover", "discover raised"}
  BY DEF Inv, PendingInv, ProbeRaises
<1>2. /\ up /\ up' = up /\ mem' = mem /\ file' = file
      /\ requests' = requests /\ deaths' = deaths /\ faults' = faults
      /\ promised' = promised /\ attempted' = attempted /\ lost' = lost
      /\ leftover' = leftover /\ unsaved' = unsaved
  BY DEF ProbeRaises, counters, history, promises
<1>3. job \in [Requests -> Working] /\ job' = [job EXCEPT ![r] = "discover raised"]
  BY <1>1 DEF TypeOK, Working, ProbeRaises
<1>4. /\ job' \in [Requests -> Working] /\ job'[r] = "discover raised"
      /\ \A q \in Requests \ {r} : job'[q] = job[q]
  BY <1>3 DEF Working
<1>5. /\ pending' \in [Requests -> SUBSET Nodes]
      /\ \A q \in Requests \ {r} : pending'[q] = pending[q]
  BY <1>1 DEF TypeOK, ProbeRaises
<1>6. TypeOK'
  BY <1>1, <1>2, <1>4, <1>5 DEF TypeOK, Working
<1>7. SettingsInv' /\ PendingInv' /\ ShownIsSaved'
  BY <1>2, <1>4, <1>5 DEF Inv, SettingsInv, PendingInv, ShownIsSaved
<1>8. BusyMeansRunning'
  BY <1>1, <1>2, <1>4, <1>5, DiscoveryKeeps
<1> QED
  BY <1>6, <1>7, <1>8 DEF Inv

LEMMA EndDiscoveryInv ==
    ASSUME Inv, NEW r \in Requests, EndDiscovery(r)
    PROVE  Inv'
<1>1. /\ TypeOK /\ mem \in State /\ up
      /\ pending[r] = {} /\ job[r] \in {"discover", "discover raised"}
  BY DEF Inv, TypeOK, EndDiscovery
<1>2. /\ up' = up /\ pending' = pending
      /\ requests' = requests /\ deaths' = deaths
      /\ promised' = promised /\ attempted' = attempted /\ lost' = lost /\ leftover' = leftover
      /\ job' = [job EXCEPT ![r] = "none"]
  BY DEF EndDiscovery, promises
<1>3. /\ mem' = mem /\ file' \in {mem, file, Unreadable} /\ faults' \in 0..MaxFaults
      /\ unsaved' \in BOOLEAN /\ (~unsaved' => file' = mem)
  <2>1. CASE Saved(mem) \/ SaveRaises(mem)
    BY <1>1, <2>1, SaveEffect
  <2>2. CASE unsaved' = TRUE /\ mem' = mem /\ file' = file /\ faults' = faults
    BY <1>1, <2>2 DEF TypeOK
  <2> QED
    BY <2>1, <2>2 DEF EndDiscovery
<1>4. job \in [Requests -> Working]
  BY <1>1 DEF TypeOK, Working
<1>5. /\ job' \in [Requests -> Working]
      /\ \A q \in Requests \ {r} : job'[q] = job[q]
  BY <1>2, <1>4 DEF Working
<1>6. TypeOK'
  BY <1>1, <1>2, <1>3, <1>5 DEF TypeOK, Working
<1>7. SettingsInv'
  BY <1>1, <1>2, <1>3 DEF Inv, SettingsInv
<1>8. PendingInv' /\ ShownIsSaved'
  BY <1>1, <1>2, <1>3, <1>5 DEF Inv, PendingInv, ShownIsSaved
<1>9. BusyMeansRunning'
  BY <1>1, <1>2, <1>3, <1>5, DiscoveryKeeps
<1> QED
  BY <1>6, <1>7, <1>8, <1>9 DEF Inv

-----------------------------------------------------------------------------

LEMMA NextInv == Inv /\ [Next]_vars => Inv'
<1> SUFFICES ASSUME Inv, [Next]_vars PROVE Inv'
  OBVIOUS
<1>1. CASE Boot \/ Dies \/ Poll
  BY <1>1, BootInv, DiesInv, PollInv
<1>2. CASE \E v \in Settings : UpdateSettings(v)
  BY <1>2, UpdateSettingsInv
<1>3. ASSUME NEW r \in Requests, \E k \in Kind : Begin(r, k) PROVE Inv'
  BY <1>3, BeginInv
<1>4. ASSUME NEW r \in Requests, End(r) PROVE Inv'
  <2>1. "failed" \in Status
    BY DEF Status
  <2> QED
    BY <1>4, <2>1, SaysInv, SaysNothingInv, EscapesInv DEF End
<1>5. ASSUME NEW r \in Requests, BeginDiscovery(r) PROVE Inv'
  BY <1>5, BeginDiscoveryInv
<1>6. ASSUME NEW r \in Requests, Discovery(r) PROVE Inv'
  BY <1>6, ProbedInv, ProbeRaisesInv, EndDiscoveryInv DEF Discovery
<1>7. CASE UNCHANGED vars
  BY <1>7 DEF vars, counters, history, promises, Inv, TypeOK, SettingsInv, PendingInv,
              BusyMeansRunning, BusyIn, ShownIsSaved
<1> QED
  BY <1>1, <1>2, <1>3, <1>4, <1>5, <1>6, <1>7 DEF Next

LEMMA InvHolds == Spec => []Inv
<1>1. Init => Inv
  BY InitInv
<1>2. Inv /\ [Next]_vars => Inv'
  BY NextInv
<1> QED
  BY <1>1, <1>2, PTL DEF Spec

(* Memory, the file and the requests under way are well formed: the state  *)
(* object and the handlers that share it.                                  *)
THEOREM TypeCorrect == Spec => []TypeOK
<1>1. Inv => TypeOK
  BY DEF Inv
<1> QED
  BY <1>1, InvHolds, PTL

(* The settings shown are those last answered with success, or what a      *)
(* failed or refused change left since, until the file is lost:            *)
(* update_settings, save_state and get_state.                              *)
THEOREM SettingsAreKept == Spec => []SettingsSurvive
<1>1. Inv => SettingsSurvive
  BY DEF Inv, SettingsInv, SettingsSurvive
<1> QED
  BY <1>1, InvHolds, PTL

(* A status that announces a result has a request that will report it, or  *)
(* was loaded, not saved, or left by an exception nobody catches: the      *)
(* handlers of routes/enterprise.py.                                       *)
THEOREM BusyIsBacked == Spec => []BusyMeansRunning
<1>1. Inv => BusyMeansRunning
  BY DEF Inv
<1> QED
  BY <1>1, InvHolds, PTL

(* What is shown is saved, but for discoveries, changes refused half-way   *)
(* and failures: save_state and its callers.                               *)
THEOREM SavedIsShown == Spec => []ShownIsSaved
<1>1. Inv => ShownIsSaved
  BY DEF Inv
<1> QED
  BY <1>1, InvHolds, PTL
=============================================================================
