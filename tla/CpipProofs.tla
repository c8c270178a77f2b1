----------------------------- MODULE CpipProofs -----------------------------
(***************************************************************************)
(* Machine-checked theorems about the CPIP updater and its watcher: about  *)
(* CpipUpdate, for any number of releases, any targets a user may ask for  *)
(* and either rollback setting; about CpipWatcher, for any requests, any   *)
(* subscribers and any number of tasks.                                    *)
(***************************************************************************)
EXTENDS CpipUpdate, CpipWatcher, SequenceTheorems, TLAPS

-----------------------------------------------------------------------------
(* Types. *)

LEMMA VersionOne == 1 \in Version
BY ReleaseAssumption DEF Version

LEMMA InitType == Init => TypeOK
<1> SUFFICES ASSUME Init PROVE TypeOK
  OBVIOUS
<1>1. Down \in Process
  BY VersionOne DEF Down, Process
<1>2. updater \in [Updaters -> Process]
  BY <1>1 DEF Init
<1>3. /\ {released, versionFile} \subseteq Version
      /\ {config, service} \subseteq Version \cup {Torn}
  BY VersionOne DEF Init
<1>4. due \in BOOLEAN /\ clean \in BOOLEAN /\ alone \in BOOLEAN
  BY DEF Init
<1> QED
  BY <1>2, <1>3, <1>4 DEF TypeOK

\* One process at a time goes on; its record keeps its type.
LEMMA StepType == TypeOK /\ [Next]_vars => TypeOK'
<1> SUFFICES ASSUME TypeOK, [Next]_vars PROVE TypeOK'
  OBVIOUS
<1>0. \A p \in Updaters : updater[p] \in Process
  BY DEF TypeOK
<1>a. ASSUME NEW p \in Updaters, NEW r \in Process, Set(p, r)
      PROVE  updater' \in [Updaters -> Process]
  BY <1>a DEF Set, TypeOK
<1>b. ASSUME NEW p \in Updaters, NEW s, Goto(p, s),
             s \in {"down", "idle", "apply", "read", "writing", "written", "restarted",
                   "failed"}
      PROVE  updater' \in [Updaters -> Process]
  <2>1. [updater[p] EXCEPT !.pc = s] \in Process
    BY <1>0, <1>b DEF Process
  <2> QED
    BY <1>a, <1>b, <2>1 DEF Goto
<1>c. ASSUME NEW p \in Updaters, NEW v \in Version, NEW a \in BOOLEAN, Begin(p, v, a)
      PROVE  updater' \in [Updaters -> Process]
  <2> DEFINE r == [updater[p] EXCEPT !.pc = "apply", !.target = v,
                                     !.before = config, !.auto = a]
  <2>2. config \in Version \cup {Torn}
    BY DEF TypeOK
  <2>3. r \in Process
    BY <1>0, <1>c, <2>2, Zenon DEF Process
  <2> QED
    BY <1>a, <1>c, <2>3 DEF Begin
<1>1. CASE Release
  <2>1. released' \in Version
    BY <1>1, ReleaseAssumption DEF Release, TypeOK, Version
  <2> QED
    BY <1>1, <2>1 DEF Release, TypeOK, Files
<1>2. CASE IntervalPasses
  BY <1>2 DEF IntervalPasses, TypeOK
<1>3. CASE WatcherCheck
  BY <1>3, <1>c DEF WatcherCheck, TypeOK, Files
<1>4. ASSUME NEW v \in ExplicitTargets, EndpointUpdate(v) PROVE TypeOK'
  <2>1. v \in Version
    BY TargetsAssumption DEF Version
  <2> QED
    BY <1>4, <1>c, <2>1 DEF EndpointUpdate, TypeOK, Files
<1>5. CASE TimerCheck
  <2>1. updater' \in [Updaters -> Process]
    BY <1>5, <1>b, <1>c DEF TimerCheck, TypeOK
  <2> QED
    BY <1>5, <2>1 DEF TimerCheck, TypeOK
<1>5a. CASE EndpointLatest
  <2>1. updater' \in [Updaters -> Process]
    BY <1>5a, <1>c DEF EndpointLatest, TypeOK
  <2> QED
    BY <1>5a, <2>1 DEF EndpointLatest, TypeOK
<1>6. ASSUME NEW p \in Updaters, Boot(p) PROVE TypeOK'
  <2> DEFINE r == [Down EXCEPT !.pc = "idle", !.installed = config]
  <2>1. config \in Version
    BY <1>6 DEF Boot, TypeOK
  <2>2. Down \in Process
    BY VersionOne DEF Down, Process
  <2>3. r \in Process
    BY <2>1, <2>2, Zenon DEF Process
  <2>4. updater' \in [Updaters -> Process]
    BY <1>6, <1>a, <2>3 DEF Boot
  <2> QED
    BY <1>6, <2>4 DEF Boot, TypeOK
<1>7. ASSUME NEW p \in Updaters, Die(p) PROVE TypeOK'
  BY <1>7, <1>b DEF Die, TypeOK, Files
<1>8. ASSUME NEW p \in Updaters, ReadConfig(p) PROVE TypeOK'
  <2> DEFINE r == [updater[p] EXCEPT !.pc = "read",
                                     !.found = (config = updater[p].installed)]
  <2>1. (config = updater[p].installed) \in BOOLEAN
    OBVIOUS
  <2>2. r \in Process
    BY <1>0, <2>1, Zenon DEF Process
  <2>3. updater' \in [Updaters -> Process]
    BY <1>8, <1>a, <2>2 DEF ReadConfig
  <2> QED
    BY <1>8, <2>3 DEF ReadConfig, TypeOK, Files
<1>9. ASSUME NEW p \in Updaters, OpenFails(p) \/ SkipWrite(p) PROVE TypeOK'
  BY <1>9, <1>b DEF OpenFails, SkipWrite, TypeOK, Files
<1>10. ASSUME NEW p \in Updaters, BeginWrite(p) \/ EndWrite(p) \/ WriteFails(p)
       PROVE  TypeOK'
  <2>1. updater[p].target \in Version
    BY <1>0 DEF Process
  <2>2. config' \in Version \cup {Torn}
    BY <1>10, <2>1 DEF BeginWrite, EndWrite, WriteFails, TypeOK
  <2>3. updater' \in [Updaters -> Process]
    BY <1>10, <1>b DEF BeginWrite, EndWrite, WriteFails
  <2> QED
    BY <1>10, <2>2, <2>3 DEF BeginWrite, EndWrite, WriteFails, TypeOK
<1>11. ASSUME NEW p \in Updaters, RestartService(p) \/ RestartFails(p) PROVE TypeOK'
  BY <1>11, <1>b DEF RestartService, RestartFails, TypeOK
<1>12. ASSUME NEW p \in Updaters, ReportSuccess(p) PROVE TypeOK'
  <2>1. updater[p].target \in Version
    BY <1>0 DEF Process
  <2>2. versionFile' \in Version
    BY <1>12, <2>1 DEF ReportSuccess, TypeOK
  <2> QED
    BY <1>12, <1>b, <2>2 DEF ReportSuccess, TypeOK, AfterCall
<1>13. ASSUME NEW p \in Updaters, ReportFailure(p) \/ RollbackFails(p) PROVE TypeOK'
  <2>1. updater[p].installed \in Version
    BY <1>0 DEF Process
  <2>2. config' \in Version \cup {Torn}
    BY <1>13, <2>1 DEF ReportFailure, RollbackFails, TypeOK
  <2>3. updater' \in [Updaters -> Process]
    BY <1>13, <1>b DEF ReportFailure, RollbackFails, AfterCall
  <2> QED
    BY <1>13, <2>2, <2>3 DEF ReportFailure, RollbackFails, TypeOK
<1>14. CASE UNCHANGED vars
  BY <1>14 DEF vars, TypeOK
<1> QED
  BY <1>1, <1>2, <1>3, <1>4, <1>5, <1>5a, <1>6, <1>7, <1>8, <1>9, <1>10, <1>11,
     <1>12, <1>13, <1>14 DEF Next

\* Every state of the two updaters is well formed (apply_update, its callers).
THEOREM TypeCorrect == Spec => []TypeOK
BY InitType, StepType, PTL DEF Spec

-----------------------------------------------------------------------------
(* cpip.service follows config.py.  The property is not inductive: between  *)
(* the opening of the file and the restart the two differ, so the invariant *)
(* says that then some process is at that point, that a torn file is being  *)
(* written, and that a failure is never clean.                              *)

Writing == \E p \in Updaters : At(p, "writing")

Catching == \/ service = config
            \/ Writing
            \/ \E p \in Updaters : At(p, "written")

BeingWritten == config = Torn => Writing

NoFailure == \A p \in Updaters : ~At(p, "failed")

FollowInv == clean => Catching /\ BeingWritten /\ NoFailure

LEMMA InitFollow == Init => FollowInv
BY DEF Init, FollowInv, Catching, BeingWritten, NoFailure, At, Down, Torn

\* Every step other than a write or a restart moves one process, which neither
\* writes nor has to restart, to a step that is not "failed", and leaves the
\* files alone.
Pending(p) == At(p, "writing") \/ At(p, "written")

LEMMA FollowFrame ==
    ASSUME TypeOK, FollowInv, NEW p \in Updaters, NEW r, Set(p, r),
           r.pc # "failed", ~Pending(p),
           UNCHANGED <<config, service, clean>>
    PROVE  FollowInv'
<1>1. updater'[p] = r /\ \A q \in Updaters \ {p} : updater'[q] = updater[q]
  BY DEF Set, TypeOK
<1> SUFFICES ASSUME clean' PROVE Catching' /\ BeingWritten' /\ NoFailure'
  BY DEF FollowInv
<1>2. Catching /\ BeingWritten /\ NoFailure
  BY DEF FollowInv
<1>3. Writing => Writing'
  BY <1>1 DEF Writing, Pending, At
<1>4. (\E q \in Updaters : At(q, "written")) => (\E q \in Updaters : At(q, "written"))'
  BY <1>1 DEF Pending, At
<1>5. NoFailure'
  BY <1>1, <1>2 DEF NoFailure, At
<1> QED
  BY <1>2, <1>3, <1>4, <1>5 DEF Catching, BeingWritten

LEMMA StepFollow == TypeOK /\ FollowInv /\ [Next]_vars => FollowInv'
<1> SUFFICES ASSUME TypeOK, FollowInv, [Next]_vars PROVE FollowInv'
  OBVIOUS
<1>a. ASSUME UNCHANGED <<config, service, updater, clean>> PROVE FollowInv'
  BY <1>a DEF FollowInv, Catching, BeingWritten, Writing, NoFailure, At
<1>b. ASSUME NEW p \in Updaters, NEW s, Goto(p, s), s # "failed", ~Pending(p),
             UNCHANGED <<config, service, clean>>
      PROVE  FollowInv'
  <2>1. updater[p] \in Process
    BY DEF TypeOK
  <2>2. [updater[p] EXCEPT !.pc = s].pc = s
    BY <2>1 DEF Process
  <2> QED
    BY <1>b, <2>2, FollowFrame DEF Goto
<1>c. ASSUME NEW p \in Updaters, NEW v, NEW a, Begin(p, v, a), At(p, "idle"),
             UNCHANGED <<config, service, clean>>
      PROVE  FollowInv'
  <2> DEFINE r == [updater[p] EXCEPT !.pc = "apply", !.target = v,
                                     !.before = config, !.auto = a]
  <2>1. updater[p] \in Process
    BY DEF TypeOK
  <2>2. r.pc = "apply"
    BY <2>1, Zenon DEF Process
  <2>3. Set(p, r)
    BY <1>c DEF Begin
  <2>4. ~Pending(p)
    BY <1>c DEF Pending, At
  <2> HIDE DEF r
  <2> QED
    BY <1>c, <2>2, <2>3, <2>4, FollowFrame
<1>d. ASSUME ~clean' PROVE FollowInv'
  BY <1>d DEF FollowInv
<1>1. CASE Release
  BY <1>1, <1>a DEF Release, Files
<1>2. CASE IntervalPasses
  BY <1>2, <1>a DEF IntervalPasses
<1>3. CASE WatcherCheck
  BY <1>3, <1>c DEF WatcherCheck, Files
<1>4. ASSUME NEW v \in ExplicitTargets, EndpointUpdate(v) PROVE FollowInv'
  BY <1>4, <1>c DEF EndpointUpdate, Files
<1>5. CASE TimerCheck
  <2>1. CASE Begin("timer", released, FALSE)
    BY <1>5, <2>1, <1>c DEF TimerCheck
  <2>2. CASE Goto("timer", "down")
    BY <1>5, <2>2, <1>b DEF TimerCheck, Pending, At
  <2> QED
    BY <1>5, <2>1, <2>2 DEF TimerCheck
<1>5a. CASE EndpointLatest
  BY <1>5a, <1>a, <1>c DEF EndpointLatest
<1>6. ASSUME NEW p \in Updaters, Boot(p) PROVE FollowInv'
  <2> DEFINE r == [Down EXCEPT !.pc = "idle", !.installed = config]
  <2>1. r.pc = "idle"
    BY Zenon DEF Down
  <2>2. Set(p, r) /\ ~Pending(p)
    BY <1>6 DEF Boot, Pending, At
  <2> HIDE DEF r
  <2> QED
    BY <1>6, <2>1, <2>2, FollowFrame DEF Boot
<1>7. ASSUME NEW p \in Updaters, Die(p) PROVE FollowInv'
  <2>1. CASE At(p, "idle")
    <3>1. clean' = clean
      BY <1>7, <2>1 DEF Die, TypeOK
    <3>2. Goto(p, "down") /\ UNCHANGED <<config, service>>
      BY <1>7 DEF Die, Files
    <3> QED
      BY <2>1, <3>1, <3>2, <1>b DEF Pending, At
  <2>2. CASE ~At(p, "idle")
    BY <1>7, <2>2, <1>d DEF Die
  <2> QED
    BY <2>1, <2>2
<1>8. ASSUME NEW p \in Updaters, ReadConfig(p) PROVE FollowInv'
  <2> DEFINE r == [updater[p] EXCEPT !.pc = "read",
                                     !.found = (config = updater[p].installed)]
  <2>1. updater[p] \in Process
    BY DEF TypeOK
  <2>2. r.pc = "read"
    BY <2>1, Zenon DEF Process
  <2>3. Set(p, r) /\ ~Pending(p)
    BY <1>8 DEF ReadConfig, Pending, At
  <2> HIDE DEF r
  <2> QED
    BY <1>8, <2>2, <2>3, FollowFrame DEF ReadConfig, Files
<1>9. ASSUME NEW p \in Updaters, OpenFails(p) PROVE FollowInv'
  BY <1>9, <1>d DEF OpenFails
\* What moves on from p keeps the other processes where they were.
<1>g. ASSUME NEW p \in Updaters, NEW s, Goto(p, s)
      PROVE  updater'[p].pc = s /\ \A q \in Updaters \ {p} : updater'[q] = updater[q]
  <2>1. updater[p] \in Process
    BY DEF TypeOK
  <2> QED
    BY <1>g, <2>1 DEF Goto, Set, TypeOK, Process
<1>10. ASSUME NEW p \in Updaters, SkipWrite(p) \/ BeginWrite(p) \/ EndWrite(p)
       PROVE  FollowInv'
  <2> SUFFICES ASSUME clean' PROVE Catching' /\ BeingWritten' /\ NoFailure'
    BY DEF FollowInv
  <2>0. clean /\ BeingWritten /\ NoFailure
    BY <1>10 DEF SkipWrite, BeginWrite, EndWrite, FollowInv
  <2>1. CASE SkipWrite(p)
    <3>1. updater'[p].pc = "written" /\ updater[p].pc = "read" /\ config' = config
          /\ \A q \in Updaters \ {p} : updater'[q] = updater[q]
      BY <2>1, <1>g DEF SkipWrite, At, Files
    <3> QED
      BY <2>0, <3>1 DEF Catching, BeingWritten, Writing, NoFailure, At
  <2>2. CASE BeginWrite(p)
    <3>1. updater'[p].pc = "writing" /\ \A q \in Updaters \ {p} : updater'[q] = updater[q]
      BY <2>2, <1>g DEF BeginWrite
    <3> QED
      BY <2>0, <3>1 DEF Catching, BeingWritten, Writing, NoFailure, At
  <2>3. CASE EndWrite(p)
    <3>1. updater'[p].pc = "written" /\ \A q \in Updaters \ {p} : updater'[q] = updater[q]
      BY <2>3, <1>g DEF EndWrite
    <3>2. config' # Torn
      BY <2>3 DEF EndWrite, TypeOK, Process, Version, Torn
    <3> QED
      BY <2>0, <3>1, <3>2 DEF Catching, BeingWritten, NoFailure, At
  <2> QED
    BY <1>10, <2>1, <2>2, <2>3
<1>11. ASSUME NEW p \in Updaters, RestartService(p) PROVE FollowInv'
  <2> SUFFICES ASSUME clean' PROVE Catching' /\ BeingWritten' /\ NoFailure'
    BY DEF FollowInv
  <2>0. clean /\ BeingWritten /\ NoFailure
    BY <1>11 DEF RestartService, FollowInv
  <2>1. /\ updater'[p].pc = "restarted" /\ updater[p].pc = "written"
        /\ \A q \in Updaters \ {p} : updater'[q] = updater[q]
        /\ config' = config /\ service' = config
    BY <1>11, <1>g DEF RestartService, At
  <2> QED
    BY <2>0, <2>1 DEF Catching, BeingWritten, Writing, NoFailure, At
<1>12. ASSUME NEW p \in Updaters, RestartFails(p) \/ WriteFails(p) PROVE FollowInv'
  BY <1>12, <1>d DEF RestartFails, WriteFails
<1>13. ASSUME NEW p \in Updaters, ReportSuccess(p) PROVE FollowInv'
  BY <1>13, <1>b DEF ReportSuccess, AfterCall, Pending, At
<1>14. ASSUME NEW p \in Updaters, ReportFailure(p) \/ RollbackFails(p) PROVE FollowInv'
  BY <1>14, <1>d DEF ReportFailure, RollbackFails, FollowInv, NoFailure
<1>15. CASE UNCHANGED vars
  BY <1>15, <1>a DEF vars
<1> QED
  BY <1>1, <1>2, <1>3, <1>4, <1>5, <1>5a, <1>6, <1>7, <1>8, <1>9, <1>10, <1>11,
     <1>12, <1>13, <1>14, <1>15 DEF Next

\* Unless something failed or died, cpip.service ends up restarted on the version
\* config.py names, however the two programs overlap (apply_update).
THEOREM ServiceAlwaysFollows == Spec => []ServiceFollowsConfig
<1>1. FollowInv => ServiceFollowsConfig
  BY DEF FollowInv, ServiceFollowsConfig, Catching, BeingWritten, Writing, Quiet, At
<1> QED
  BY <1>1, InitType, StepType, InitFollow, StepFollow, PTL DEF Spec

-----------------------------------------------------------------------------
(* The desktop backend alone never takes config.py below what it runs.     *)
(* What the property needs beside itself is that an attempt in progress    *)
(* aims above the running version, and that no timer process is about.     *)

InProgress == {"apply", "read", "writing", "written", "restarted", "failed"}

AimsHigh ==
    \A p \in Updaters :
        updater[p].pc \in InProgress =>
            updater[p].target > updater[p].installed

ConfigHigh ==
    \A p \in Updaters :
        ~At(p, "down") /\ config # Torn => config >= updater[p].installed

OthersDown == \A p \in Updaters : p # "desktop" => At(p, "down")

AloneInv == alone => AimsHigh /\ ConfigHigh /\ OthersDown

LEMMA InitAlone == Init => AloneInv
BY DEF Init, AloneInv, AimsHigh, ConfigHigh, OthersDown, InProgress, At, Down

LEMMA StepAlone == TypeOK /\ AloneInv /\ [Next]_vars => AloneInv'
<1> DEFINE Goal == AimsHigh' /\ ConfigHigh' /\ OthersDown'
<1> SUFFICES ASSUME TypeOK, AloneInv, [Next]_vars, alone' PROVE Goal
  BY DEF AloneInv
<1> USE DEF Goal
<1>z. alone
  <2>1. alone' = alone \/ (alone' = (alone /\ FALSE)) \/ (alone' = (alone /\ TRUE)) \/ alone' = FALSE
    BY DEF Next, vars, TypeOK, Release, IntervalPasses, WatcherCheck, EndpointUpdate,
           EndpointLatest, TimerCheck, Boot, Die, ReadConfig, OpenFails, SkipWrite,
           BeginWrite, EndWrite, WriteFails, RestartService, RestartFails,
           ReportSuccess, ReportFailure, RollbackFails
  <2> QED
    BY <2>1
<1>y. AimsHigh /\ ConfigHigh /\ OthersDown
  BY <1>z DEF AloneInv
<1>0. /\ \A p \in Updaters : updater[p] \in Process
      /\ config \in Nat /\ released \in Nat
  BY DEF TypeOK, Version, Torn
<1>t. \A p \in Updaters : updater[p].target \in Nat /\ updater[p].installed \in Nat
  BY <1>0 DEF Process, Version
<1>a. ASSUME NEW p \in Updaters, NEW r, Set(p, r)
      PROVE  updater'[p] = r /\ \A q \in Updaters \ {p} : updater'[q] = updater[q]
  BY <1>a DEF Set, TypeOK
<1>f. ASSUME NEW p \in Updaters, p = "desktop" \/ ~At(p, "down"), NEW r, Set(p, r),
             config' # Torn => config' >= r.installed,
             r.pc \in InProgress => r.target > r.installed
      PROVE  Goal
  <2>1. p = "desktop"
    BY <1>f, <1>y DEF OthersDown
  <2>2. updater'[p] = r
    BY <1>f, <1>a
  <2>3. \A q \in Updaters : q # p => updater'[q] = updater[q] /\ updater[q].pc = "down"
    BY <1>f, <1>a, <1>y, <2>1 DEF OthersDown, At
  <2>4. AimsHigh'
    BY <1>f, <2>2, <2>3 DEF AimsHigh, InProgress
  <2>5. ConfigHigh'
    BY <1>f, <2>2, <2>3 DEF ConfigHigh, At
  <2>6. OthersDown'
    BY <2>1, <2>3 DEF OthersDown, At
  <2> QED
    BY <2>4, <2>5, <2>6
<1>b. ASSUME NEW p \in Updaters, NEW s, Goto(p, s), ~At(p, "down"),
             s \in InProgress => updater[p].pc \in InProgress,
             \/ config' \in {config, Torn}
             \/ config' = updater[p].installed
             \/ config' = updater[p].target /\ updater[p].pc \in InProgress
      PROVE  Goal
  <2> DEFINE r == [updater[p] EXCEPT !.pc = s]
  <2>1. r.pc = s /\ r.target = updater[p].target /\ r.installed = updater[p].installed
    BY <1>0 DEF Process
  <2>2. config # Torn => config >= updater[p].installed
    BY <1>b, <1>y DEF ConfigHigh
  <2>3. config' # Torn => config' >= updater[p].installed
    BY <1>b, <1>t, <1>y, <2>2 DEF AimsHigh
  <2>4. Set(p, r)
    BY <1>b DEF Goto
  <2>5. s \in InProgress => updater[p].target > updater[p].installed
    BY <1>b, <1>y DEF AimsHigh
  <2> HIDE DEF r
  <2> QED
    BY <1>b, <1>f, <2>1, <2>3, <2>4, <2>5
<1>d. ASSUME UNCHANGED <<config, updater>> PROVE Goal
  BY <1>d, <1>y DEF AimsHigh, ConfigHigh, OthersDown, At
<1>e. ASSUME NEW p \in Updaters, NEW a, Begin(p, released, a), At(p, "idle"),
             released > updater[p].installed, config' = config
      PROVE  Goal
  <2> DEFINE r == [updater[p] EXCEPT !.pc = "apply", !.target = released,
                                     !.before = config, !.auto = a]
  <2>1. r.target = released /\ r.installed = updater[p].installed
    BY <1>0, Zenon DEF Process
  <2>2. ~At(p, "down") /\ (config' # Torn => config' >= updater[p].installed)
    BY <1>e, <1>y DEF ConfigHigh, At
  <2>3. Set(p, r)
    BY <1>e DEF Begin
  <2> HIDE DEF r
  <2> QED
    BY <1>e, <1>f, <2>1, <2>2, <2>3
<1>1. CASE Release
  BY <1>1, <1>d DEF Release, Files
<1>2. CASE IntervalPasses
  BY <1>2, <1>d DEF IntervalPasses
<1>3. CASE WatcherCheck
  BY <1>3, <1>e DEF WatcherCheck, Files
<1>4. ASSUME NEW v \in ExplicitTargets, EndpointUpdate(v) PROVE Goal
  BY <1>4 DEF EndpointUpdate
<1>5. CASE EndpointLatest
  BY <1>5, <1>d, <1>e DEF EndpointLatest
<1>6. CASE TimerCheck
  BY <1>6, <1>y DEF TimerCheck, OthersDown, At
<1>7. ASSUME NEW p \in Updaters, Boot(p) PROVE Goal
  <2> DEFINE r == [Down EXCEPT !.pc = "idle", !.installed = config]
  <2>1. r.pc = "idle" /\ r.installed = config
    BY Zenon DEF Down
  <2>2. Set(p, r) /\ config' = config
    BY <1>7 DEF Boot
  <2>3. p = "desktop"
    BY <1>7 DEF Boot
  <2>4. config' >= config
    BY <1>0, <2>2
  <2> HIDE DEF r
  <2> QED
    BY <1>f, <2>1, <2>2, <2>3, <2>4 DEF InProgress
<1>8. ASSUME NEW p \in Updaters, Die(p) PROVE Goal
  BY <1>8, <1>b DEF Die, Files, InProgress
<1>9. ASSUME NEW p \in Updaters, ReadConfig(p) PROVE Goal
  <2> DEFINE r == [updater[p] EXCEPT !.pc = "read",
                                     !.found = (config = updater[p].installed)]
  <2>1. r.target = updater[p].target /\ r.installed = updater[p].installed
    BY <1>0, Zenon DEF Process
  <2>2. /\ updater[p].target > updater[p].installed
        /\ config' # Torn => config' >= updater[p].installed
        /\ ~At(p, "down")
    BY <1>9, <1>y DEF ReadConfig, AimsHigh, ConfigHigh, InProgress, At, Files
  <2>3. Set(p, r)
    BY <1>9 DEF ReadConfig
  <2> HIDE DEF r
  <2> QED
    BY <1>f, <2>1, <2>2, <2>3
<1>10. ASSUME NEW p \in Updaters, OpenFails(p) \/ SkipWrite(p) PROVE Goal
  BY <1>10, <1>b DEF OpenFails, SkipWrite, Files, At, InProgress
<1>11. ASSUME NEW p \in Updaters, BeginWrite(p) \/ EndWrite(p) \/ WriteFails(p)
       PROVE  Goal
  BY <1>11, <1>b DEF BeginWrite, EndWrite, WriteFails, At, InProgress
<1>12. ASSUME NEW p \in Updaters, RestartService(p) \/ RestartFails(p) PROVE Goal
  BY <1>12, <1>b DEF RestartService, RestartFails, At, InProgress
<1>13. ASSUME NEW p \in Updaters, ReportSuccess(p) PROVE Goal
  BY <1>13, <1>b DEF ReportSuccess, AfterCall, At, InProgress
<1>14. ASSUME NEW p \in Updaters, ReportFailure(p) \/ RollbackFails(p) PROVE Goal
  BY <1>14, <1>b DEF ReportFailure, RollbackFails, AfterCall, At, InProgress
<1>15. CASE UNCHANGED vars
  BY <1>15, <1>d DEF vars
<1> QED
  BY <1>1, <1>2, <1>3, <1>4, <1>5, <1>6, <1>7, <1>8, <1>9, <1>10, <1>11, <1>12,
     <1>13, <1>14, <1>15 DEF Next

\* As long as only the desktop backend updates, config.py, unless a write cut it
\* short, never names a version below what the backend runs (_watch_iteration,
\* _rollback_version, apply_update).
THEOREM NeverBelow == Spec => []NeverBelowInstalled
<1>1. AloneInv => NeverBelowInstalled
  BY DEF AloneInv, ConfigHigh, NeverBelowInstalled
<1> QED
  BY <1>1, InitType, StepType, InitAlone, StepAlone, PTL DEF Spec
-----------------------------------------------------------------------------
(* The watcher's task. *)

\* Only a task that was created is cancelled.
CancelledInv == \A t \in cancelled : task[t] # "none"

\* As long as no two calls overlapped: what each call left, and, while a stop
\* waits for the task it cancelled, that it is the one there is.
SettledInv ==
    settled # "mixed" =>
        /\ settled = "stop" => ~running
        /\ settled = "stop" /\ Busy = {} => Alive = {} /\ current = 0
        /\ settled = "start" =>
             /\ Busy = {} /\ Alive = {current} /\ current \notin cancelled
             /\ task[current] = "sleeping" => running
        /\ Alive \subseteq {current}
        /\ \A c \in Busy : awaiting[c] = current /\ Busy = {c} /\ current \in cancelled

\* The flag is up: then the last event in any queue is the one that told so.
ShownInv ==
    \A s \in Subscriber :
        /\ stream[s].seen = "off" => stream[s].queue = <<>>
        /\ running /\ stream[s].queue # <<>> =>
             stream[s].queue[Len(stream[s].queue)] = "started"

LEMMA WatcherInitType == WatcherInit => WatcherTypeOK
<1> SUFFICES ASSUME WatcherInit PROVE WatcherTypeOK
  OBVIOUS
<1>1. NoStream \in Stream
  BY DEF NoStream, Stream
<1>2. stream \in [Subscriber -> Stream]
  BY <1>1 DEF WatcherInit
<1> QED
  BY <1>2 DEF WatcherInit, WatcherTypeOK, TaskState

\* What an event does to the streams.
LEMMA BroadcastFacts ==
    ASSUME stream \in [Subscriber -> Stream], NEW event \in {"started", "stopped"},
           Broadcast(event)
    PROVE  /\ stream' \in [Subscriber -> Stream]
           /\ \A s \in Subscriber :
                /\ stream[s].seen = "off" => stream'[s] = stream[s]
                /\ stream[s].seen # "off" =>
                     /\ stream'[s].seen = stream[s].seen
                     /\ stream'[s].queue = Append(stream[s].queue, event)
<1>1. ASSUME NEW s \in Subscriber
      PROVE  /\ stream'[s] \in Stream
             /\ stream[s].seen = "off" => stream'[s] = stream[s]
             /\ stream[s].seen # "off" =>
                  /\ stream'[s].seen = stream[s].seen
                  /\ stream'[s].queue = Append(stream[s].queue, event)
  <2>1. stream[s] \in Stream
    OBVIOUS
  <2>2. CASE stream[s].seen = "off"
    BY <2>1, <2>2 DEF Broadcast
  <2>3. CASE stream[s].seen # "off"
    <3>1. stream'[s] = [stream[s] EXCEPT !.queue = Append(stream[s].queue, event)]
      BY <2>3 DEF Broadcast
    <3>2. Append(stream[s].queue, event) \in Seq({"started", "stopped"})
      BY <2>1 DEF Stream
    <3> QED
      BY <2>1, <2>3, <3>1, <3>2 DEF Stream
  <2> QED
    BY <2>2, <2>3
<1>2. stream' \in [Subscriber -> Stream]
  BY <1>1 DEF Broadcast
<1> QED
  BY <1>1, <1>2

LEMMA WatcherStepType ==
    WatcherTypeOK /\ CancelledInv /\ [WatcherNext]_watcherVars
        => WatcherTypeOK' /\ CancelledInv'
<1> SUFFICES ASSUME WatcherTypeOK, CancelledInv, [WatcherNext]_watcherVars
             PROVE  WatcherTypeOK' /\ CancelledInv'
  OBVIOUS
<1>0. /\ running \in BOOLEAN /\ current \in {0} \cup Task /\ task \in [Task -> TaskState]
      /\ cancelled \subseteq Task /\ awaiting \in [Client -> {0} \cup Task]
      /\ settled \in {"start", "stop", "mixed"} /\ stream \in [Subscriber -> Stream]
      /\ current # 0 => task[current] # "none"
      /\ \A c \in Client : awaiting[c] # 0 => awaiting[c] \in cancelled
      /\ \A t \in cancelled : task[t] # "none"
      /\ 0 \notin Task
  BY DEF WatcherTypeOK, CancelledInv, Task
<1>o. \A call \in {"start", "stop"} : Overlaps(call) \in {"start", "stop", "mixed"}
  BY DEF Overlaps
\* No step takes a task back to where it was not created.
<1>t. ASSUME NEW t \in Task, NEW s \in {"created", "sleeping", "done"},
             task' = [task EXCEPT ![t] = s]
      PROVE  /\ task' \in [Task -> TaskState] /\ task'[t] = s
             /\ \A u \in Task : task[u] # "none" => task'[u] # "none"
  BY <1>0, <1>t DEF TaskState
<1>s. ASSUME NEW s \in Subscriber, NEW r \in Stream, stream' = [stream EXCEPT ![s] = r],
             UNCHANGED <<running, current, task, cancelled, awaiting, settled>>
      PROVE  WatcherTypeOK' /\ CancelledInv'
  BY <1>0, <1>s DEF WatcherTypeOK, CancelledInv
<1>1. ASSUME NEW c \in Client, StartWatcher(c)
      PROVE  WatcherTypeOK' /\ CancelledInv'
  <2>1. settled' \in {"start", "stop", "mixed"}
        /\ UNCHANGED <<running, cancelled, awaiting, stream>>
    BY <1>1, <1>o DEF StartWatcher
  <2>2. CASE UNCHANGED <<current, task>>
    BY <1>0, <2>1, <2>2 DEF WatcherTypeOK, CancelledInv
  <2>3. ASSUME NEW t \in Task, task' = [task EXCEPT ![t] = "created"], current' = t
        PROVE  WatcherTypeOK' /\ CancelledInv'
    <3>1. /\ task' \in [Task -> TaskState] /\ task'[t] = "created"
          /\ \A u \in Task : task[u] # "none" => task'[u] # "none"
      BY <1>t, <2>3
    <3> QED
      BY <1>0, <2>1, <2>3, <3>1 DEF WatcherTypeOK, CancelledInv
  <2> QED
    BY <1>1, <2>2, <2>3 DEF StartWatcher
<1>2. ASSUME NEW c \in Client, StopWatcher(c)
      PROVE  WatcherTypeOK' /\ CancelledInv'
  <2>1. /\ settled' \in {"start", "stop", "mixed"} /\ running' = FALSE
        /\ UNCHANGED <<task, stream>>
    BY <1>2, <1>o DEF StopWatcher
  <2>2. CASE current # 0 /\ task[current] # "done"
    <3>1. /\ cancelled' = cancelled \cup {current} /\ current' = current
          /\ awaiting' = [awaiting EXCEPT ![c] = current]
      BY <1>2, <2>2 DEF StopWatcher
    <3> QED
      BY <1>0, <2>1, <2>2, <3>1 DEF WatcherTypeOK, CancelledInv
  <2>3. CASE ~(current # 0 /\ task[current] # "done")
    <3>1. current' = 0 /\ UNCHANGED <<cancelled, awaiting>>
      BY <1>2, <2>3 DEF StopWatcher
    <3> QED
      BY <1>0, <2>1, <3>1 DEF WatcherTypeOK, CancelledInv
  <2> QED
    BY <2>2, <2>3
<1>3. ASSUME NEW c \in Client, StopWatcherReturns(c)
      PROVE  WatcherTypeOK' /\ CancelledInv'
  BY <1>0, <1>3 DEF StopWatcherReturns, WatcherTypeOK, CancelledInv
<1>4. ASSUME NEW t \in Task, LoopBegins(t) \/ LoopEnds(t)
      PROVE  WatcherTypeOK' /\ CancelledInv'
  <2>1. /\ running' \in BOOLEAN
        /\ UNCHANGED <<current, cancelled, awaiting, settled>>
    BY <1>0, <1>4 DEF LoopBegins, LoopEnds
  <2>2. stream' \in [Subscriber -> Stream]
    BY <1>0, <1>4, BroadcastFacts DEF LoopBegins, LoopEnds
  <2>3. /\ task' \in [Task -> TaskState]
        /\ \A u \in Task : task[u] # "none" => task'[u] # "none"
    BY <1>4, <1>t DEF LoopBegins, LoopEnds
  <2> QED
    BY <1>0, <2>1, <2>2, <2>3 DEF WatcherTypeOK, CancelledInv
<1>5. ASSUME NEW t \in Task, LoopCancelled(t)
      PROVE  WatcherTypeOK' /\ CancelledInv'
  <2>1. /\ task' \in [Task -> TaskState]
        /\ \A u \in Task : task[u] # "none" => task'[u] # "none"
    BY <1>5, <1>t DEF LoopCancelled
  <2> QED
    BY <1>0, <1>5, <2>1 DEF LoopCancelled, WatcherTypeOK, CancelledInv
<1>6. ASSUME NEW s \in Subscriber, Subscribe(s) \/ FirstEvent(s)
      PROVE  WatcherTypeOK' /\ CancelledInv'
  <2>1. PICK x \in {"subscribed", "started", "stopped"} :
               stream' = [stream EXCEPT ![s].seen = x]
    BY <1>6 DEF Subscribe, FirstEvent
  <2>2. stream' \in [Subscriber -> Stream]
    BY <1>0, <2>1 DEF Stream
  <2> QED
    BY <1>0, <1>6, <2>2 DEF Subscribe, FirstEvent, WatcherTypeOK, CancelledInv
<1>7. ASSUME NEW s \in Subscriber, NextEvent(s)
      PROVE  WatcherTypeOK' /\ CancelledInv'
  <2>. DEFINE q == stream[s].queue
              r == [seen |-> Head(q), queue |-> Tail(q)]
  <2>1. q \in Seq({"started", "stopped"}) /\ q # <<>> /\ stream' = [stream EXCEPT ![s] = r]
    BY <1>0, <1>7 DEF NextEvent, Stream
  <2>. HIDE DEF q
  <2>2. Head(q) \in {"started", "stopped"} /\ Tail(q) \in Seq({"started", "stopped"})
    BY <2>1
  <2>3. r \in Stream
    BY <2>2 DEF Stream
  <2> QED
    BY <1>7, <1>s, <2>1, <2>3 DEF NextEvent
<1>8. ASSUME NEW s \in Subscriber, Disconnect(s)
      PROVE  WatcherTypeOK' /\ CancelledInv'
  <2>1. NoStream \in Stream
    BY DEF NoStream, Stream
  <2> QED
    BY <1>8, <1>s, <2>1 DEF Disconnect
<1>9. CASE UNCHANGED watcherVars
  BY <1>0, <1>9 DEF watcherVars, WatcherTypeOK, CancelledInv
<1> QED
  BY <1>1, <1>2, <1>3, <1>4, <1>5, <1>6, <1>7, <1>8, <1>9 DEF WatcherNext

LEMMA WatcherStepSettled ==
    WatcherTypeOK /\ CancelledInv /\ SettledInv /\ [WatcherNext]_watcherVars => SettledInv'
<1> SUFFICES ASSUME WatcherTypeOK, CancelledInv, SettledInv, [WatcherNext]_watcherVars,
                    settled' # "mixed"
             PROVE  SettledInv'
  BY DEF SettledInv
<1>0. /\ current \in {0} \cup Task /\ task \in [Task -> TaskState]
      /\ cancelled \subseteq Task /\ awaiting \in [Client -> {0} \cup Task]
      /\ 0 \notin Task
  BY DEF WatcherTypeOK, Task
<1>m. settled # "mixed"
  BY DEF WatcherNext, watcherVars, StartWatcher, StopWatcher, StopWatcherReturns, LoopBegins,
         LoopEnds, LoopCancelled, Subscribe, FirstEvent, NextEvent, Disconnect, Overlaps
<1>i. /\ settled \in {"start", "stop"}
      /\ settled = "stop" => ~running
      /\ settled = "stop" /\ Busy = {} => Alive = {} /\ current = 0
      /\ settled = "start" =>
           /\ Busy = {} /\ Alive = {current} /\ current \notin cancelled
           /\ task[current] = "sleeping" => running
      /\ Alive \subseteq {current}
      /\ \A c \in Busy : awaiting[c] = current /\ Busy = {c} /\ current \in cancelled
  BY <1>m DEF SettledInv, WatcherTypeOK
<1>1. ASSUME NEW c \in Client, StartWatcher(c)
      PROVE  SettledInv'
  <2>1. /\ Busy = {} /\ settled' = "start" /\ Busy' = {}
        /\ UNCHANGED <<running, cancelled, awaiting>>
    BY <1>1 DEF StartWatcher, Overlaps, Busy
  <2>2. CASE AlreadyRunning
    <3>1. UNCHANGED <<current, task>>
      BY <1>1, <2>2 DEF StartWatcher
    <3>2. settled = "start"
      BY <1>i, <2>1, <2>2 DEF AlreadyRunning
    <3>3. Alive' = Alive
      BY <3>1 DEF Alive
    <3> QED
      BY <1>i, <2>1, <3>1, <3>2, <3>3 DEF SettledInv
  <2>3. CASE ~AlreadyRunning
    <3>1. PICK t \in Task : /\ task[t] = "none" /\ task' = [task EXCEPT ![t] = "created"]
                            /\ current' = t
      BY <1>1, <2>3 DEF StartWatcher
    <3>2. settled = "stop" /\ Alive = {}
      BY <1>i, <2>1, <2>3, <1>0 DEF AlreadyRunning, Alive
    <3>3. Alive' = {t} /\ task'[t] = "created"
      BY <1>0, <3>1, <3>2 DEF Alive
    <3>4. t \notin cancelled
      BY <3>1 DEF CancelledInv
    <3> QED
      BY <2>1, <3>1, <3>3, <3>4 DEF SettledInv
  <2> QED
    BY <2>2, <2>3
<1>2. ASSUME NEW c \in Client, StopWatcher(c)
      PROVE  SettledInv'
  <2>1. /\ Busy = {} /\ settled' = "stop" /\ running' = FALSE /\ task' = task
        /\ Alive' = Alive
    BY <1>2 DEF StopWatcher, Overlaps, Alive
  <2>2. CASE current # 0 /\ task[current] # "done"
    <3>1. /\ cancelled' = cancelled \cup {current} /\ current' = current
          /\ awaiting' = [awaiting EXCEPT ![c] = current]
      BY <1>2, <2>2 DEF StopWatcher
    <3>2. Busy' = {c} /\ awaiting'[c] = current
      BY <1>0, <2>1, <2>2, <3>1 DEF Busy
    <3> QED
      BY <1>i, <2>1, <3>1, <3>2 DEF SettledInv
  <2>3. CASE ~(current # 0 /\ task[current] # "done")
    <3>1. current' = 0 /\ awaiting' = awaiting
      BY <1>2, <2>3 DEF StopWatcher
    <3>2. Busy' = {}
      BY <2>1, <3>1 DEF Busy
    <3>3. Alive = {}
      BY <1>0, <1>i, <2>1, <2>3 DEF Alive
    <3> QED
      BY <2>1, <3>1, <3>2, <3>3 DEF SettledInv
  <2> QED
    BY <2>2, <2>3
<1>3. ASSUME NEW c \in Client, StopWatcherReturns(c)
      PROVE  SettledInv'
  <2>1. /\ awaiting[c] # 0 /\ task[awaiting[c]] = "done" /\ current' = 0
        /\ awaiting' = [awaiting EXCEPT ![c] = 0]
        /\ UNCHANGED <<running, task, cancelled, settled>>
    BY <1>3 DEF StopWatcherReturns
  <2>2. Busy = {c} /\ awaiting[c] = current /\ settled = "stop"
    BY <1>i, <2>1 DEF Busy
  <2>3. Alive = {} /\ Alive' = {}
    BY <1>i, <2>1, <2>2 DEF Alive
  <2>4. Busy' = {}
    BY <1>0, <2>1, <2>2 DEF Busy
  <2> QED
    BY <1>i, <2>1, <2>2, <2>3, <2>4 DEF SettledInv
\* The loop of the one task there is.
<1>4. ASSUME NEW t \in Task, LoopBegins(t)
      PROVE  SettledInv'
  <2>1. /\ task[t] = "created" /\ t \notin cancelled /\ running' = TRUE
        /\ task' = [task EXCEPT ![t] = "sleeping"]
        /\ UNCHANGED <<current, cancelled, awaiting, settled>>
    BY <1>4 DEF LoopBegins
  <2>2. t \in Alive /\ t = current
    BY <1>i, <2>1 DEF Alive
  <2>3. settled = "start"
    BY <1>i, <2>1, <2>2
  <2>4. Alive' = Alive /\ Busy' = Busy
    BY <1>0, <2>1, <2>2 DEF Alive, Busy
  <2> QED
    BY <1>i, <2>1, <2>3, <2>4 DEF SettledInv
<1>5. ASSUME NEW t \in Task, LoopEnds(t)
      PROVE  SettledInv'
  <2>1. t \in Alive /\ t = current /\ task[t] = "sleeping" /\ t \notin cancelled /\ ~running
    BY <1>5, <1>i DEF LoopEnds, Alive
  <2> QED
    BY <1>i, <2>1
<1>6. ASSUME NEW t \in Task, LoopCancelled(t)
      PROVE  SettledInv'
  <2>1. /\ t \in cancelled /\ t \in Alive /\ t = current
        /\ task' = [task EXCEPT ![t] = "done"]
        /\ UNCHANGED <<running, current, cancelled, awaiting, settled>>
    BY <1>6, <1>i DEF LoopCancelled, Alive
  <2>2. settled = "stop" /\ Busy # {} /\ Busy' = Busy
    BY <1>i, <2>1 DEF Busy
  <2>3. Alive' = {}
    BY <1>0, <1>i, <2>1 DEF Alive
  <2> QED
    BY <1>i, <2>1, <2>2, <2>3 DEF SettledInv
<1>7. ASSUME UNCHANGED <<running, current, task, cancelled, awaiting, settled>>
      PROVE  SettledInv'
  <2>1. Alive' = Alive /\ Busy' = Busy
    BY <1>7 DEF Alive, Busy
  <2> QED
    BY <1>i, <1>7, <2>1 DEF SettledInv
<1>8. ASSUME NEW s \in Subscriber, Subscribe(s) \/ FirstEvent(s) \/ NextEvent(s) \/ Disconnect(s)
      PROVE  SettledInv'
  BY <1>7, <1>8 DEF Subscribe, FirstEvent, NextEvent, Disconnect
<1>9. CASE UNCHANGED watcherVars
  BY <1>7, <1>9 DEF watcherVars
<1> QED
  BY <1>1, <1>2, <1>3, <1>4, <1>5, <1>6, <1>8, <1>9 DEF WatcherNext

LEMMA WatcherStepShown ==
    WatcherTypeOK /\ ShownInv /\ RunningIsShown /\ [WatcherNext]_watcherVars
        => ShownInv' /\ RunningIsShown'
<1> SUFFICES ASSUME WatcherTypeOK, ShownInv, RunningIsShown, [WatcherNext]_watcherVars
             PROVE  ShownInv' /\ RunningIsShown'
  OBVIOUS
<1>. DEFINE Fine(r, up) ==
              /\ r.seen = "off" => r.queue = <<>>
              /\ up /\ r.queue # <<>> => r.queue[Len(r.queue)] = "started"
              /\ up /\ r.queue = <<>> /\ r.seen \notin {"off", "subscribed"}
                   => r.seen = "started"
<1>0. /\ stream \in [Subscriber -> Stream]
      /\ \A s \in Subscriber : Fine(stream[s], running)
      /\ \A s \in Subscriber : stream[s].queue \in Seq({"started", "stopped"})
  BY DEF WatcherTypeOK, ShownInv, RunningIsShown, Stream
<1>1. ASSUME \A s \in Subscriber : Fine(stream'[s], running')
      PROVE  ShownInv' /\ RunningIsShown'
  BY <1>1 DEF ShownInv, RunningIsShown
\* The flag stays as it is, or goes down, and nobody is told.
<1>2. ASSUME stream' = stream, running' = running \/ ~running'
      PROVE  ShownInv' /\ RunningIsShown'
  BY <1>0, <1>1, <1>2
\* Everybody is told.
<1>3. ASSUME NEW event \in {"started", "stopped"}, Broadcast(event),
             running' => event = "started"
      PROVE  ShownInv' /\ RunningIsShown'
  <2>1. ASSUME NEW s \in Subscriber
        PROVE  Fine(stream'[s], running')
    <3>1. CASE stream[s].seen = "off"
      BY <1>0, <1>3, <3>1, BroadcastFacts
    <3>2. CASE stream[s].seen # "off"
      <4>. DEFINE q == stream[s].queue
      <4>1. /\ stream'[s].seen = stream[s].seen
            /\ stream'[s].queue = Append(q, event)
        BY <1>0, <1>3, <3>2, BroadcastFacts
      <4>2. q \in Seq({"started", "stopped"})
        BY <1>0
      <4>. HIDE DEF q
      <4>3. /\ Append(q, event) # <<>>
            /\ Append(q, event)[Len(Append(q, event))] = event
        BY <4>2
      <4> QED
        BY <1>3, <3>2, <4>1, <4>3
    <3> QED
      BY <3>1, <3>2
  <2> QED
    BY <1>1, <2>1
\* One subscriber moves.
<1>4. ASSUME NEW s \in Subscriber, NEW r, stream' = [stream EXCEPT ![s] = r],
             running' = running, Fine(r, running)
      PROVE  ShownInv' /\ RunningIsShown'
  BY <1>0, <1>1, <1>4
<1>5. ASSUME NEW c \in Client, StartWatcher(c) \/ StopWatcher(c) \/ StopWatcherReturns(c)
      PROVE  ShownInv' /\ RunningIsShown'
  BY <1>2, <1>5 DEF StartWatcher, StopWatcher, StopWatcherReturns
<1>6. ASSUME NEW t \in Task, LoopBegins(t) \/ LoopEnds(t) \/ LoopCancelled(t)
      PROVE  ShownInv' /\ RunningIsShown'
  <2>1. CASE LoopBegins(t)
    BY <1>3, <2>1 DEF LoopBegins
  <2>2. CASE LoopEnds(t)
    BY <1>3, <2>2 DEF LoopEnds
  <2>3. CASE LoopCancelled(t)
    BY <1>2, <2>3 DEF LoopCancelled
  <2> QED
    BY <1>6, <2>1, <2>2, <2>3
<1>7. ASSUME NEW s \in Subscriber, Subscribe(s) \/ FirstEvent(s)
      PROVE  ShownInv' /\ RunningIsShown'
  <2>1. PICK x \in {"subscribed", "started", "stopped"} :
          /\ stream' = [stream EXCEPT ![s].seen = x] /\ running' = running
          /\ x # "subscribed" /\ running => x = "started"
          /\ x = "subscribed" => stream[s].seen = "off"
    BY <1>7 DEF Subscribe, FirstEvent
  <2>. DEFINE r == [seen |-> x, queue |-> stream[s].queue]
  <2>2. stream' = [stream EXCEPT ![s] = r]
    <3>1. stream[s] \in Stream
      BY <1>0
    <3>2. [stream[s] EXCEPT !.seen = x] = r
      BY <3>1 DEF Stream
    <3> QED
      BY <2>1, <3>2
  <2>3. Fine(r, running)
    BY <1>0, <2>1
  <2> QED
    BY <1>4, <2>1, <2>2, <2>3
<1>8. ASSUME NEW s \in Subscriber, NextEvent(s)
      PROVE  ShownInv' /\ RunningIsShown'
  <2>. DEFINE q == stream[s].queue
              r == [seen |-> Head(q), queue |-> Tail(q)]
  <2>1. /\ q \in Seq({"started", "stopped"}) /\ q # <<>>
        /\ stream' = [stream EXCEPT ![s] = r] /\ running' = running
        /\ running => q[Len(q)] = "started"
    BY <1>0, <1>8 DEF NextEvent
  <2>. HIDE DEF q
  <2>2. /\ Head(q) = q[1] /\ Head(q) \in {"started", "stopped"}
        /\ Tail(q) = <<>> => Len(q) = 1
        /\ Tail(q) # <<>> => Tail(q)[Len(Tail(q))] = q[Len(q)]
    <3>1. /\ Len(q) \in Nat /\ Len(q) > 0 /\ Len(Tail(q)) = Len(q) - 1
          /\ Tail(q) \in Seq({"started", "stopped"})
          /\ \A i \in 1..(Len(q) - 1) : Tail(q)[i] = q[i + 1]
          /\ Head(q) = q[1] /\ Head(q) \in {"started", "stopped"}
      BY <2>1
    <3>2. CASE Len(q) = 1
      <4>1. Tail(q) = <<>>
        <5>. DEFINE u == Tail(q)
        <5>1. u \in Seq({"started", "stopped"}) /\ Len(u) = 0
          BY <3>1, <3>2
        <5>. HIDE DEF u
        <5>2. u = <<>>
          BY <5>1, EmptySeq
        <5> QED
          BY <5>2 DEF u
      <4> QED
        BY <3>1, <3>2, <4>1
    <3>3. CASE Len(q) # 1
      <4>1. Len(q) - 1 \in 1..(Len(q) - 1) /\ (Len(q) - 1) + 1 = Len(q)
        BY <3>1, <3>3
      <4> QED
        BY <3>1, <3>3, <4>1
    <3> QED
      BY <3>2, <3>3
  <2>3. Fine(r, running)
    BY <2>1, <2>2
  <2>. HIDE DEF r
  <2> QED
    BY <1>4, <2>1, <2>3
<1>9. ASSUME NEW s \in Subscriber, Disconnect(s)
      PROVE  ShownInv' /\ RunningIsShown'
  BY <1>4, <1>9 DEF Disconnect, NoStream
<1>10. CASE UNCHANGED watcherVars
  BY <1>2, <1>10 DEF watcherVars
<1> QED
  BY <1>5, <1>6, <1>7, <1>8, <1>9, <1>10 DEF WatcherNext

LEMMA WatcherInitInv ==
    WatcherInit => CancelledInv /\ SettledInv /\ ShownInv /\ RunningIsShown
BY DEF WatcherInit, CancelledInv, SettledInv, Busy, Alive, ShownInv, RunningIsShown, NoStream, Task

(* Types, with what they say of the handles: the task the watcher knows of *)
(* was created, and whoever waits, waits for a task that was cancelled.    *)
THEOREM WatcherTypeCorrect == WatcherSpec => []WatcherTypeOK
<1>1. WatcherTypeOK /\ CancelledInv /\ [WatcherNext]_watcherVars
        => WatcherTypeOK' /\ CancelledInv'
  BY WatcherStepType
<1> QED
  BY <1>1, WatcherInitType, WatcherInitInv, PTL DEF WatcherSpec

(* With one caller at a time a stop that returned left no loop and no      *)
(* flag: stop_watcher of backend/cpip_watcher.py.                          *)
THEOREM StopsSettle == WatcherSpec => []StopSettles
<1>1. SettledInv => StopSettles
  BY DEF SettledInv, StopSettles
<1> QED
  BY <1>1, WatcherInitType, WatcherInitInv, WatcherStepType, WatcherStepSettled, PTL
     DEF WatcherSpec

(* ... and after a start there is one loop, which the next stop will find: *)
(* start_watcher.                                                          *)
THEOREM StartsSettle == WatcherSpec => []StartSettles
<1>1. SettledInv => StartSettles
  BY DEF SettledInv, StartSettles
<1> QED
  BY <1>1, WatcherInitType, WatcherInitInv, WatcherStepType, WatcherStepSettled, PTL
     DEF WatcherSpec

(* However calls overlap, a subscriber that has read its events knows of a *)
(* watcher that runs: cpip_watcher_sse and _broadcast_event.               *)
THEOREM RunningAlwaysShown == WatcherSpec => []RunningIsShown
<1>1. WatcherTypeOK /\ CancelledInv /\ [WatcherNext]_watcherVars
        => WatcherTypeOK' /\ CancelledInv'
  BY WatcherStepType
<1> QED
  BY <1>1, WatcherInitType, WatcherInitInv, WatcherStepShown, PTL DEF WatcherSpec

=============================================================================
