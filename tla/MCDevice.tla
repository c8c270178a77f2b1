------------------------------ MODULE MCDevice -------------------------------
(* The scripts of one board.  Those of provisioning and updates are one    *)
(* composition (Device); the boot switch, the monitor of K3s and the       *)
(* weather dApp have no state in common with it or with each other, so a   *)
(* behaviour is about one of the four and the others rest; monitor and     *)
(* weather dApp where nothing is promised of them.                         *)
EXTENDS Device, BootSwitch, HealthMonitor, WeatherStation

VARIABLE focus

MCHostFiles == {"config.txt", "cmdline.txt", "kernel8.img"}
MCPinetFiles == {"config.txt", "cmdline.txt", "uEnv.txt"}
MCWriteTimes == {0, 1}

mcVars == <<vars, switchVars, monitorVars, weatherVars, focus>>

MCInit ==
    /\ Init /\ SwitchInit /\ MonitorInit /\ WeatherInit
    /\ focus \in {"updates", "switch", "monitor", "weather"}
    /\ focus # "monitor" => ~service /\ ~api /\ ~ready
    /\ focus # "weather" => faults = {"influx"}

Updates(Step) ==
    focus = "updates" /\ Step /\ UNCHANGED <<switchVars, monitorVars, weatherVars, focus>>
Switches(Step) ==
    focus = "switch" /\ Step /\ UNCHANGED <<vars, monitorVars, weatherVars, focus>>
Monitors(Step) ==
    focus = "monitor" /\ Step /\ UNCHANGED <<vars, switchVars, weatherVars, focus>>
Weathers(Step) ==
    focus = "weather" /\ Step /\ UNCHANGED <<vars, switchVars, monitorVars, focus>>

MCNext ==
    \/ Updates(Next)
    \/ Switches(SwitchNext)
    \/ Monitors(MonitorNext)
    \/ Weathers(WeatherNext)

MCFairness ==
    /\ WF_mcVars(Updates(Boot))
    /\ WF_mcVars(Updates(Provision))
    /\ WF_mcVars(Updates(Update))
    /\ SF_mcVars(Updates(timers /\ CheckManifest))
    /\ WF_mcVars(Monitors(MonitorStep))
    /\ WF_mcVars(Weathers(WeatherStep))

MCSpec == MCInit /\ [][MCNext]_mcVars /\ MCFairness
=============================================================================
