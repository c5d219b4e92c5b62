-------------------------------- MODULE Daemon --------------------------------
(***************************************************************************)
(* The root daemon yabatmand as a whole (src/src/yabatmand.c): one thread  *)
(* that polls a Unix socket, serves one command per connection in the      *)
(* order of the listen backlog, leaves its loop when a signal or a `stop'  *)
(* command cleared keep_running, and then undoes what it can unless the    *)
(* machine is powering off.  It may also die without warning, and systemd  *)
(* starts it again: what it knew is gone, what it did to processes, units, *)
(* cores and hardware is not.                                              *)
(*                                                                         *)
(* It extends ProcFreezer, ServiceFreezer and CpuCores, its stateful parts; the*)
(* hardware settings that it only writes are the record hw.                *)
(***************************************************************************)
EXTENDS Naturals, Sequences, FiniteSets, ProcFreezer, ServiceFreezer, CpuCores

CONSTANTS
  Backlog,     \* connections that wait for accept: listen(server_sock, 5)
  Offered,     \* the commands that clients send
  HasEthernet, \* init_eth_interface found one
  HasWebcam    \* em_detect_webcams found one

ASSUME DaemonAssumption ==
  /\ Backlog \in Nat \ {0}
  /\ HasEthernet \in BOOLEAN
  /\ HasWebcam \in BOOLEAN

VARIABLES
  hw,                  \* what the kernel was last told
  tuning,              \* eco_freq_cap_pct and the two profile flags
  mode,                \* "up", or how the daemon went down
  keep_running,
  reboot_or_poweroff,
  backlog              \* commands of the connections not served yet

loopVars == <<mode, keep_running, reboot_or_poweroff, backlog>>
vars == <<procVars, serviceVars, coreVars, hw, tuning, loopVars>>

-----------------------------------------------------------------------------
(***************************************************************************)
(* The protocol: a command is a name and one argument.  atoi(arg) # 0 is   *)
(* all that the switches look at, so their arguments are Booleans.         *)
(***************************************************************************)
Plain == {"set_perf_profile", "set_normal_profile", "disable_cpu_cores", "reenable_cpu_cores",
          "freeze_services_dbus", "unfreeze_all_frozen_services", "power_off_now", "ping",
          "stop", "quit"}
Switches == {"set_low_profile", "set_cpu_driver_opmode", "toggle_ethernet", "set_webcam_power",
             "freeze_processes", "set_balanced_usb_autosuspend", "set_ultra_perf_mode",
             "set_rfkill_wifi", "set_rfkill_bluetooth"}
Limits == {"set_charge_limit", "set_eco_freq_cap"}

Names == Plain \cup Switches \cup Limits
           \cup {"set_whitelist", "set_blacklist", "set_procs_whitelist", "set_procs_blacklist"}

\* What the parser of each command can make of its argument: parse_list bounds
\* the service lists; the process lists are taken to name processes.
ASSUME OfferedAssumption ==
  \A c \in Offered :
    /\ c[1] \in Switches => c[2] \in BOOLEAN
    /\ c[1] \in Limits => c[2] \in Nat
    /\ c[1] \in {"set_procs_whitelist", "set_procs_blacklist"} => c[2] \subseteq Procs
    /\ c[1] \in {"set_whitelist", "set_blacklist"} => c[2] \in Lists

EcoCaps == 20..80
ChargeLimits == 60..100
Profiles == {"unset", "low", "ultra_low", "balanced", "performance"}

\* max_freq counts half percents of the highest frequency of the processor.
Hardware == [profile : Profiles, max_freq : 0..200, usb_autosuspend : BOOLEAN,
             runtime_pm : BOOLEAN, opmode : {"unset", "active", "passive"},
             ethernet : BOOLEAN, webcam : BOOLEAN,
             wifi : BOOLEAN, bluetooth : BOOLEAN, charge_limit : {0} \cup ChargeLimits]
Tuning == [eco : EcoCaps, usb : BOOLEAN, ultra : BOOLEAN]

TypeOK ==
  /\ ProcTypeOK
  /\ ServiceTypeOK
  /\ CoreTypeOK
  /\ hw \in Hardware
  /\ tuning \in Tuning
  /\ mode \in {"up", "exited", "crashed"}
  /\ keep_running \in BOOLEAN
  /\ reboot_or_poweroff \in BOOLEAN
  /\ backlog \in Seq(Offered) /\ Len(backlog) <= Backlog
  /\ mode # "up" => backlog = <<>>

-----------------------------------------------------------------------------
(***************************************************************************)
(* The settings the daemon only writes.                                    *)
(***************************************************************************)
\* set_energy_profile: the table of settings of a profile, with the tuning
\* values of the moment.
SetEnergyProfile(profile, ultra) ==
  LET eco == profile \in {"low", "ultra_low"}
  IN hw' = [hw EXCEPT
       !.profile = profile,
       !.max_freq = CASE ~eco -> 200 [] eco /\ ultra -> tuning.eco [] OTHER -> 2 * tuning.eco,
       !.usb_autosuspend = eco \/ (profile = "balanced" /\ tuning.usb),
       !.runtime_pm = ~(profile = "performance" /\ ultra)]

SetLowProfile(ultra) == SetEnergyProfile(IF ultra THEN "ultra_low" ELSE "low", ultra)

\* set_perf_profile brings the cores back first.
SetPerfProfile ==
  /\ ReenableCores
  /\ SetEnergyProfile("performance", tuning.ultra)

ManageInterface(up) == hw' = IF HasEthernet THEN [hw EXCEPT !.ethernet = up] ELSE hw
SetWebcamPower(on) == hw' = IF HasWebcam THEN [hw EXCEPT !.webcam = on] ELSE hw

\* The commands that change hw alone.
WriteHardware(name, arg) ==
  /\ \/ name = "set_normal_profile" /\ SetEnergyProfile("balanced", FALSE)
     \/ name = "set_low_profile" /\ SetLowProfile(arg)
     \/ name = "set_cpu_driver_opmode"
          /\ hw' = [hw EXCEPT !.opmode = IF arg THEN "active" ELSE "passive"]
     \/ name = "toggle_ethernet" /\ ManageInterface(arg)
     \/ name = "set_webcam_power" /\ SetWebcamPower(arg)
     \/ name = "set_rfkill_wifi" /\ hw' = [hw EXCEPT !.wifi = arg]
     \/ name = "set_rfkill_bluetooth" /\ hw' = [hw EXCEPT !.bluetooth = arg]
     \/ name = "set_charge_limit"
          /\ hw' = IF arg \in ChargeLimits THEN [hw EXCEPT !.charge_limit = arg] ELSE hw
  /\ UNCHANGED <<procVars, serviceVars, coreVars, tuning, keep_running, reboot_or_poweroff>>

\* A slip for the mutation runs: the range of the frequency cap is not tested.
TuneUnchecked(name, arg) ==
  /\ \/ name = "set_eco_freq_cap" /\ tuning' = [tuning EXCEPT !.eco = arg]
     \/ name = "set_balanced_usb_autosuspend" /\ tuning' = [tuning EXCEPT !.usb = arg]
     \/ name = "set_ultra_perf_mode" /\ tuning' = [tuning EXCEPT !.ultra = arg]
  /\ UNCHANGED <<procVars, serviceVars, coreVars, hw, keep_running, reboot_or_poweroff>>

\* The commands that change the tuning of later profiles, out of range refused.
Tune(name, arg) ==
  /\ \/ name = "set_eco_freq_cap"
          /\ tuning' = IF arg \in EcoCaps THEN [tuning EXCEPT !.eco = arg] ELSE tuning
     \/ name = "set_balanced_usb_autosuspend" /\ tuning' = [tuning EXCEPT !.usb = arg]
     \/ name = "set_ultra_perf_mode" /\ tuning' = [tuning EXCEPT !.ultra = arg]
  /\ UNCHANGED <<procVars, serviceVars, coreVars, hw, keep_running, reboot_or_poweroff>>

Freezing(name, arg) ==
  /\ \/ name = "freeze_processes" /\ \E opened \in BOOLEAN : FreezeProcesses(arg, opened)
     \/ name = "set_procs_whitelist" /\ SetProcsWhitelist(arg)
     \/ name = "set_procs_blacklist" /\ SetProcsBlacklist(arg)
  /\ UNCHANGED <<serviceVars, coreVars, hw, tuning, keep_running, reboot_or_poweroff>>

ServiceFreezing(name, arg) ==
  /\ \/ name = "freeze_services_dbus" /\ Freeze
     \/ name = "unfreeze_all_frozen_services" /\ Unfreeze
     \/ name = "set_whitelist" /\ SetWhitelist(arg)
     \/ name = "set_blacklist" /\ SetBlacklist(arg)
  /\ UNCHANGED <<procVars, coreVars, hw, tuning, keep_running, reboot_or_poweroff>>

Cpu(name) ==
  /\ \/ name = "disable_cpu_cores" /\ DisableCores /\ UNCHANGED hw
     \/ name = "reenable_cpu_cores" /\ ReenableCores /\ UNCHANGED hw
     \/ name = "set_perf_profile" /\ SetPerfProfile
  /\ UNCHANGED <<procVars, serviceVars, tuning, keep_running, reboot_or_poweroff>>

\* Control of the daemon itself; any other name (ping, or one the daemon does
\* not know, which is answered -1) changes nothing.
Control(name) ==
  /\ keep_running' = (keep_running /\ name \notin {"stop", "quit"})
  /\ reboot_or_poweroff' = (reboot_or_poweroff \/ name = "power_off_now")
  /\ name \notin Names \ {"stop", "quit", "power_off_now", "ping"}
  /\ UNCHANGED <<procVars, serviceVars, coreVars, hw, tuning>>

HandleCommand(name, arg) ==
  \/ WriteHardware(name, arg)
  \/ Tune(name, arg)
  \/ Freezing(name, arg)
  \/ ServiceFreezing(name, arg)
  \/ Cpu(name)
  \/ Control(name)

-----------------------------------------------------------------------------
(***************************************************************************)
(* The loop of main.                                                       *)
(***************************************************************************)
\* A client connects and writes its line; with no daemon it gives up silently.
Connect(c) ==
  /\ mode = "up"
  /\ Len(backlog) < Backlog
  /\ backlog' = Append(backlog, c)
  /\ UNCHANGED <<procVars, serviceVars, coreVars, hw, tuning, mode, keep_running, reboot_or_poweroff>>

\* One turn of the loop: accept, read, handle_command, close.
Serve ==
  /\ mode = "up"
  /\ keep_running
  /\ backlog # <<>>
  /\ HandleCommand(Head(backlog)[1], Head(backlog)[2])
  /\ backlog' = Tail(backlog)
  /\ UNCHANGED mode

\* SIGTERM or SIGINT: signal_handler.
Signal ==
  /\ mode = "up"
  /\ keep_running' = FALSE
  /\ UNCHANGED <<procVars, serviceVars, coreVars, hw, tuning, mode, reboot_or_poweroff, backlog>>

\* What leaving writes to the hardware: set_normal_profile, then the network and the webcam.
RestoredHardware ==
  [hw EXCEPT !.profile = "balanced", !.max_freq = 200, !.runtime_pm = TRUE,
             !.usb_autosuspend = tuning.usb,
             !.ethernet = @ \/ HasEthernet, !.webcam = @ \/ HasWebcam]

\* Three slips for the mutation runs: waking everybody whatever the lists say, ...
RestoreByWakingAll ==
  /\ hw' = RestoredHardware
  /\ Unfreeze
  /\ frozen_procs' = FALSE
  /\ stopped' = {}
  /\ UNCHANGED <<running, procs_whitelist, procs_blacklist, coreVars>>

\* ... leaving the processes to themselves, ...
RestoreButProcesses ==
  /\ hw' = RestoredHardware
  /\ Unfreeze
  /\ UNCHANGED <<procVars, coreVars>>

\* ... and leaving the webcam powered off.
RestoreButWebcam ==
  /\ hw' = [RestoredHardware EXCEPT !.webcam = hw.webcam]
  /\ Unfreeze
  /\ \E opened \in BOOLEAN : FreezeProcesses(FALSE, opened)
  /\ UNCHANGED coreVars

\* The end of main: what the comment calls restoring the system to a safe state.
RestoreDefaults ==
  /\ hw' = RestoredHardware
  /\ Unfreeze
  /\ \E opened \in BOOLEAN : FreezeProcesses(FALSE, opened)
  /\ UNCHANGED coreVars

\* What follows the loop; waiting clients are cut off.
ShutDown ==
  /\ IF reboot_or_poweroff THEN UNCHANGED <<procVars, serviceVars, coreVars, hw>> ELSE RestoreDefaults
  /\ mode' = "exited"
  /\ backlog' = <<>>
  /\ UNCHANGED <<tuning, keep_running, reboot_or_poweroff>>

\* A slip for the mutation runs: keep_running is looked at only when poll times out.
LeaveLoopWhenIdle ==
  /\ mode = "up"
  /\ ~keep_running
  /\ backlog = <<>>
  /\ ShutDown

LeaveLoop ==
  /\ mode = "up"
  /\ ~keep_running
  /\ ShutDown

\* poll fails for another reason than a signal: the loop is left at once.
PollError ==
  /\ mode = "up"
  /\ ShutDown

\* Killed, out of memory, or a fault: nothing is undone and waiting clients are cut off.
Crash ==
  /\ mode = "up"
  /\ mode' = "crashed"
  /\ backlog' = <<>>
  /\ UNCHANGED <<procVars, serviceVars, coreVars, hw, tuning, keep_running, reboot_or_poweroff>>

\* systemd (Restart=on-failure) or an administrator starts the daemon again.
Start ==
  /\ mode # "up"
  /\ mode' = "up"
  /\ LoseProcMemory
  /\ LoseServiceMemory
  /\ LoseCoreMemory
  /\ tuning' = [eco |-> 40, usb |-> TRUE, ultra |-> FALSE]
  /\ keep_running' = TRUE
  /\ reboot_or_poweroff' = FALSE
  /\ UNCHANGED <<hw, backlog>>

\* The rest of the machine: processes come and go, the administrator starts and
\* stops units, plugs and unplugs cores, and the sleep hook writes cpu*/online.
Environment ==
  /\ \/ /\ \E p \in Procs : Spawn(p) \/ Exit(p)
        /\ UNCHANGED <<serviceVars, coreVars>>
     \/ /\ \E s \in Services : AdminStart(s) \/ AdminStop(s)
        /\ UNCHANGED <<procVars, coreVars>>
     \/ /\ HookOnline \/ \E c \in Cores : AdminPlug(c) \/ AdminUnplug(c)
        /\ UNCHANGED <<procVars, serviceVars>>
  /\ UNCHANGED <<hw, tuning, loopVars>>

-----------------------------------------------------------------------------
Init ==
  /\ ProcInit
  /\ ServiceInit
  /\ CoreInit
  /\ hw = [profile |-> "unset", max_freq |-> 200, usb_autosuspend |-> FALSE, runtime_pm |-> FALSE,
           opmode |-> "unset", ethernet |-> HasEthernet, webcam |-> HasWebcam,
           wifi |-> TRUE, bluetooth |-> TRUE, charge_limit |-> 0]
  /\ tuning = [eco |-> 40, usb |-> TRUE, ultra |-> FALSE]
  /\ mode = "up"
  /\ keep_running = TRUE
  /\ reboot_or_poweroff = FALSE
  /\ backlog = <<>>

Next ==
  \/ \E c \in Offered : Connect(c)
  \/ Serve
  \/ Signal
  \/ LeaveLoop
  \/ PollError
  \/ Crash
  \/ Start
  \/ Environment

(***************************************************************************)
(* The loop polls with a timeout, handles at most one connection per turn  *)
(* and looks at keep_running in each, so a loop that has to end does; no   *)
(* more is assumed: nobody has to connect, to be served or to restart.     *)
(***************************************************************************)
Fairness == WF_vars(LeaveLoop)

Spec == Init /\ [][Next]_vars /\ Fairness

-----------------------------------------------------------------------------
(***************************************************************************)
(* The three stateful parts behave as their own modules say: whatever      *)
(* clients, the loop, the exit path and restarts do, nothing strands a     *)
(* process, forgets a unit or loses a core in a way that those modules do  *)
(* not account for.                                                        *)
(***************************************************************************)
ImplementsComponents == ProcSpec /\ ServiceSpec /\ CoreSpec

(***************************************************************************)
(* A daemon that leaves its loop and is not powering the machine off wakes *)
(* every process a waking command could have woken and starts every unit   *)
(* on its list, or else the scan of /proc failed, the bus was closed or    *)
(* systemd refused; and it hands back the network and the webcam.          *)
(***************************************************************************)
ExitRestores ==
  [][mode = "up" /\ mode' = "exited" /\ ~reboot_or_poweroff =>
       /\ stopped' \subseteq Stranded \/ FailedThaw
       /\ owed_services' \subseteq Forgotten \/ frozen_services' # {} \/ RefusedStart
       /\ hw'.ethernet = HasEthernet /\ hw'.webcam = HasWebcam]_vars

\* SIGTERM and `stop' end the daemon even while clients keep connecting.
LoopEnds == ~keep_running ~> mode # "up"
=============================================================================
