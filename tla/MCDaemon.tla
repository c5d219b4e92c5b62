------------------------------- MODULE MCDaemon -------------------------------
(***************************************************************************)
(* One chat client, one idle unit and two secondary cores; a backlog of one *)
(* connection is enough for a client to find it full and for commands to   *)
(* be cut off when the daemon goes down.                                   *)
(***************************************************************************)
EXTENDS Daemon

CONSTANTS chat, dbus, cron, cpu1, cpu2

MCProcs == {chat}
MCServices == {dbus, cron}
MCHardcoded == {dbus}
MCCores == {cpu1, cpu2}

\* What a run leaves out.
Nothing == {}

\* The commands of the freezing protocol and of the exit path.
MCFreezing ==
  ({"freeze_services_dbus", "unfreeze_all_frozen_services", "power_off_now", "stop", "ping"} \X {"-"})
    \cup ({"freeze_processes"} \X BOOLEAN)
    \cup {<<"set_procs_whitelist", {chat}>>, <<"set_procs_blacklist", {chat}>>,
          <<"set_whitelist", {cron}>>, <<"set_blacklist", {cron}>>}

\* The commands that set profiles, cores and devices, with a cap and a charge
\* limit just out of range; nothing depends on the radios, which stay on.
MCSettings ==
  ({"set_perf_profile", "set_normal_profile", "disable_cpu_cores", "reenable_cpu_cores",
    "quit", "power_off_now", "shutdown"} \X {"-"})
    \cup ({"set_low_profile"} \X BOOLEAN)
    \cup ({"toggle_ethernet", "set_webcam_power", "set_balanced_usb_autosuspend"} \X {FALSE})
    \cup ({"set_rfkill_wifi", "set_rfkill_bluetooth", "set_cpu_driver_opmode",
            "set_ultra_perf_mode"} \X {TRUE})
    \cup {<<"set_eco_freq_cap", 19>>, <<"set_eco_freq_cap", 20>>, <<"set_charge_limit", 101>>}
=============================================================================
