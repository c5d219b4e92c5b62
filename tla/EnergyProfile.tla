---------------------------- MODULE EnergyProfile ----------------------------
(***************************************************************************)
(* The energy profiles of the root daemon (src/src/yabatmand.c) down to    *)
(* the files of /sys and /proc that a profile writes.  Daemon keeps three  *)
(* columns of the table of profiles; here are all of them, the order in    *)
(* which they are written, and what the kernel makes of a value.           *)
(*                                                                         *)
(* A file that exists takes what is written to it, but for three rules of  *)
(* the kernel: the Intel driver clamps min_perf_pct to max_perf_pct and    *)
(* the other way round; a driver in its active mode refuses an energy      *)
(* preference while its own `performance' governor is on; and a new mode   *)
(* of the driver starts with settings of its own.                          *)
(***************************************************************************)
EXTENDS Naturals, Sequences

CONSTANTS
  Machines,  \* the machines the daemon may find itself on
  Devices,   \* USB devices that have a power/control file
  Human,     \* those with a HID or an audio interface
  Webcam,    \* the devices (one or none) that em_detect_webcams found
  EcoCaps    \* caps of the low profile that clients set

VARIABLES
  machine,    \* what this machine has; never changes
  sys,        \* the settings in force
  usb,        \* power/control of each USB device
  authorized, \* whether the webcam is authorized; if not it shows no interface
  governors,  \* available_governors, as detect_govs last read them
  tuning      \* eco_freq_cap_pct and the two profile flags

vars == <<machine, sys, usb, authorized, governors, tuning>>

Profiles == {"low", "ultra_low", "balanced", "performance"}
Governors == {"performance", "powersave", "ondemand", "schedutil"}
Schedulers == {"bfq", "mq-deadline", "kyber", "none"}

\* Files that a machine may lack.
Files == {"platform", "aspm", "sata", "runtime_pm", "wifi", "bluetooth", "cage", "laptop_mode",
          "sound", "boost", "dyn_boost", "epp", "epb"}

\* Frequencies count half percents of the highest one of the processor, and
\* speeds of the GPU count steps above its lowest one.
GpuTop == 4

ASSUME ProfileAssumption ==
  /\ Human \subseteq Devices
  /\ Webcam \subseteq Devices
  /\ EcoCaps \subseteq 20..80
  /\ \A m \in Machines :
       /\ m.vendor \in {"intel", "amd", "unknown"}
       /\ m.pstate \in BOOLEAN                     \* a driver with two modes
       /\ m.gpu \in {"intel", "amd", "apu", "none"}
       /\ m.gpu_boost \in BOOLEAN                  \* gt_boost_freq_mhz can be read
       /\ m.files \subseteq Files
       /\ m.schedulers \subseteq Schedulers
       /\ m.governors \subseteq Governors
       \* The list of the balanced profile has no end mark: with none of its
       \* governors the search would run past it.
       /\ m.governors \cap {"ondemand", "schedutil", "powersave"} # {}
       /\ m.min_freq \in 1..200

TypeOK ==
  /\ machine \in Machines
  /\ usb \in [Devices -> {"on", "auto"}]
  /\ authorized \in BOOLEAN
  /\ governors \subseteq Governors
  /\ tuning \in [eco : EcoCaps \cup {40}, usb : BOOLEAN, ultra : BOOLEAN]
  /\ sys.driver \in {"active", "passive"}
  /\ sys.governor \in Governors \cup {"-"}
  /\ sys.scheduler \in Schedulers \cup {"-"}
  /\ sys.gpu_max \in 0..GpuTop
  /\ sys.min_freq \in 0..200 /\ sys.max_freq \in 0..200 /\ sys.min_freq <= sys.max_freq
  /\ sys.min_pct \in 0..100 /\ sys.max_pct \in 0..100 /\ sys.min_pct <= sys.max_pct

AtLeast(a, b) == IF a >= b THEN a ELSE b
AtMost(a, b) == IF a <= b THEN a ELSE b

-----------------------------------------------------------------------------
(***************************************************************************)
(* The switch of set_energy_profile: what each profile asks for.           *)
(***************************************************************************)
Eco(p) == p \in {"low", "ultra_low"}

Table(p, ultra) ==
  LET saving == IF p = "performance" THEN "0" ELSE "1"
  IN [platform |-> CASE Eco(p) -> "low-power" [] OTHER -> p,
      aspm |-> CASE Eco(p) -> "powersupersave"
                 [] p = "performance" /\ ultra -> "performance"
                 [] OTHER -> "default",
      sata |-> CASE Eco(p) -> "min_power"
                 [] p = "balanced" -> "med_power_with_dipm"
                 [] p = "performance" -> "max_performance",
      runtime_pm |-> IF p = "performance" /\ ultra THEN "on" ELSE "auto",
      wifi |-> saving, bluetooth |-> saving, sound |-> saving,
      cage |-> IF p = "performance" THEN "1500" ELSE "6000",
      laptop_mode |-> IF p = "performance" THEN "0" ELSE "2",
      boost |-> IF Eco(p) THEN "0" ELSE "1",
      dyn_boost |-> IF Eco(p) THEN "0" ELSE "1",
      epp |-> CASE Eco(p) -> "power"
                [] p = "balanced" -> "balance_performance"
                [] p = "performance" -> "performance",
      epb |-> CASE Eco(p) -> "15" [] p = "balanced" -> "4" [] p = "performance" -> "0"]

Preferred(p) ==
  CASE Eco(p) -> <<"powersave", "ondemand">>
    [] p = "balanced" -> <<"ondemand", "schedutil", "powersave">>
    [] p = "performance" -> <<"performance", "schedutil">>

\* The first of the preferred governors that is in `offered', if there is one.
FirstPreferred(p, offered) ==
  {Preferred(p)[i] : i \in {j \in DOMAIN Preferred(p) :
     /\ Preferred(p)[j] \in offered
     /\ \A k \in 1..(j - 1) : Preferred(p)[k] \notin offered}}

-----------------------------------------------------------------------------
(***************************************************************************)
(* The setters, each a function from the settings in force to the new ones.*)
(***************************************************************************)
Write(s, file, value) == IF file \in machine.files THEN [s EXCEPT ![file] = value] ELSE s

SetPlatformProfile(s, t) == Write(s, "platform", t.platform)
SetPcieAspm(s, t) == Write(s, "aspm", t.aspm)
SetSataLinkPowerManagement(s, t) == Write(s, "sata", t.sata)
SetRuntimePm(s, t) == Write(s, "runtime_pm", t.runtime_pm)
\* The first power file of an interface that exists, and iw in any case.
SetWifiPowerSave(s, t) == Write(s, "wifi", t.wifi)
SetBluetoothPowerSave(s, t) == Write(s, "bluetooth", t.bluetooth)
SetDirtyParameters(s, t) == Write(s, "cage", t.cage)
SetLaptopMode(s, t) == Write(s, "laptop_mode", t.laptop_mode)
SetSoundPowerSave(s, t) == Write(s, "sound", t.sound)

\* no_turbo on Intel, boost on AMD, nothing on a processor of another make.
SetCpuBoost(s, t) == IF machine.vendor = "unknown" THEN s ELSE Write(s, "boost", t.boost)

\* Intel only, and hwp_dynamic_boost is there in the active mode alone.
SetCpuDynBoost(s, t) ==
  IF machine.vendor = "intel" /\ machine.pstate /\ s.driver = "active"
    THEN Write(s, "dyn_boost", t.dyn_boost) ELSE s

\* The scheduler of the profile, or its fallback, or the one the disk has.
SetIoScheduler(s, p) ==
  LET wanted == CASE Eco(p) -> <<"bfq", "mq-deadline">>
                  [] p = "balanced" -> <<"mq-deadline", "mq-deadline">>
                  [] p = "performance" -> <<"kyber", "none">>
  IN CASE wanted[1] \in machine.schedulers -> [s EXCEPT !.scheduler = wanted[1]]
       [] wanted[1] \notin machine.schedulers /\ wanted[2] \in machine.schedulers ->
            [s EXCEPT !.scheduler = wanted[2]]
       [] OTHER -> s

\* What the driver offers: the active mode has governors of its own.
OfferedGovernors(s) ==
  IF machine.pstate /\ s.driver = "active" THEN {"performance", "powersave"} ELSE machine.governors

\* The choice goes by what detect_govs read; em_set_cpu_governor asks the driver
\* of this moment, and when that has no such governor no other is tried.
SetCpuGovernor(s, p) ==
  LET chosen == FirstPreferred(p, governors)
  IN IF chosen \cap OfferedGovernors(s) = {} THEN s
     ELSE [s EXCEPT !.governor = CHOOSE g \in chosen : TRUE]

\* The energy preference, unless the driver refuses it.
WriteEpp(s, t) ==
  LET refused == /\ machine.pstate /\ s.driver = "active"
                 /\ s.governor = "performance" /\ t.epp # "performance"
  IN IF refused THEN s ELSE Write(s, "epp", t.epp)

\* Once per processor, with its older counterpart; once more per policy on Intel.
SetCpuPerfPolicy(s, t) == Write(WriteEpp(s, t), "epb", t.epb)
SetPstateEpp(s, t) == IF machine.vendor = "intel" /\ machine.pstate THEN WriteEpp(s, t) ELSE s

\* The range of frequencies: the cap applies to the low profiles alone, half of
\* it to the ultra low one.
SetCpuFrequencyRange(s, p, ultra) ==
  LET cap == CASE ~Eco(p) -> 200
               [] p = "ultra_low" /\ ultra -> tuning.eco
               [] OTHER -> 2 * tuning.eco
      top == AtLeast(cap, machine.min_freq)
  IN [s EXCEPT !.max_freq = top,
               !.min_freq = IF p = "performance" /\ ultra
                              THEN AtLeast(top \div 2, machine.min_freq) ELSE machine.min_freq]

\* The minimum goes first, clamped by the maximum of the profile before.
SetIntelCpuPerfPct(s, low, high) ==
  LET floor == AtMost(low, s.max_pct)
  IN IF machine.vendor = "intel" /\ machine.pstate
       THEN [s EXCEPT !.min_pct = floor, !.max_pct = AtLeast(high, floor)]
       ELSE s

\* em_set_amd_cpu_perf_pct looks for policy directories one level too high and
\* finds none.
SetAmdCpuPerfPct(s) == s

SetPerfPct(s, p, ultra) ==
  CASE Eco(p) -> SetIntelCpuPerfPct(SetAmdCpuPerfPct(s), 20, 40)
    [] p = "balanced" -> SetIntelCpuPerfPct(SetAmdCpuPerfPct(s), 40, 100)
    [] p = "performance" ->
         SetIntelCpuPerfPct(SetAmdCpuPerfPct(s), IF ultra THEN 100 ELSE 20, 100)

\* A slip for the mutation runs: the boost frequency is not looked at.
SetGpuByMax(s, p) ==
  CASE machine.gpu # "intel" -> s
    [] machine.gpu = "intel" /\ Eco(p) -> [s EXCEPT !.gpu_max = 0]
    [] machine.gpu = "intel" /\ p = "balanced" -> [s EXCEPT !.gpu_max = @ \div 2]
    [] OTHER -> s

(***************************************************************************)
(* An AMD card gets a level by name, but an APU is never forced to its     *)
(* highest.  An Intel GPU gets a new limit computed from its limit of the  *)
(* moment, which an earlier profile may have lowered, or from its boost    *)
(* frequency where that is higher.                                         *)
(***************************************************************************)
SetGpuPowerProfile(s, p) ==
  LET top == IF machine.gpu_boost THEN AtLeast(s.gpu_max, GpuTop) ELSE s.gpu_max
  IN CASE machine.gpu = "intel" ->
            [s EXCEPT !.gpu_max = CASE Eco(p) -> 0 [] p = "balanced" -> top \div 2 [] OTHER -> top]
       [] machine.gpu \in {"amd", "apu"} ->
            [s EXCEPT !.gpu_level = CASE Eco(p) -> "low"
                                      [] p = "performance" /\ machine.gpu = "amd" -> "high"
                                      [] OTHER -> "auto"]
       [] OTHER -> s

\* set_energy_profile, in the order of its calls (em_set_usb_autosuspend apart).
Applied(s, p, ultra) ==
  LET t == Table(p, ultra)
      graphics == SetGpuPowerProfile(SetPlatformProfile(s, t), p)
      cpu == SetCpuFrequencyRange(SetCpuPerfPolicy(SetCpuGovernor(graphics, p), t), p, ultra)
      pct == SetPerfPct(SetCpuBoost(cpu, t), p, ultra)
      boosted == SetCpuDynBoost(SetPstateEpp(pct, t), t)
      buses == SetRuntimePm(SetSataLinkPowerManagement(SetPcieAspm(boosted, t), t), t)
      radios == SetBluetoothPowerSave(SetWifiPowerSave(buses, t), t)
      disks == SetLaptopMode(SetDirtyParameters(SetIoScheduler(radios, p), t), t)
  IN SetSoundPowerSave(disks, t)

\* is_usb_hid_or_audio reads the interfaces, which an unauthorized device lacks.
ShowsHuman(d) == d \in Human /\ (d \in Webcam => authorized)

\* A slip for the mutation runs: devices of humans are not passed over.
SetUsbAutosuspendOfAll(enable) ==
  usb' = [d \in Devices |-> IF enable THEN "auto" ELSE "on"]

\* Devices of humans are passed over when suspending, not when waking.
SetUsbAutosuspend(enable) ==
  usb' = [d \in Devices |-> CASE ~enable -> "on"
                              [] enable /\ ShowsHuman(d) -> usb[d]
                              [] OTHER -> "auto"]

-----------------------------------------------------------------------------
(***************************************************************************)
(* The commands.                                                           *)
(***************************************************************************)
SetEnergyProfile(p, ultra) ==
  /\ sys' = Applied(sys, p, ultra)
  /\ SetUsbAutosuspend(Eco(p) \/ (p = "balanced" /\ tuning.usb))
  /\ UNCHANGED <<machine, authorized, governors, tuning>>

SetLowProfile(ultra) == SetEnergyProfile(IF ultra THEN "ultra_low" ELSE "low", ultra)
SetNormalProfile == SetEnergyProfile("balanced", FALSE)
SetPerfProfile == SetEnergyProfile("performance", tuning.ultra)

\* set_cpu_driver_opmode.  Writing the mode that is on already does nothing; a
\* new one takes away the limits and picks a governor.
SwitchDriver(mode) ==
  IF machine.pstate /\ mode # sys.driver
    THEN \E g \in OfferedGovernors([sys EXCEPT !.driver = mode]) :
           sys' = [sys EXCEPT !.driver = mode, !.governor = g,
                              !.min_freq = machine.min_freq, !.max_freq = 200,
                              !.min_pct = 0, !.max_pct = 100]
    ELSE UNCHANGED sys

\* A slip for the mutation runs: the governors are not read again.
SetCpuDriverOpmodeUnread(mode) ==
  SwitchDriver(mode) /\ UNCHANGED <<machine, usb, authorized, governors, tuning>>

\* The command: the driver changes its mode, then detect_govs reads its governors.
SetCpuDriverOpmode(mode) ==
  /\ SwitchDriver(mode)
  /\ governors' = OfferedGovernors(sys')
  /\ UNCHANGED <<machine, usb, authorized, tuning>>

SetWebcamPower(on) ==
  /\ authorized' = IF Webcam # {} THEN on ELSE authorized
  /\ UNCHANGED <<machine, sys, usb, governors, tuning>>

Tune ==
  /\ \/ \E cap \in EcoCaps : tuning' = [tuning EXCEPT !.eco = cap]
     \/ \E on \in BOOLEAN : tuning' = [tuning EXCEPT !.usb = on]
     \/ \E on \in BOOLEAN : tuning' = [tuning EXCEPT !.ultra = on]
  /\ UNCHANGED <<machine, sys, usb, authorized, governors>>

\* The daemon is started again: detect_govs, and the tuning of its declarations.
Restart ==
  /\ governors' = OfferedGovernors(sys)
  /\ tuning' = [eco |-> 40, usb |-> TRUE, ultra |-> FALSE]
  /\ UNCHANGED <<machine, sys, usb, authorized>>

-----------------------------------------------------------------------------
\* A machine as its kernel sets it up.
Booted(m, driver, governor) ==
  [driver |-> driver, governor |-> governor, scheduler |-> "-",
   gpu_max |-> GpuTop, gpu_level |-> "auto",
   min_freq |-> m.min_freq, max_freq |-> 200, min_pct |-> 0, max_pct |-> 100,
   platform |-> "-", aspm |-> "-", sata |-> "-", runtime_pm |-> "-", wifi |-> "-",
   bluetooth |-> "-", sound |-> "-", cage |-> "-", laptop_mode |-> "-", boost |-> "1",
   dyn_boost |-> "0", epp |-> "-", epb |-> "-"]

Init ==
  /\ machine \in Machines
  /\ \E driver \in {"active", "passive"} :
       \E g \in OfferedGovernors([driver |-> driver]) : sys = Booted(machine, driver, g)
  /\ usb = [d \in Devices |-> "on"]
  /\ authorized = TRUE
  /\ governors = OfferedGovernors(sys)
  /\ tuning = [eco |-> 40, usb |-> TRUE, ultra |-> FALSE]

Next ==
  \/ \E ultra \in BOOLEAN : SetLowProfile(ultra)
  \/ SetNormalProfile
  \/ SetPerfProfile
  \/ \E mode \in {"active", "passive"} : SetCpuDriverOpmode(mode)
  \/ \E on \in BOOLEAN : SetWebcamPower(on)
  \/ Tune
  \/ Restart

Spec == Init /\ [][Next]_vars

-----------------------------------------------------------------------------
(***************************************************************************)
(* What a profile leaves behind depends on the profile and on the tuning,  *)
(* not on the profiles, driver modes and restarts before it: applied now   *)
(* it gives what it would give on this machine freshly booted.  Two things *)
(* break that: an Intel GPU whose boost frequency cannot be read, and for  *)
(* the lower bound of intel_pstate a lower upper bound that is still in    *)
(* force.                                                                  *)
(***************************************************************************)
HistoryFree ==
  \A p \in Profiles, ultra \in BOOLEAN :
    LET now == Applied(sys, p, ultra)
        fresh == Applied(Booted(machine, sys.driver, sys.governor), p, ultra)
        same(field) == now[field] = fresh[field]
    IN /\ \A field \in {"platform", "aspm", "sata", "runtime_pm", "wifi", "bluetooth", "sound",
                        "cage", "laptop_mode", "boost", "epb", "gpu_level", "min_freq", "max_freq",
                        "max_pct"} : same(field)
       /\ same("governor") /\ same("epp")
       /\ machine.gpu_boost => same("gpu_max")
       /\ same("min_pct") \/ sys.max_pct < fresh.min_pct

(***************************************************************************)
(* A profile gets the governor it prefers among those that the driver      *)
(* offers in the mode it is in, whatever mode it was in when the daemon    *)
(* started: the list the daemon chooses from is never that of another one. *)
(***************************************************************************)
GovernorFits ==
  \A p \in Profiles :
    LET best == FirstPreferred(p, OfferedGovernors(sys))
    IN best = {} \/ Applied(sys, p, FALSE).governor \in best

(***************************************************************************)
(* README.md:41, USB autosuspend comes "with automatic exclusion of HID    *)
(* devices (mice, keyboards) and audio interfaces": no sequence of         *)
(* profiles leaves such a device that is in use suspending itself, but for *)
(* a webcam with a microphone, which shows no interface while powered off. *)
(***************************************************************************)
HumanDevicesAwake == \A d \in Devices : ShowsHuman(d) /\ usb[d] = "auto" => d \in Webcam

(***************************************************************************)
(* README.md:38, the extreme booster is "locking highest CPU clocks": with *)
(* it the performance profile leaves the lower bound of the Intel driver   *)
(* at 100 percent.                                                         *)
(***************************************************************************)
ClocksLocked ==
  [][tuning.ultra /\ SetPerfProfile /\ machine.vendor = "intel" /\ machine.pstate =>
       sys'.min_pct = 100]_vars
=============================================================================
