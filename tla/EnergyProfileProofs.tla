-------------------------- MODULE EnergyProfileProofs --------------------------
(***************************************************************************)
(* For every machine, every set of USB devices and every order of          *)
(* profiles, driver modes and restarts: a mouse or a keyboard in use is    *)
(* never left suspending itself, a profile leaves what it would leave      *)
(* after a boot, and gets the best governor on offer.                      *)
(***************************************************************************)
EXTENDS EnergyProfile, TLAPS

(***************************************************************************)
(* What may not suspend itself is awake whether or not the webcam is       *)
(* powered: the property speaks of devices that show themselves, and which *)
(* do so changes with the power of the webcam.                             *)
(***************************************************************************)
IInv == DOMAIN usb = Devices /\ \A d \in Human \ Webcam : usb[d] # "auto"

LEMMA AutosuspendKeeps ==
  ASSUME IInv, NEW enable, SetUsbAutosuspend(enable)
  PROVE  IInv'
<1>1. DOMAIN usb' = Devices
  BY DEF SetUsbAutosuspend
<1>2. ASSUME NEW d \in Human \ Webcam
      PROVE  usb'[d] # "auto"
  <2>1. d \in Devices /\ ShowsHuman(d)
    BY ProfileAssumption DEF ShowsHuman
  <2>2. CASE enable
    BY <2>1, <2>2 DEF SetUsbAutosuspend, IInv
  <2>3. CASE ~enable
    BY <2>1, <2>3 DEF SetUsbAutosuspend
  <2> QED
    BY <2>2, <2>3
<1> QED
  BY <1>1, <1>2 DEF IInv

LEMMA ProfileKeeps ==
  ASSUME IInv, NEW p, NEW ultra, SetEnergyProfile(p, ultra)
  PROVE  IInv'
<1> DEFINE enable == Eco(p) \/ (p = "balanced" /\ tuning.usb)
<1>1. SetUsbAutosuspend(enable)
  BY DEF SetEnergyProfile
<1> HIDE DEF enable
<1> QED
  BY <1>1, AutosuspendKeeps

LEMMA StepOK == IInv /\ [Next]_vars => IInv'
<1> SUFFICES ASSUME IInv, [Next]_vars PROVE IInv'
  OBVIOUS
<1>1. CASE \E ultra \in BOOLEAN : SetLowProfile(ultra)
  BY <1>1, ProfileKeeps DEF SetLowProfile
<1>2. CASE SetNormalProfile \/ SetPerfProfile
  BY <1>2, ProfileKeeps DEF SetNormalProfile, SetPerfProfile
<1>3. CASE \/ \E mode \in {"active", "passive"} : SetCpuDriverOpmode(mode)
           \/ \E on \in BOOLEAN : SetWebcamPower(on)
           \/ Tune \/ Restart \/ UNCHANGED vars
  <2>1. usb' = usb
    BY <1>3 DEF SetCpuDriverOpmode, SetWebcamPower, Tune, Restart, vars
  <2> QED
    BY <2>1 DEF IInv
<1> QED
  BY <1>1, <1>2, <1>3 DEF Next

-----------------------------------------------------------------------------
(* What a profile leaves in the files, field by field. *)

Fields ==
  {"driver", "governor", "scheduler", "gpu_max", "gpu_level", "min_freq", "max_freq",
   "min_pct", "max_pct"} \cup Files

\* n differs from s in the given fields at most.
Only(s, n, fields) == DOMAIN n = Fields /\ \A f \in Fields \ fields : n[f] = s[f]

LEMMA WriteOnly ==
  ASSUME NEW s, DOMAIN s = Fields, NEW file \in Files, NEW value
  PROVE  /\ Only(s, Write(s, file, value), {file})
         /\ Write(s, file, value)[file] = IF file \in machine.files THEN value ELSE s[file]
BY DEF Write, Only, Fields

Refused(s, t) ==
  machine.pstate /\ s.driver = "active" /\ s.governor = "performance" /\ t.epp # "performance"

LEMMA WriteEppOnly ==
  ASSUME NEW s, DOMAIN s = Fields, NEW t
  PROVE  /\ Only(s, WriteEpp(s, t), {"epp"})
         /\ WriteEpp(s, t).epp = IF ~Refused(s, t) /\ "epp" \in machine.files THEN t.epp ELSE s.epp
<1>1. "epp" \in Files
  BY DEF Files
<1>2. WriteEpp(s, t) = IF Refused(s, t) THEN s ELSE Write(s, "epp", t.epp)
  BY DEF WriteEpp, Refused
<1> QED
  BY <1>1, <1>2, WriteOnly DEF Only

\* The range of frequencies does not depend on what was in force.
LEMMA RangeOnly ==
  ASSUME NEW s, DOMAIN s = Fields, NEW r, DOMAIN r = Fields, NEW p, NEW ultra
  PROVE  LET n == SetCpuFrequencyRange(s, p, ultra)
         IN  /\ Only(s, n, {"min_freq", "max_freq"})
             /\ n.max_freq = SetCpuFrequencyRange(r, p, ultra).max_freq
             /\ n.min_freq = SetCpuFrequencyRange(r, p, ultra).min_freq
<1> DEFINE cap == CASE ~Eco(p) -> 200
                    [] p = "ultra_low" /\ ultra -> tuning.eco
                    [] OTHER -> 2 * tuning.eco
           top == AtLeast(cap, machine.min_freq)
           floor == IF p = "performance" /\ ultra
                      THEN AtLeast(top \div 2, machine.min_freq) ELSE machine.min_freq
           n == SetCpuFrequencyRange(s, p, ultra)
           o == SetCpuFrequencyRange(r, p, ultra)
<1>1. /\ n = [s EXCEPT !.max_freq = top, !.min_freq = floor]
      /\ o = [r EXCEPT !.max_freq = top, !.min_freq = floor]
  BY DEF SetCpuFrequencyRange
<1> HIDE DEF top, floor, n, o
<1>2. /\ Only(s, n, {"min_freq", "max_freq"}) /\ n.max_freq = top /\ n.min_freq = floor
      /\ o.max_freq = top /\ o.min_freq = floor
  BY <1>1 DEF Only, Fields, Files
<1> QED
  BY <1>2 DEF n, o

\* The governor that a profile leaves, and the limits.
GovernorOf(s, p) ==
  LET chosen == FirstPreferred(p, governors)
  IN IF chosen \cap OfferedGovernors(s) = {} THEN s.governor ELSE CHOOSE g \in chosen : TRUE
Low(p, ultra) == IF p = "balanced" THEN 40 ELSE IF p = "performance" /\ ultra THEN 100 ELSE 20
High(p) == IF Eco(p) THEN 40 ELSE 100
HasPct == machine.vendor = "intel" /\ machine.pstate

\* n has what profile p leaves of s.
Leaves(s, n, p, ultra) ==
  LET t == Table(p, ultra)
  IN /\ DOMAIN n = Fields /\ n.driver = s.driver
     /\ \A f \in {"platform", "aspm", "sata", "runtime_pm", "wifi", "bluetooth", "sound",
                  "cage", "laptop_mode", "epb"} :
          n[f] = IF f \in machine.files THEN t[f] ELSE s[f]
     /\ n.boost = IF machine.vendor # "unknown" /\ "boost" \in machine.files
                    THEN t.boost ELSE s.boost
     /\ n.governor = GovernorOf(s, p)
     /\ n.scheduler \in Schedulers \cup {s.scheduler}
     /\ n.epp = IF ~Refused(n, t) /\ "epp" \in machine.files THEN t.epp ELSE s.epp
     /\ n.gpu_max = SetGpuPowerProfile(s, p).gpu_max
     /\ n.gpu_level = SetGpuPowerProfile(s, p).gpu_level
     /\ n.max_freq = SetCpuFrequencyRange(s, p, ultra).max_freq
     /\ n.min_freq = SetCpuFrequencyRange(s, p, ultra).min_freq
     /\ n.min_pct = IF HasPct THEN AtMost(Low(p, ultra), s.max_pct) ELSE s.min_pct
     /\ n.max_pct = IF HasPct THEN AtLeast(High(p), AtMost(Low(p, ultra), s.max_pct))
                    ELSE s.max_pct

LEMMA SchedulerOnly ==
  ASSUME NEW s, DOMAIN s = Fields, NEW p \in Profiles
  PROVE  LET n == SetIoScheduler(s, p)
         IN  Only(s, n, {"scheduler"}) /\ n.scheduler \in Schedulers \cup {s.scheduler}
<1> DEFINE n == SetIoScheduler(s, p)
<1>1. n = s \/ \E w \in Schedulers : n = [s EXCEPT !.scheduler = w]
  <2>1. CASE Eco(p)
    BY <2>1 DEF SetIoScheduler, Schedulers
  <2>2. CASE p = "balanced"
    BY <2>2 DEF SetIoScheduler, Schedulers, Eco
  <2>3. CASE p = "performance"
    BY <2>3 DEF SetIoScheduler, Schedulers, Eco
  <2> QED
    BY <2>1, <2>2, <2>3 DEF Profiles, Eco
<1> HIDE DEF n
<1>2. Only(s, n, {"scheduler"}) /\ n.scheduler \in Schedulers \cup {s.scheduler}
  BY <1>1 DEF Only, Fields
<1> QED
  BY <1>2 DEF n

LEMMA AppliedLeaves ==
  ASSUME NEW s, DOMAIN s = Fields, NEW p \in Profiles, NEW ultra
  PROVE  Leaves(s, Applied(s, p, ultra), p, ultra)
<1> DEFINE t == Table(p, ultra)
           g1 == SetPlatformProfile(s, t)
           g2 == SetGpuPowerProfile(g1, p)
           c1 == SetCpuGovernor(g2, p)
           c2 == WriteEpp(c1, t)
           c3 == Write(c2, "epb", t.epb)
           c4 == SetCpuFrequencyRange(c3, p, ultra)
           b1 == SetCpuBoost(c4, t)
           b2 == SetPerfPct(b1, p, ultra)
           b3 == SetPstateEpp(b2, t)
           b4 == SetCpuDynBoost(b3, t)
           d1 == SetPcieAspm(b4, t)
           d2 == SetSataLinkPowerManagement(d1, t)
           d3 == SetRuntimePm(d2, t)
           r1 == SetWifiPowerSave(d3, t)
           r2 == SetBluetoothPowerSave(r1, t)
           e1 == SetIoScheduler(r2, p)
           e2 == SetDirtyParameters(e1, t)
           e3 == SetLaptopMode(e2, t)
           n == SetSoundPowerSave(e3, t)
<1>1. Applied(s, p, ultra) = n
  BY DEF Applied, SetCpuPerfPolicy
<1> HIDE DEF t
<1>2. Files \subseteq Fields
  BY DEF Fields
<1>3. {"platform", "aspm", "sata", "runtime_pm", "wifi", "bluetooth", "cage", "laptop_mode",
       "sound", "boost", "dyn_boost", "epp", "epb"} = Files
  BY DEF Files
<1>4. /\ Only(s, g1, {"platform"})
      /\ g1.platform = IF "platform" \in machine.files THEN t.platform ELSE s.platform
  BY <1>3, WriteOnly DEF SetPlatformProfile
<1> HIDE DEF g1
<1>5. /\ Only(g1, g2, {"gpu_max", "gpu_level"})
      /\ g2.gpu_max = SetGpuPowerProfile(s, p).gpu_max
      /\ g2.gpu_level = SetGpuPowerProfile(s, p).gpu_level
  BY <1>4 DEF SetGpuPowerProfile, Only, Fields, Files
<1> HIDE DEF g2
<1>6. Only(g2, c1, {"governor"}) /\ c1.governor = GovernorOf(s, p)
  BY <1>4, <1>5 DEF SetCpuGovernor, GovernorOf, OfferedGovernors, Only, Fields, Files
<1> HIDE DEF c1
<1>7. /\ Only(c1, c2, {"epp"})
      /\ c2.epp = IF ~Refused(c1, t) /\ "epp" \in machine.files THEN t.epp ELSE c1.epp
  BY <1>6, WriteEppOnly DEF Only
<1> HIDE DEF c2
<1>8. Only(c2, c3, {"epb"}) /\ c3.epb = IF "epb" \in machine.files THEN t.epb ELSE c2.epb
  BY <1>3, <1>7, WriteOnly DEF Only
<1> HIDE DEF c3
<1>9. /\ Only(c3, c4, {"min_freq", "max_freq"})
      /\ c4.max_freq = SetCpuFrequencyRange(s, p, ultra).max_freq
      /\ c4.min_freq = SetCpuFrequencyRange(s, p, ultra).min_freq
  <2>1. DOMAIN c3 = Fields
    BY <1>8 DEF Only
  <2> QED
    BY <2>1, RangeOnly
<1> HIDE DEF c4
<1>10. /\ Only(c4, b1, {"boost"})
       /\ b1.boost = IF machine.vendor # "unknown" /\ "boost" \in machine.files
                       THEN t.boost ELSE c4.boost
  BY <1>3, <1>9, WriteOnly DEF SetCpuBoost, Only
<1> HIDE DEF b1
<1>11. /\ Only(b1, b2, {"min_pct", "max_pct"})
       /\ b2.min_pct = IF HasPct THEN AtMost(Low(p, ultra), b1.max_pct) ELSE b1.min_pct
       /\ b2.max_pct = IF HasPct THEN AtLeast(High(p), AtMost(Low(p, ultra), b1.max_pct))
                       ELSE b1.max_pct
  <2> DEFINE low == Low(p, ultra)
             high == High(p)
  <2>1. b2 = SetIntelCpuPerfPct(b1, low, high)
    BY DEF SetPerfPct, SetAmdCpuPerfPct, Low, High, Profiles, Eco
  <2> HIDE DEF low, high
  <2>2. DOMAIN b1 = Fields
    BY <1>10 DEF Only
  <2>3. /\ Only(b1, b2, {"min_pct", "max_pct"})
        /\ b2.min_pct = IF HasPct THEN AtMost(low, b1.max_pct) ELSE b1.min_pct
        /\ b2.max_pct = IF HasPct THEN AtLeast(high, AtMost(low, b1.max_pct)) ELSE b1.max_pct
    <3> HIDE DEF b2
    <3> QED
      BY <2>1, <2>2 DEF SetIntelCpuPerfPct, HasPct, Only, Fields, Files
  <2> QED
    BY <2>3 DEF low, high
<1> HIDE DEF b2
<1>12. /\ Only(b2, b3, {"epp"})
       /\ b3.epp \in {b2.epp, IF ~Refused(b2, t) /\ "epp" \in machine.files THEN t.epp ELSE b2.epp}
  <2>1. DOMAIN b2 = Fields
    BY <1>11 DEF Only
  <2> QED
    BY <2>1, WriteEppOnly DEF SetPstateEpp, Only
<1> HIDE DEF b3
<1>13. Only(b3, b4, {"dyn_boost"})
  <2>1. DOMAIN b3 = Fields
    BY <1>12 DEF Only
  <2>2. Only(b3, Write(b3, "dyn_boost", t.dyn_boost), {"dyn_boost"})
    BY <1>3, <2>1, WriteOnly
  <2> QED
    BY <2>1, <2>2 DEF SetCpuDynBoost, Only
<1> HIDE DEF b4
<1>14. Only(b4, d1, {"aspm"}) /\ d1.aspm = IF "aspm" \in machine.files THEN t.aspm ELSE b4.aspm
  BY <1>3, <1>13, WriteOnly DEF SetPcieAspm, Only
<1> HIDE DEF d1
<1>15. Only(d1, d2, {"sata"}) /\ d2.sata = IF "sata" \in machine.files THEN t.sata ELSE d1.sata
  BY <1>3, <1>14, WriteOnly DEF SetSataLinkPowerManagement, Only
<1> HIDE DEF d2
<1>16. /\ Only(d2, d3, {"runtime_pm"})
       /\ d3.runtime_pm = IF "runtime_pm" \in machine.files THEN t.runtime_pm ELSE d2.runtime_pm
  BY <1>3, <1>15, WriteOnly DEF SetRuntimePm, Only
<1> HIDE DEF d3
<1>17. Only(d3, r1, {"wifi"}) /\ r1.wifi = IF "wifi" \in machine.files THEN t.wifi ELSE d3.wifi
  BY <1>3, <1>16, WriteOnly DEF SetWifiPowerSave, Only
<1> HIDE DEF r1
<1>18. /\ Only(r1, r2, {"bluetooth"})
       /\ r2.bluetooth = IF "bluetooth" \in machine.files THEN t.bluetooth ELSE r1.bluetooth
  BY <1>3, <1>17, WriteOnly DEF SetBluetoothPowerSave, Only
<1> HIDE DEF r2
<1>19. Only(r2, e1, {"scheduler"}) /\ e1.scheduler \in Schedulers \cup {r2.scheduler}
  BY <1>18, SchedulerOnly DEF Only
<1> HIDE DEF e1
<1>20. Only(e1, e2, {"cage"}) /\ e2.cage = IF "cage" \in machine.files THEN t.cage ELSE e1.cage
  BY <1>3, <1>19, WriteOnly DEF SetDirtyParameters, Only
<1> HIDE DEF e2
<1>21. /\ Only(e2, e3, {"laptop_mode"})
       /\ e3.laptop_mode = IF "laptop_mode" \in machine.files THEN t.laptop_mode ELSE e2.laptop_mode
  BY <1>3, <1>20, WriteOnly DEF SetLaptopMode, Only
<1> HIDE DEF e3
<1>22. Only(e3, n, {"sound"}) /\ n.sound = IF "sound" \in machine.files THEN t.sound ELSE e3.sound
  BY <1>3, <1>21, WriteOnly DEF SetSoundPowerSave, Only
<1> HIDE DEF n
\* The fields that the calls before, or those that follow, leave alone.
<1>23. /\ DOMAIN n = Fields /\ n.driver = s.driver
       /\ n.platform = g1.platform /\ n.gpu_max = g2.gpu_max /\ n.gpu_level = g2.gpu_level
       /\ n.governor = c1.governor
       /\ n.scheduler = e1.scheduler /\ r2.scheduler = s.scheduler
       /\ n.epb = c3.epb /\ c2.epb = s.epb
       /\ n.min_freq = c4.min_freq /\ n.max_freq = c4.max_freq
       /\ n.boost = b1.boost /\ c4.boost = s.boost
       /\ n.min_pct = b2.min_pct /\ b1.min_pct = s.min_pct
       /\ n.max_pct = b2.max_pct /\ b1.max_pct = s.max_pct
  BY <1>4, <1>5, <1>6, <1>7, <1>8, <1>9, <1>10, <1>11, <1>12, <1>13, <1>14, <1>15, <1>16, <1>17,
     <1>18, <1>19, <1>20, <1>21, <1>22 DEF Only, Fields, Files
<1>24. /\ n.aspm = d1.aspm /\ b4.aspm = s.aspm /\ n.sata = d2.sata /\ d1.sata = s.sata
       /\ n.runtime_pm = d3.runtime_pm /\ d2.runtime_pm = s.runtime_pm
       /\ n.wifi = r1.wifi /\ d3.wifi = s.wifi
       /\ n.bluetooth = r2.bluetooth /\ r1.bluetooth = s.bluetooth
       /\ n.cage = e2.cage /\ e1.cage = s.cage
       /\ n.laptop_mode = e3.laptop_mode /\ e2.laptop_mode = s.laptop_mode
       /\ e3.sound = s.sound
  BY <1>4, <1>5, <1>6, <1>7, <1>8, <1>9, <1>10, <1>11, <1>12, <1>13, <1>14, <1>15, <1>16, <1>17,
     <1>18, <1>19, <1>20, <1>21, <1>22 DEF Only, Fields, Files
\* The preference is written twice, under the same governor of the same driver.
<1>25. n.epp = IF ~Refused(n, t) /\ "epp" \in machine.files THEN t.epp ELSE s.epp
  <2>1. /\ n.epp = b3.epp /\ b2.epp = c2.epp /\ c1.epp = s.epp
        /\ b2.governor = n.governor /\ b2.driver = n.driver
        /\ c1.governor = n.governor /\ c1.driver = n.driver
    BY <1>4, <1>5, <1>6, <1>7, <1>8, <1>9, <1>10, <1>11, <1>12, <1>13, <1>14, <1>15, <1>16, <1>17,
       <1>18, <1>19, <1>20, <1>21, <1>22 DEF Only, Fields, Files
  <2>2. (Refused(c1, t) <=> Refused(n, t)) /\ (Refused(b2, t) <=> Refused(n, t))
    BY <2>1 DEF Refused
  <2> QED
    BY <1>7, <1>12, <2>1, <2>2
<1>26. \A f \in {"platform", "aspm", "sata", "runtime_pm", "wifi", "bluetooth", "sound",
                 "cage", "laptop_mode", "epb"} :
         n[f] = IF f \in machine.files THEN t[f] ELSE s[f]
  BY <1>4, <1>8, <1>14, <1>15, <1>16, <1>17, <1>18, <1>20, <1>21, <1>22, <1>23, <1>24
<1> QED
  BY <1>1, <1>5, <1>6, <1>9, <1>10, <1>11, <1>19, <1>23, <1>25, <1>26 DEF Leaves, t

-----------------------------------------------------------------------------
(* What no profile and no mode of the driver can change. *)

(***************************************************************************)
(* What a machine lacks is as it was when it booted, the limits that a     *)
(* profile computes the new ones from are within their ranges, and the     *)
(* daemon's list of governors is that of the mode the driver is in.        *)
(***************************************************************************)
AsBooted ==
  /\ machine \in Machines
  /\ DOMAIN sys = Fields
  /\ \A f \in Files \ (machine.files \cup {"dyn_boost"}) : sys[f] = Booted(machine, "-", "-")[f]
  /\ machine.vendor = "unknown" => sys.boost = "1"
  /\ machine.gpu \notin {"amd", "apu"} => sys.gpu_level = "auto"
  /\ sys.gpu_max \in 0..GpuTop
  /\ machine.gpu # "intel" => sys.gpu_max = GpuTop
  /\ sys.max_pct \in 0..100
  /\ ~HasPct => sys.min_pct = 0 /\ sys.max_pct = 100
  /\ governors = OfferedGovernors(sys)

LEMMA BootedAsBooted ==
  ASSUME NEW driver, NEW governor
  PROVE  LET s == Booted(machine, driver, governor)
         IN  /\ DOMAIN s = Fields
             /\ \A f \in Files : s[f] = Booted(machine, "-", "-")[f]
             /\ s.boost = "1" /\ s.gpu_level = "auto" /\ s.gpu_max = GpuTop
             /\ s.min_pct = 0 /\ s.max_pct = 100
             /\ s.driver = driver /\ s.governor = governor
BY DEF Booted, Fields, Files

LEMMA GpuKeeps ==
  ASSUME NEW s, DOMAIN s = Fields, s.gpu_max \in 0..GpuTop, NEW p
  PROVE  LET n == SetGpuPowerProfile(s, p)
         IN  /\ n.gpu_max \in 0..GpuTop
             /\ machine.gpu # "intel" => n.gpu_max = s.gpu_max
             /\ machine.gpu \notin {"amd", "apu"} => n.gpu_level = s.gpu_level
BY DEF SetGpuPowerProfile, AtLeast, GpuTop, Fields, Files

LEMMA ProfileAsBooted ==
  ASSUME AsBooted, NEW p \in Profiles, NEW ultra, SetEnergyProfile(p, ultra)
  PROVE  AsBooted'
<1> DEFINE n == Applied(sys, p, ultra)
<1>1. sys' = n /\ machine' = machine /\ governors' = governors
  BY DEF SetEnergyProfile
<1>2. Leaves(sys, n, p, ultra)
  BY AppliedLeaves DEF AsBooted
<1> HIDE DEF n
<1>3. \A f \in Files \ (machine.files \cup {"dyn_boost"}) : n[f] = sys[f]
  BY <1>2 DEF Leaves, Files
<1>4. /\ n.gpu_max \in 0..GpuTop
      /\ machine.gpu # "intel" => n.gpu_max = sys.gpu_max
      /\ machine.gpu \notin {"amd", "apu"} => n.gpu_level = sys.gpu_level
  BY <1>2, GpuKeeps DEF Leaves, AsBooted
<1>5. n.max_pct \in 0..100
  BY <1>2 DEF Leaves, AsBooted, AtLeast, AtMost, Low, High
<1>6. governors' = OfferedGovernors(sys)'
  BY <1>1, <1>2 DEF Leaves, AsBooted, OfferedGovernors
<1> QED
  BY <1>1, <1>2, <1>3, <1>4, <1>5, <1>6 DEF Leaves, AsBooted, HasPct

LEMMA AsBootedStep == AsBooted /\ [Next]_vars => AsBooted'
<1> SUFFICES ASSUME AsBooted, [Next]_vars PROVE AsBooted'
  OBVIOUS
<1>1. CASE \E ultra \in BOOLEAN : SetLowProfile(ultra)
  BY <1>1, ProfileAsBooted DEF SetLowProfile, Profiles
<1>2. CASE SetNormalProfile
  BY <1>2, ProfileAsBooted DEF SetNormalProfile, Profiles
<1>3. CASE SetPerfProfile
  BY <1>3, ProfileAsBooted DEF SetPerfProfile, Profiles
<1>4. CASE \E mode \in {"active", "passive"} : SetCpuDriverOpmode(mode)
  <2>1. PICK mode \in {"active", "passive"} : SetCpuDriverOpmode(mode)
    BY <1>4
  <2>2. machine' = machine /\ governors' = OfferedGovernors(sys)'
    BY <2>1 DEF SetCpuDriverOpmode, OfferedGovernors
  <2>3. CASE sys' = sys
    BY <2>2, <2>3 DEF AsBooted, HasPct, OfferedGovernors
  <2>4. CASE sys' # sys
    <3>1. /\ machine.pstate
          /\ \E g : sys' = [sys EXCEPT !.driver = mode, !.governor = g,
                                       !.min_freq = machine.min_freq, !.max_freq = 200,
                                       !.min_pct = 0, !.max_pct = 100]
      BY <2>1, <2>4 DEF SetCpuDriverOpmode, SwitchDriver
    <3>2. /\ DOMAIN sys' = Fields /\ sys'.min_pct = 0 /\ sys'.max_pct = 100
          /\ \A f \in Files : sys'[f] = sys[f]
          /\ sys'.gpu_max = sys.gpu_max /\ sys'.gpu_level = sys.gpu_level
      BY <3>1 DEF AsBooted, Fields, Files
    <3> QED
      BY <2>2, <3>2 DEF AsBooted, HasPct, Files
  <2> QED
    BY <2>3, <2>4
<1>5. CASE (\E on \in BOOLEAN : SetWebcamPower(on)) \/ Tune \/ Restart \/ UNCHANGED vars
  <2>1. /\ machine' = machine /\ sys' = sys
        /\ governors' \in {governors, OfferedGovernors(sys)}
    BY <1>5 DEF SetWebcamPower, Tune, Restart, vars
  <2> QED
    BY <2>1 DEF AsBooted, HasPct, OfferedGovernors
<1> QED
  BY <1>1, <1>2, <1>3, <1>4, <1>5 DEF Next

LEMMA AsBootedAlways == Spec => []AsBooted
<1>1. Init => AsBooted
  <2> SUFFICES ASSUME Init PROVE AsBooted
    OBVIOUS
  <2>1. machine \in Machines /\ \E driver, g : sys = Booted(machine, driver, g)
    BY DEF Init
  <2>2. governors = OfferedGovernors(sys)
    BY DEF Init
  <2> QED
    BY <2>1, <2>2, BootedAsBooted DEF AsBooted, Files, GpuTop
<1> QED
  BY <1>1, AsBootedStep, PTL DEF Spec

-----------------------------------------------------------------------------
(* The governors. *)

LEMMA FirstOfBoth ==
  ASSUME NEW p \in Profiles, NEW offered, {"performance", "powersave"} \subseteq offered,
         p # "balanced" \/ offered = {"performance", "powersave"}
  PROVE  FirstPreferred(p, offered) = {IF p = "performance" THEN "performance" ELSE "powersave"}
<1>1. CASE Eco(p)
  <2>1. Preferred(p) = <<"powersave", "ondemand">> /\ p # "performance"
    BY <1>1 DEF Preferred, Eco
  <2> QED
    BY <2>1 DEF FirstPreferred
<1>2. CASE p = "performance"
  <2>1. Preferred(p) = <<"performance", "schedutil">>
    BY <1>2 DEF Preferred, Eco
  <2> QED
    BY <1>2, <2>1 DEF FirstPreferred
<1>3. CASE p = "balanced"
  <2>1. Preferred(p) = <<"ondemand", "schedutil", "powersave">>
    BY <1>3 DEF Preferred, Eco
  <2>2. offered = {"performance", "powersave"}
    BY <1>3
  <2> QED
    BY <1>3, <2>1, <2>2 DEF FirstPreferred
<1> QED
  BY <1>1, <1>2, <1>3 DEF Profiles, Eco

LEMMA BestIsOffered ==
  ASSUME NEW p, NEW offered
  PROVE  FirstPreferred(p, offered) \subseteq offered
BY DEF FirstPreferred

\* While the daemon knows the governors of the mode, the driver refuses no preference.
LEMMA NeverRefused ==
  ASSUME NEW s, DOMAIN s = Fields, NEW p \in Profiles, NEW ultra \in BOOLEAN,
         governors = OfferedGovernors(s)
  PROVE  ~Refused(Applied(s, p, ultra), Table(p, ultra))
<1> DEFINE n == Applied(s, p, ultra)
           t == Table(p, ultra)
<1>1. n.governor = GovernorOf(s, p) /\ n.driver = s.driver
  BY AppliedLeaves DEF Leaves
<1> HIDE DEF n
<1>2. SUFFICES ASSUME machine.pstate, s.driver = "active", n.governor = "performance"
               PROVE  t.epp = "performance"
  BY <1>1 DEF Refused, n
<1>3. governors = {"performance", "powersave"}
  BY <1>2 DEF OfferedGovernors
<1>4. n.governor = IF p = "performance" THEN "performance" ELSE "powersave"
  BY <1>1, <1>3, FirstOfBoth DEF GovernorOf
<1>5. p = "performance"
  BY <1>2, <1>4
<1> QED
  BY <1>5 DEF Table, Eco

\* No sequence of commands leaves a device of humans in use suspending itself, except a
\* webcam that was powered off at the time.
THEOREM HumanDevicesStayAwake == Spec => []HumanDevicesAwake
<1>1. Init => IInv
  BY ProfileAssumption DEF Init, IInv
<1>2. IInv => HumanDevicesAwake
  BY DEF IInv, HumanDevicesAwake, ShowsHuman
<1> QED
  BY <1>1, <1>2, StepOK, PTL DEF Spec

\* Whatever profiles, modes and restarts came before, a profile leaves what it would leave
\* after a boot, but for the two exceptions.
THEOREM ProfilesForget == Spec => []HistoryFree
<1>1. AsBooted => HistoryFree
  <2> SUFFICES ASSUME AsBooted, NEW p \in Profiles, NEW ultra \in BOOLEAN
               PROVE  LET now == Applied(sys, p, ultra)
                          fresh == Applied(Booted(machine, sys.driver, sys.governor), p, ultra)
                          same(field) == now[field] = fresh[field]
                      IN /\ \A field \in {"platform", "aspm", "sata", "runtime_pm", "wifi",
                                          "bluetooth", "sound", "cage", "laptop_mode", "boost",
                                          "epb", "gpu_level", "min_freq", "max_freq", "max_pct"} :
                              same(field)
                         /\ same("governor") /\ same("epp")
                         /\ machine.gpu_boost => same("gpu_max")
                         /\ same("min_pct") \/ sys.max_pct < fresh.min_pct
    BY DEF HistoryFree
  <2> DEFINE boot == Booted(machine, sys.driver, sys.governor)
             now == Applied(sys, p, ultra)
             fresh == Applied(boot, p, ultra)
             t == Table(p, ultra)
  <2>1. /\ DOMAIN boot = Fields
        /\ \A f \in Files : boot[f] = Booted(machine, "-", "-")[f]
        /\ boot.boost = "1" /\ boot.gpu_level = "auto" /\ boot.gpu_max = GpuTop
        /\ boot.min_pct = 0 /\ boot.max_pct = 100
        /\ boot.driver = sys.driver /\ boot.governor = sys.governor
    BY BootedAsBooted
  <2> HIDE DEF boot
  <2>2. /\ Leaves(sys, now, p, ultra) /\ ~Refused(now, t)
        /\ Leaves(boot, fresh, p, ultra)
        /\ governors = OfferedGovernors(boot) => ~Refused(fresh, t)
    BY <2>1, AppliedLeaves, NeverRefused DEF AsBooted
  <2> HIDE DEF now, fresh, t
  <2>3. /\ governors = OfferedGovernors(boot) /\ DOMAIN sys = Fields
        /\ OfferedGovernors(boot) = OfferedGovernors(sys)
    BY <2>1 DEF OfferedGovernors, AsBooted
  <2>4. \A f \in {"platform", "aspm", "sata", "runtime_pm", "wifi", "bluetooth", "sound", "cage",
                 "laptop_mode", "epb"} : now[f] = fresh[f]
    <3>1. \A f \in Files \ (machine.files \cup {"dyn_boost"}) : sys[f] = boot[f]
      BY <2>1 DEF AsBooted
    <3> QED
      BY <2>1, <2>2, <2>3, <3>1 DEF Leaves, Files
  <2>5. now.boost = fresh.boost
    <3>1. "boost" \notin machine.files => sys.boost = boot.boost
      BY <2>1 DEF AsBooted, Files
    <3> QED
      BY <2>1, <2>2, <2>3, <3>1 DEF Leaves, AsBooted
  <2>6. now.governor = fresh.governor
    <3>1. GovernorOf(boot, p) = GovernorOf(sys, p)
      BY <2>1, <2>3 DEF GovernorOf
    <3> QED
      BY <2>1, <2>2, <2>3, <3>1 DEF Leaves
  <2>7. now.epp = fresh.epp
    <3>1. "epp" \notin machine.files => sys.epp = boot.epp
      BY <2>1 DEF AsBooted, Files
    <3> QED
      BY <2>1, <2>2, <2>3, <3>1 DEF Leaves, t
  <2>8. now.gpu_level = fresh.gpu_level /\ (machine.gpu_boost => now.gpu_max = fresh.gpu_max)
    <3>1. /\ SetGpuPowerProfile(sys, p).gpu_level = SetGpuPowerProfile(boot, p).gpu_level
          /\ machine.gpu_boost =>
               SetGpuPowerProfile(sys, p).gpu_max = SetGpuPowerProfile(boot, p).gpu_max
      BY <2>1, <2>3 DEF SetGpuPowerProfile, AsBooted, AtLeast, GpuTop, Fields, Files
    <3> QED
      BY <2>1, <2>2, <2>3, <3>1 DEF Leaves
  <2>9. now.max_freq = fresh.max_freq /\ now.min_freq = fresh.min_freq
    <3>1. /\ SetCpuFrequencyRange(sys, p, ultra).max_freq
               = SetCpuFrequencyRange(boot, p, ultra).max_freq
          /\ SetCpuFrequencyRange(sys, p, ultra).min_freq
               = SetCpuFrequencyRange(boot, p, ultra).min_freq
      BY <2>1, <2>3, RangeOnly
    <3> QED
      BY <2>1, <2>2, <2>3, <3>1 DEF Leaves
  <2>10. now.max_pct = fresh.max_pct /\ (now.min_pct = fresh.min_pct \/ sys.max_pct < fresh.min_pct)
    <3>1. Low(p, ultra) \in 0..100 /\ High(p) \in 0..100 /\ Low(p, ultra) <= High(p)
      BY DEF Low, High, Eco, Profiles
    <3>2. /\ now.min_pct = IF HasPct THEN AtMost(Low(p, ultra), sys.max_pct) ELSE sys.min_pct
          /\ now.max_pct = IF HasPct THEN AtLeast(High(p), AtMost(Low(p, ultra), sys.max_pct))
                           ELSE sys.max_pct
          /\ fresh.min_pct = IF HasPct THEN AtMost(Low(p, ultra), 100) ELSE 0
          /\ fresh.max_pct = IF HasPct THEN AtLeast(High(p), AtMost(Low(p, ultra), 100)) ELSE 100
      BY <2>1, <2>2, <2>3 DEF Leaves
    <3> QED
      BY <3>1, <3>2 DEF AsBooted, AtLeast, AtMost
  <2>11. \A field \in {"platform", "aspm", "sata", "runtime_pm", "wifi", "bluetooth", "sound",
                      "cage", "laptop_mode", "boost", "epb", "gpu_level", "min_freq", "max_freq",
                      "max_pct"} : now[field] = fresh[field]
    BY <2>4, <2>5, <2>8, <2>9, <2>10
  <2> QED
    BY <2>6, <2>7, <2>8, <2>10, <2>11 DEF now, fresh, boot
<1> QED
  BY <1>1, AsBootedAlways, PTL

\* A profile gets the best governor of the mode the driver is in, however many changes of
\* mode and restarts of the daemon came before.
THEOREM GovernorsFit == Spec => []GovernorFits
<1>1. AsBooted => GovernorFits
  <2> SUFFICES ASSUME AsBooted, NEW p \in Profiles,
                      FirstPreferred(p, OfferedGovernors(sys)) # {}
               PROVE  Applied(sys, p, FALSE).governor
                        \in FirstPreferred(p, OfferedGovernors(sys))
    BY DEF GovernorFits
  <2> DEFINE best == FirstPreferred(p, OfferedGovernors(sys))
  <2>1. Applied(sys, p, FALSE).governor = GovernorOf(sys, p)
    <3> DEFINE ultra == FALSE
    <3> HIDE DEF ultra
    <3>1. Applied(sys, p, ultra).governor = GovernorOf(sys, p)
      BY AppliedLeaves DEF Leaves, AsBooted
    <3> QED
      BY <3>1 DEF ultra
  <2>2. best \subseteq OfferedGovernors(sys)
    BY BestIsOffered
  <2>3. FirstPreferred(p, governors) = best
    BY DEF AsBooted
  <2> HIDE DEF best
  <2>4. GovernorOf(sys, p) \in best
    BY <2>2, <2>3 DEF GovernorOf, best
  <2> QED
    BY <2>1, <2>4 DEF best
<1> QED
  BY <1>1, AsBootedAlways, PTL

-----------------------------------------------------------------------------
(* The types, the order of each pair of bounds among them. *)

LEMMA OfferedTypes ==
  ASSUME machine \in Machines, NEW s
  PROVE  OfferedGovernors(s) \subseteq Governors
BY ProfileAssumption DEF OfferedGovernors, Governors

\* Half of the range stays within it, and so does the frequency that a machine starts at.
LEMMA RangeTypes ==
  ASSUME machine \in Machines, tuning.eco \in EcoCaps \cup {40},
         NEW s, DOMAIN s = Fields, NEW p, NEW ultra
  PROVE  LET n == SetCpuFrequencyRange(s, p, ultra)
         IN  n.min_freq \in 0..200 /\ n.max_freq \in 0..200 /\ n.min_freq <= n.max_freq
<1> DEFINE cap == CASE ~Eco(p) -> 200
                    [] p = "ultra_low" /\ ultra -> tuning.eco
                    [] OTHER -> 2 * tuning.eco
           top == AtLeast(cap, machine.min_freq)
           floor == IF p = "performance" /\ ultra
                      THEN AtLeast(top \div 2, machine.min_freq) ELSE machine.min_freq
           n == SetCpuFrequencyRange(s, p, ultra)
<1>1. n = [s EXCEPT !.max_freq = top, !.min_freq = floor]
  BY DEF SetCpuFrequencyRange
<1>2. tuning.eco \in 20..80 /\ machine.min_freq \in 1..200
  <2>1. EcoCaps \subseteq 20..80 /\ machine.min_freq \in 1..200
    BY ProfileAssumption
  <2> HIDE DEF cap, top, floor, n
  <2>2. CASE tuning.eco \in EcoCaps
    BY <2>1, <2>2
  <2>3. CASE tuning.eco = 40
    BY <2>1, <2>3
  <2> QED
    BY <2>2, <2>3
<1>3. cap \in 20..200
  BY <1>2
<1> HIDE DEF cap, n
<1>4. top \in 0..200 /\ machine.min_freq <= top
  BY <1>2, <1>3 DEF AtLeast
<1> HIDE DEF top
<1>5. floor \in 0..200 /\ floor <= top
  BY <1>2, <1>4 DEF AtLeast
<1> HIDE DEF floor
<1>6. n.max_freq = top /\ n.min_freq = floor
  BY <1>1 DEF Fields
<1> QED
  BY <1>4, <1>5, <1>6 DEF n

LEMMA ProfileTypes ==
  ASSUME AsBooted, TypeOK, NEW p \in Profiles, NEW ultra, SetEnergyProfile(p, ultra)
  PROVE  TypeOK'
<1> DEFINE n == Applied(sys, p, ultra)
           enable == Eco(p) \/ (p = "balanced" /\ tuning.usb)
<1>1. /\ sys' = n /\ SetUsbAutosuspend(enable)
      /\ UNCHANGED <<machine, authorized, governors, tuning>>
  BY DEF SetEnergyProfile
<1>2. Leaves(sys, n, p, ultra)
  BY AppliedLeaves DEF AsBooted
<1> HIDE DEF n, enable
<1>3. usb' \in [Devices -> {"on", "auto"}]
  BY <1>1 DEF SetUsbAutosuspend, TypeOK
<1>4. n.driver \in {"active", "passive"} /\ n.scheduler \in Schedulers \cup {"-"}
  BY <1>2 DEF Leaves, TypeOK
<1>5. n.governor \in Governors \cup {"-"}
  <2>1. FirstPreferred(p, governors) \subseteq Governors
    BY BestIsOffered DEF TypeOK
  <2>2. GovernorOf(sys, p) \in FirstPreferred(p, governors) \cup {sys.governor}
    BY DEF GovernorOf
  <2> QED
    BY <1>2, <2>1, <2>2 DEF Leaves, TypeOK
<1>6. n.gpu_max \in 0..GpuTop
  BY <1>2, GpuKeeps DEF Leaves, AsBooted
<1>7. n.min_freq \in 0..200 /\ n.max_freq \in 0..200 /\ n.min_freq <= n.max_freq
  BY <1>2, RangeTypes DEF Leaves, AsBooted, TypeOK
<1>8. n.min_pct \in 0..100 /\ n.max_pct \in 0..100 /\ n.min_pct <= n.max_pct
  <2>1. Low(p, ultra) \in 0..100 /\ High(p) \in 0..100
    BY DEF Low, High
  <2>2. /\ n.min_pct = IF HasPct THEN AtMost(Low(p, ultra), sys.max_pct) ELSE sys.min_pct
        /\ n.max_pct = IF HasPct THEN AtLeast(High(p), AtMost(Low(p, ultra), sys.max_pct))
                       ELSE sys.max_pct
    BY <1>2 DEF Leaves
  <2>3. sys.min_pct \in 0..100 /\ sys.max_pct \in 0..100 /\ sys.min_pct <= sys.max_pct
    BY DEF TypeOK
  <2> QED
    BY <2>1, <2>2, <2>3 DEF AtLeast, AtMost
<1> QED
  BY <1>1, <1>3, <1>4, <1>5, <1>6, <1>7, <1>8 DEF TypeOK

LEMMA ModeTypes ==
  ASSUME AsBooted, TypeOK, NEW mode \in {"active", "passive"}, SetCpuDriverOpmode(mode)
  PROVE  TypeOK'
<1>1. UNCHANGED <<machine, usb, authorized, tuning>> /\ governors' \subseteq Governors
  BY OfferedTypes DEF SetCpuDriverOpmode, AsBooted
<1>2. CASE UNCHANGED sys
  BY <1>1, <1>2 DEF TypeOK
<1>3. CASE \E g \in OfferedGovernors([sys EXCEPT !.driver = mode]) :
             sys' = [sys EXCEPT !.driver = mode, !.governor = g,
                                !.min_freq = machine.min_freq, !.max_freq = 200,
                                !.min_pct = 0, !.max_pct = 100]
  <2>1. PICK g \in OfferedGovernors([sys EXCEPT !.driver = mode]) :
               sys' = [sys EXCEPT !.driver = mode, !.governor = g,
                                  !.min_freq = machine.min_freq, !.max_freq = 200,
                                  !.min_pct = 0, !.max_pct = 100]
    BY <1>3
  <2>2. g \in Governors
    BY OfferedTypes DEF AsBooted
  <2>3. machine.min_freq \in 1..200
    BY ProfileAssumption DEF AsBooted
  <2>4. /\ sys'.driver = mode /\ sys'.governor = g /\ sys'.scheduler = sys.scheduler
        /\ sys'.gpu_max = sys.gpu_max
        /\ sys'.min_freq = machine.min_freq /\ sys'.max_freq = 200
        /\ sys'.min_pct = 0 /\ sys'.max_pct = 100
    BY <2>1 DEF AsBooted, Fields
  <2> QED
    BY <1>1, <2>2, <2>3, <2>4 DEF TypeOK
<1> QED
  BY <1>2, <1>3 DEF SetCpuDriverOpmode, SwitchDriver

\* Whatever was done to the machine, every setting in force is one its file takes: the
\* lower bound of the frequencies and of the Intel driver never passes the upper one, and
\* an Intel GPU is never asked for more than it has.
THEOREM ProfileTypesOK == Spec => []TypeOK
<1>1. Init => TypeOK
  <2> SUFFICES ASSUME Init PROVE TypeOK
    OBVIOUS
  <2>1. PICK driver \in {"active", "passive"} :
          \E g \in OfferedGovernors([driver |-> driver]) : sys = Booted(machine, driver, g)
    BY DEF Init
  <2>2. PICK g \in OfferedGovernors([driver |-> driver]) : sys = Booted(machine, driver, g)
    BY <2>1
  <2>3. machine \in Machines /\ g \in Governors /\ OfferedGovernors(sys) \subseteq Governors
    BY OfferedTypes DEF Init
  <2>4. machine.min_freq \in 1..200
    BY <2>3, ProfileAssumption
  <2>5. /\ sys.driver = driver /\ sys.governor = g /\ sys.scheduler = "-"
        /\ sys.gpu_max = GpuTop /\ sys.min_freq = machine.min_freq /\ sys.max_freq = 200
        /\ sys.min_pct = 0 /\ sys.max_pct = 100
    BY <2>2 DEF Booted
  <2> QED
    BY <2>3, <2>4, <2>5 DEF Init, TypeOK, GpuTop
<1>2. AsBooted /\ TypeOK /\ [Next]_vars => TypeOK'
  <2> SUFFICES ASSUME AsBooted, TypeOK, [Next]_vars PROVE TypeOK'
    OBVIOUS
  <2>1. CASE \E ultra \in BOOLEAN : SetLowProfile(ultra)
    BY <2>1, ProfileTypes DEF SetLowProfile, Profiles
  <2>2. CASE SetNormalProfile \/ SetPerfProfile
    BY <2>2, ProfileTypes DEF SetNormalProfile, SetPerfProfile, Profiles
  <2>3. CASE \E mode \in {"active", "passive"} : SetCpuDriverOpmode(mode)
    BY <2>3, ModeTypes
  <2>4. CASE \E on \in BOOLEAN : SetWebcamPower(on)
    BY <2>4 DEF SetWebcamPower, TypeOK
  <2>5. CASE Tune
    BY <2>5 DEF Tune, TypeOK
  <2>6. CASE Restart
    BY <2>6, OfferedTypes DEF Restart, TypeOK
  <2>7. CASE UNCHANGED vars
    BY <2>7 DEF vars, TypeOK
  <2> QED
    BY <2>1, <2>2, <2>3, <2>4, <2>5, <2>6, <2>7 DEF Next
<1> QED
  BY <1>1, <1>2, AsBootedAlways, PTL DEF Spec
=============================================================================
