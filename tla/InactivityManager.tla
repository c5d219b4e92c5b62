--------------------------- MODULE InactivityManager ---------------------------
(***************************************************************************)
(* The power policy of the desktop client (src/src/inactivity_manager.cpp):*)
(* polling the battery, the low and the critical warning, the choice of a  *)
(* power profile, the lid, and putting the machine to sleep and waking it. *)
(*                                                                         *)
(* The client is one Qt thread, so a handler runs to its end before the    *)
(* next one starts.  While it runs it calls the daemon and logind any      *)
(* number of times, blocking at each call: `calls' holds those that the    *)
(* current handler has yet to make, and no other handler starts before it  *)
(* is empty.  The machine may go to sleep, and wake, at any of them; what  *)
(* logind says about that waits in `signals' for the event loop.           *)
(*                                                                         *)
(* A handler is a function of the members of the object (m) in the order   *)
(* of its statements; brightness, notifications and the battery log do not *)
(* feed back into this state and are left out.                             *)
(***************************************************************************)
EXTENDS Integers, Sequences, FiniteSets

CONSTANTS
  Configs,   \* the configurations a user can save
  Percents,  \* the charge levels a poll can read
  Radios,    \* what /sys/class/rfkill can say: 1 on, 0 off, -1 no such radio
  Picks,     \* the profiles that the user picks by hand
  Wishes,    \* what the user, a button or the idle timeout asks for
  Others,    \* whether other programs put the machine to sleep too
  HasLid     \* whether /proc/acpi/button/lid tells a state

Profiles == 0..3          \* low, balanced, performance, ultra low
Ways == {"suspend", "suspend_then_hibernate", "hibernate", "hybrid"}
SignalBound == 1          \* signals that may wait when a sleep begins

ASSUME ConfigAssumption ==
  /\ Percents \subseteq 0..100
  /\ Picks \subseteq Profiles
  /\ Wishes \subseteq Ways \cup {"shutdown"}
  /\ Others \in BOOLEAN
  /\ HasLid \in BOOLEAN
  /\ Radios \subseteq [wifi : {-1, 0, 1}, bluetooth : {-1, 0, 1}]
  /\ \A c \in Configs :
       /\ {c.bat_power_profile, c.ac_power_profile, c.ac_full_power_profile} \subseteq 0..2
       /\ c.warn_level \in 10..50
       /\ c.critical_level \in 3..20
       /\ c.critical_action \in 0..2
       /\ c.disable_eth \in 0..2
       /\ {c.ac_lid_action, c.bat_lid_action} \subseteq 0..5
       /\ {c.lowbat_freeze_services, c.critical_freeze_processes,
           c.minimal_state_before_suspend, c.intercept_external_sleep_requests,
           c.ac_lid_enable_powernap, c.ac_lid_powernap_mode_disable_bt,
           c.ac_lid_powernap_mode_disable_wifi} \subseteq BOOLEAN

VARIABLES
  gui,      \* the members of the InactivityManager, with the configuration in force, and
            \* bypassed: history, a calibration has told the daemon a profile past
            \* setProfile, which has sent none since
  machine,  \* "awake", "going" to sleep (logind has said yes) or "asleep"
  signals,  \* PrepareForSleep signals of logind that wait for the event loop
  asked     \* history: what the commands handed out so far amount to

vars == <<gui, machine, signals, asked>>
system == <<machine, signals>>

TypeOK ==
  /\ machine \in {"awake", "going", "asleep"}
  /\ signals \in Seq(BOOLEAN) /\ Len(signals) <= SignalBound + 2
  /\ asked \in [procs : BOOLEAN, services : BOOLEAN, cores_off : BOOLEAN]
  /\ DOMAIN gui = {"config", "phase", "calls", "chargingState", "warnSimple", "warnCrit",
                   "criticalLevelReached", "powerProfile", "lastHwProfile", "lastOpmode",
                   "wifiInitialState", "bluetoothInitialState", "bluetoothTimer",
                   "calibrationActive", "actionInProgress", "minimalMode", "batteryTimer",
                   "lidOpen", "powernapEnabled", "inPowernap", "bypassed"}
  /\ gui.config \in Configs
  /\ gui.phase \in {"new", "running", "exited", "killed"}
  /\ gui.chargingState \in -1..2
  /\ gui.criticalLevelReached \in Percents \cup {0}
  /\ gui.powerProfile \in -1..2
  /\ gui.lastHwProfile \in -1..3
  /\ gui.lastOpmode \in -1..1
  /\ {gui.wifiInitialState, gui.bluetoothInitialState} \subseteq {-1, 0, 1}
  /\ {gui.warnSimple, gui.warnCrit, gui.bluetoothTimer, gui.calibrationActive,
      gui.actionInProgress, gui.minimalMode, gui.batteryTimer,
      gui.lidOpen, gui.powernapEnabled, gui.inPowernap, gui.bypassed} \subseteq BOOLEAN

-----------------------------------------------------------------------------
(***************************************************************************)
(* callDaemon, and the commands that are called from several places.       *)
(***************************************************************************)
Call(m, name, arg) == [m EXCEPT !.calls = Append(@, <<name, arg>>)]
CallIf(b, m, name, arg) == IF b THEN Call(m, name, arg) ELSE m

SetBluetooth(m, state) == Call(m, "set_rfkill_bluetooth", state = 1)
SetWifi(m, state) == Call(m, "set_rfkill_wifi", state = 1)

SyncDaemonAdvancedSettings(m) ==
  LET capped == Call(m, "set_eco_freq_cap", m.config.eco_freq_cap)
      usb == Call(capped, "set_balanced_usb_autosuspend", m.config.balanced_usb_autosuspend)
      ultra == Call(usb, "set_ultra_perf_mode", m.config.ultra_performance_mode)
  IN CallIf(m.config.charge_limit_enabled, ultra, "set_charge_limit", m.config.charge_limit_value)

ProfileCommand(p) ==
  CASE p = 0 -> <<"set_low_profile", FALSE>>
    [] p = 1 -> <<"set_normal_profile", "-">>
    [] p = 2 -> <<"set_perf_profile", "-">>
    [] p = 3 -> <<"set_low_profile", TRUE>>

\* A slip for the mutation runs: a profile that shows alike is not sent.
SetProfileByPopup(m, p) ==
  LET shown == IF p = 3 THEN 0 ELSE p
  IN [m EXCEPT !.lastHwProfile = p,
               !.powerProfile = shown,
               !.bypassed = @ /\ shown = m.powerProfile,
               !.calls = IF shown = m.powerProfile THEN @ ELSE Append(@, ProfileCommand(p))]

\* setProfile: ultra low shows as low in the popup, and a profile that is
\* already in force, as far as this object knows, is not sent again.
SetProfile(m, p) ==
  IF p = m.lastHwProfile THEN m
  ELSE [m EXCEPT !.lastHwProfile = p,
                 !.powerProfile = IF p = 3 THEN 0 ELSE p,
                 !.bypassed = FALSE,
                 !.calls = Append(@, ProfileCommand(p))]

OnMains(m) == m.chargingState \in {1, 2}

\* adjustProfile: a change of the driver's mode voids lastHwProfile first.
AdjustProfile(m) ==
  LET opmode == IF OnMains(m) THEN 1 ELSE 0
      told == Call(m, "set_cpu_driver_opmode", OnMains(m))
      eth == CallIf(m.config.disable_eth = 2, told, "toggle_ethernet", OnMains(m))
      fresh == [eth EXCEPT !.lastOpmode = opmode,
                           !.lastHwProfile = IF opmode # m.lastOpmode THEN -1 ELSE @]
  IN CASE m.warnCrit -> SetProfile(fresh, 3)
       [] ~m.warnCrit /\ m.warnSimple ->
            IF m.powerProfile = 2 THEN SetProfile(fresh, 1) ELSE fresh
       [] OTHER ->
            CASE m.chargingState = 0 -> SetProfile(fresh, m.config.bat_power_profile)
              [] m.chargingState = 1 -> SetProfile(fresh, m.config.ac_power_profile)
              [] m.chargingState = 2 -> SetProfile(fresh, m.config.ac_full_power_profile)
              [] OTHER -> fresh

-----------------------------------------------------------------------------
(***************************************************************************)
(* Going to sleep.  `radios' is what /sys/class/rfkill says at this moment.*)
(***************************************************************************)
\* A slip for the mutation runs: that the cores are off is not noted.
EnterMinimalModeUnnoted(m) ==
  LET quiet == Call(SetBluetooth(SetWifi(m, 0), 0), "set_webcam_power", FALSE)
  IN Call(SetProfile(quiet, 3), "disable_cpu_cores", "-")

\* The quietest state of the hardware, for as long as the machine sleeps.
EnterMinimalMode(m) ==
  LET quiet == Call(SetBluetooth(SetWifi(m, 0), 0), "set_webcam_power", FALSE)
  IN [Call(SetProfile(quiet, 3), "disable_cpu_cores", "-") EXCEPT !.minimalMode = TRUE]

ExitMinimalMode(m) ==
  IF m.minimalMode
    THEN [Call(Call(m, "reenable_cpu_cores", "-"), "set_webcam_power", TRUE)
            EXCEPT !.minimalMode = FALSE]
    ELSE m

\* prepareSuspendGeneral stops the battery timer; only a wake-up restarts it.
PrepareSuspendGeneral(m, hibernate, radios) ==
  LET still == [m EXCEPT
        !.batteryTimer = FALSE,
        !.wifiInitialState = IF @ = -1 THEN radios.wifi ELSE @,
        !.bluetoothInitialState = IF @ = -1 THEN radios.bluetooth ELSE @]
  IN CASE hibernate -> SetProfile(Call(still, "reenable_cpu_cores", "-"), 2)
       [] ~hibernate /\ m.config.minimal_state_before_suspend -> EnterMinimalMode(still)
       [] OTHER -> still

\* suspendSystem, suspendThenHibernate, hibernateSystem and hybridSuspendSystem.
Sleep(m, way, radios) ==
  IF m.actionInProgress THEN m
  ELSE Call(PrepareSuspendGeneral([m EXCEPT !.actionInProgress = TRUE], way = "hibernate", radios),
            "logind", way)

RunCriticalAction(m, radios) ==
  CASE m.config.critical_action = 0 -> Sleep(m, "hibernate", radios)
    [] m.config.critical_action = 1 -> Sleep(m, "hybrid", radios)
    [] m.config.critical_action = 2 -> Call(m, "shutdown", "-")

-----------------------------------------------------------------------------
(***************************************************************************)
(* The lid.                                                                *)
(***************************************************************************)
EnterPowernap(m, radios) ==
  LET bt == IF m.config.ac_lid_powernap_mode_disable_bt
              THEN SetBluetooth([m EXCEPT !.bluetoothInitialState =
                                   IF @ = -1 THEN radios.bluetooth ELSE @], 0)
              ELSE m
      wifi == IF m.config.ac_lid_powernap_mode_disable_wifi
                THEN SetWifi([bt EXCEPT !.wifiInitialState = IF @ = -1 THEN radios.wifi ELSE @], 0)
                ELSE bt
  IN [SetProfile(wifi, 0) EXCEPT !.inPowernap = TRUE, !.batteryTimer = TRUE]

RestoreRadios(m) ==
  LET wifi == IF m.wifiInitialState # -1 THEN SetWifi(m, m.wifiInitialState) ELSE m
  IN IF m.bluetoothInitialState # -1 THEN SetBluetooth(wifi, m.bluetoothInitialState) ELSE wifi

\* onLidClosed(true): powernap, or what the configuration says for battery or mains.
LidClosed(m, radios) ==
  LET still == [m EXCEPT !.batteryTimer = FALSE]
      action == IF OnMains(m) THEN m.config.ac_lid_action ELSE m.config.bat_lid_action
  IN CASE m.calibrationActive \/ m.actionInProgress -> m
       [] ~m.calibrationActive /\ ~m.actionInProgress /\ OnMains(m)
            /\ m.config.ac_lid_enable_powernap /\ m.powernapEnabled /\ ~m.inPowernap ->
            EnterPowernap(still, radios)
       [] OTHER ->
            CASE action = 0 -> Sleep(still, "suspend", radios)
              [] action = 1 -> Sleep(still, "suspend_then_hibernate", radios)
              [] action = 2 -> Sleep(still, "hibernate", radios)
              [] action = 3 -> Sleep(still, "hybrid", radios)
              [] OTHER -> [still EXCEPT !.batteryTimer = TRUE]

\* A slip for the mutation runs: the timer is started again, and powernap goes on.
LidOpenedNapping(m) ==
  IF m.calibrationActive \/ m.actionInProgress THEN m ELSE [m EXCEPT !.batteryTimer = TRUE]

\* onLidClosed(false), that is onResume.
LidOpened(m) ==
  CASE m.calibrationActive \/ m.actionInProgress -> m
    [] ~m.calibrationActive /\ ~m.actionInProgress /\ m.inPowernap ->
         [RestoreRadios(AdjustProfile([m EXCEPT !.inPowernap = FALSE])) EXCEPT !.batteryTimer = TRUE]
    [] OTHER -> [m EXCEPT !.batteryTimer = TRUE]

-----------------------------------------------------------------------------
(***************************************************************************)
(* checkBatteryStatus, in the order of its sections.                       *)
(***************************************************************************)
\* Two slips for the mutation runs: losing the charger leaves a powernap alone, ...
TransitionNapping(m, state, radios) ==
  LET read == [m EXCEPT !.chargingState = state]
  IN IF m.chargingState # -1 /\ state # m.chargingState /\ 0 \in {state, m.chargingState}
       THEN AdjustProfile(read)
       ELSE read

\* ... and the charger takes the warnings back at once.
TransitionClearing(m, state, radios) ==
  LET read == [m EXCEPT !.chargingState = state]
      calm == IF state # 0 THEN [read EXCEPT !.warnSimple = FALSE, !.warnCrit = FALSE] ELSE read
  IN IF m.chargingState # -1 /\ state # m.chargingState /\ 0 \in {state, m.chargingState}
       THEN AdjustProfile(calm)
       ELSE read

\* Charger connected or disconnected; between charging and full nothing is
\* adjusted.  Losing the charger ends a powernap by acting on the closed lid.
Transition(m, state, radios) ==
  LET read == [m EXCEPT !.chargingState = state]
      adjusted == AdjustProfile(read)
  IN CASE m.chargingState = -1 \/ state = m.chargingState \/ 0 \notin {state, m.chargingState} -> read
       [] m.chargingState \in {1, 2} /\ state = 0 /\ m.inPowernap ->
            LidClosed(RestoreRadios([adjusted EXCEPT !.inPowernap = FALSE]), radios)
       [] OTHER -> adjusted

XLevel(reached) ==
  CASE reached >= 8 -> 3
    [] reached \in 5..7 -> 2
    [] reached \in 3..4 -> 1
    [] OTHER -> 0

CriticalActionDue(m, percent) ==
  m.warnCrit /\ (percent <= m.criticalLevelReached - XLevel(m.criticalLevelReached) \/ percent <= 2)

FreezeProcesses(m) ==
  Call(Call(Call(m, "set_procs_whitelist", m.config.p_whitelist),
            "set_procs_blacklist", m.config.p_blacklist),
       "freeze_processes", TRUE)

FreezeServices(m) ==
  Call(Call(Call(m, "set_whitelist", m.config.whitelist), "set_blacklist", m.config.blacklist),
       "freeze_services_dbus", "-")

EnterCritical(m, percent) ==
  LET warned == [m EXCEPT !.warnCrit = TRUE, !.criticalLevelReached = percent]
      dark == SetBluetooth(Call(warned, "set_webcam_power", FALSE), 0)
  IN AdjustProfile(IF m.config.critical_freeze_processes THEN FreezeProcesses(dark) ELSE dark)

EnterLow(m) ==
  LET warned == [m EXCEPT !.warnSimple = TRUE]
  IN AdjustProfile(IF m.config.lowbat_freeze_services THEN FreezeServices(warned) ELSE warned)

\* The warnings, while discharging and not calibrating; critical goes before low.
Warn(m, percent, radios) ==
  CASE m.chargingState # 0 \/ m.calibrationActive -> m
    [] m.chargingState = 0 /\ ~m.calibrationActive /\ percent <= m.config.critical_level ->
         CASE ~m.warnCrit -> EnterCritical(m, percent)
           [] CriticalActionDue(m, percent) ->
                RunCriticalAction([m EXCEPT !.warnCrit = FALSE], radios)
           [] OTHER -> m
    [] m.chargingState = 0 /\ ~m.calibrationActive /\ percent > m.config.critical_level
         /\ percent <= m.config.warn_level /\ ~m.warnSimple -> EnterLow(m)
    [] OTHER -> m

LeaveCritical(m) ==
  LET seen == Call([m EXCEPT !.warnCrit = FALSE], "set_webcam_power", TRUE)
      woken == CallIf(m.config.critical_freeze_processes, seen, "freeze_processes", FALSE)
  IN SetBluetooth(woken, IF m.bluetoothInitialState # -1 THEN m.bluetoothInitialState ELSE 1)

LeaveLow(m) ==
  CallIf(m.config.lowbat_freeze_services, [m EXCEPT !.warnSimple = FALSE],
         "unfreeze_all_frozen_services", "-")

\* The end of the warnings.
Reset(m, percent) ==
  LET calm == IF m.warnCrit /\ (percent > m.config.critical_level \/ m.chargingState # 0)
                THEN LeaveCritical(m) ELSE m
  IN IF calm.warnSimple /\ (percent > m.config.warn_level + 1 \/ m.chargingState # 0)
       THEN LeaveLow(calm) ELSE calm

CheckBatteryStatus(m, reading) ==
  LET warned == Warn(Transition(m, reading.state, reading.radios), reading.percent, reading.radios)
      reset == Reset(warned, reading.percent)
  IN IF reset.powerProfile = -1 THEN AdjustProfile(reset) ELSE reset

\* ... and when /sys/class/power_supply shows no battery.
CheckWithoutBattery(m) ==
  [m EXCEPT !.chargingState = 2, !.warnSimple = FALSE, !.warnCrit = FALSE]

\* What a calibration tells the daemon itself, and lastHwProfile does not note.
CalibrationTells(m, p) == [m EXCEPT !.bypassed = TRUE, !.calls = Append(@, ProfileCommand(p))]

\* A calibration hears of a poll at its end and may, as its phase has it, want ultra
\* low (charging, or discharged at last), performance (to discharge) or nothing.
Wanted(m, percent) ==
  {-1} \cup {p \in {2, 3} : /\ m.calibrationActive
                            /\ p = 2 => m.chargingState = 0
                            /\ p = 3 => m.chargingState # 0 \/ percent <= 3}

Heard(m, p) == IF p = -1 THEN m ELSE CalibrationTells(m, p)

-----------------------------------------------------------------------------
(***************************************************************************)
(* The handlers.                                                           *)
(***************************************************************************)
\* What asked becomes when a handler hands out its calls: the latest one decides.
Latest(calls, on, off, old) ==
  LET relevant == {i \in DOMAIN calls : calls[i] \in {on, off}}
  IN IF relevant = {} THEN old
     ELSE \E i \in relevant : calls[i] = on /\ \A j \in relevant : j <= i

Asked(calls) ==
  [procs |-> Latest(calls, <<"freeze_processes", TRUE>>, <<"freeze_processes", FALSE>>, asked.procs),
   services |-> Latest(calls, <<"freeze_services_dbus", "-">>,
                       <<"unfreeze_all_frozen_services", "-">>, asked.services),
   cores_off |-> Latest(calls, <<"disable_cpu_cores", "-">>, <<"reenable_cpu_cores", "-">>,
                        asked.cores_off)]

Idle == gui.calls = <<>> /\ machine # "asleep"

Becomes(m) == gui' = m /\ asked' = Asked(m.calls)

Readings == [state : 0..2, percent : Percents, radios : Radios]

\* The members after the constructor, with configuration c loaded.
New(c) == [config |-> c, phase |-> "new", calls |-> <<>>,
        chargingState |-> -1, warnSimple |-> FALSE, warnCrit |-> FALSE,
        criticalLevelReached |-> 0, powerProfile |-> -1, lastHwProfile |-> -1, lastOpmode |-> -1,
        wifiInitialState |-> -1, bluetoothInitialState |-> -1, bluetoothTimer |-> FALSE,
        calibrationActive |-> FALSE, actionInProgress |-> FALSE, minimalMode |-> FALSE,
        batteryTimer |-> FALSE, lidOpen |-> TRUE, powernapEnabled |-> FALSE, inPowernap |-> FALSE,
        bypassed |-> FALSE]

\* The constructor and start(): the advanced settings are sent last.
Start(reading) ==
  /\ gui.phase = "new"
  /\ Idle
  /\ LET polled == CheckBatteryStatus(gui, reading)
         eth == CallIf(gui.config.disable_eth = 1, polled, "toggle_ethernet", FALSE)
     IN Becomes([SyncDaemonAdvancedSettings(eth) EXCEPT !.phase = "running", !.batteryTimer = TRUE])
  /\ UNCHANGED system

\* The battery timer (refreshBatteryIcon).
TimerPoll(reading) ==
  /\ gui.phase = "running"
  /\ gui.batteryTimer
  /\ Idle
  /\ LET polled == CheckBatteryStatus(gui, reading)
     IN \E p \in Wanted(polled, reading.percent) : Becomes(Heard(polled, p))
  /\ UNCHANGED system

\* A udev event or its 250 ms echo.
OtherPoll(reading) ==
  /\ gui.phase = "running"
  /\ Idle
  /\ LET polled == CheckBatteryStatus(gui, reading)
     IN \E p \in Wanted(polled, reading.percent) : Becomes(Heard(polled, p))
  /\ UNCHANGED system

\* checkIdle: a poll while the user is there or the screen is dimmed, and,
\* once the idle timeout is over, sleep (way).
CheckIdle(reading, way) ==
  /\ gui.phase = "running"
  /\ ~gui.actionInProgress /\ ~gui.calibrationActive
  /\ Idle
  /\ Becomes(Sleep(CheckBatteryStatus(gui, reading), way, reading.radios))
  /\ UNCHANGED system

\* The battery is taken out (any of the polls).
PollWithoutBattery ==
  /\ gui.phase = "running"
  /\ Idle
  /\ \E p \in Wanted(CheckWithoutBattery(gui), 0) : Becomes(Heard(CheckWithoutBattery(gui), p))
  /\ UNCHANGED system

\* The slider of the popup, or DCOP.
UserProfile(p) ==
  /\ gui.phase = "running"
  /\ Idle
  /\ Becomes(SetProfile(gui, p))
  /\ UNCHANGED system

\* The configuration dialog saves (updateTimeouts): the daemon gets the advanced
\* settings, then checkIdle polls unless the last poll is too recent.
Configure(c, reading, due) ==
  /\ gui.phase = "running"
  /\ Idle
  /\ LET sent == SyncDaemonAdvancedSettings([gui EXCEPT !.config = c])
     IN Becomes(IF due /\ ~gui.actionInProgress /\ ~gui.calibrationActive
                  THEN CheckBatteryStatus(sent, reading) ELSE sent)
  /\ UNCHANGED system

\* A menu entry, DCOP, a button, or the idle timeout when no poll is due.
UserSleep(way, radios) ==
  /\ gui.phase = "running"
  /\ Idle
  /\ Becomes(IF way = "shutdown" THEN Call(gui, "shutdown", "-") ELSE Sleep(gui, way, radios))
  /\ UNCHANGED system

\* checkLidState finds that the lid moved; its timer rests during a calibration.
LidMoves(radios) ==
  /\ HasLid
  /\ gui.phase = "running"
  /\ ~gui.calibrationActive
  /\ Idle
  /\ LET moved == [gui EXCEPT !.lidOpen = ~@]
     IN Becomes(IF gui.lidOpen THEN LidClosed(moved, radios) ELSE LidOpened(moved))
  /\ UNCHANGED system

\* The user selects powernap, or takes that back.
SelectPowernap ==
  /\ gui.phase = "running"
  /\ Idle
  /\ gui.powernapEnabled \/ gui.config.ac_lid_enable_powernap
  /\ gui' = [gui EXCEPT !.powernapEnabled = ~@]
  /\ UNCHANGED <<system, asked>>

-----------------------------------------------------------------------------
(***************************************************************************)
(* Sleep, as logind sees it and as the client is told.                     *)
(***************************************************************************)
\* logind starts putting the machine to sleep and tells whoever listens.
BeginSleep ==
  /\ machine = "awake"
  /\ Len(signals) <= SignalBound
  /\ machine' = "going"
  /\ signals' = IF gui.phase = "running" THEN Append(signals, TRUE) ELSE signals

\* It does so because the client asked, ...
LogindAccepts ==
  /\ gui.calls # <<>> /\ Head(gui.calls)[1] = "logind"
  /\ BeginSleep
  /\ gui' = [gui EXCEPT !.calls = Tail(@)]
  /\ UNCHANGED asked

\* ... or because somebody else did.
OthersSleep == Others /\ BeginSleep /\ UNCHANGED <<gui, asked>>

\* Or it refuses the client, or there is no system bus to ask on.
LogindRefuses ==
  /\ machine # "asleep"
  /\ gui.calls # <<>> /\ Head(gui.calls)[1] = "logind"
  /\ \E bus \in BOOLEAN :
       gui' = [gui EXCEPT !.calls = Tail(@), !.actionInProgress = @ /\ ~bus]
  /\ UNCHANGED <<system, asked>>

FallAsleep ==
  /\ machine = "going"
  /\ machine' = "asleep"
  /\ UNCHANGED <<gui, signals, asked>>

\* The machine wakes, or the kernel would not sleep after all.
Resume ==
  /\ machine \in {"going", "asleep"}
  /\ machine' = "awake"
  /\ signals' = IF gui.phase = "running" THEN Append(signals, FALSE) ELSE signals
  /\ UNCHANGED <<gui, asked>>

\* onPrepareForSleep(true).
PrepareForSleep(radios) ==
  /\ gui.phase = "running"
  /\ Idle
  /\ signals # <<>> /\ Head(signals)
  /\ Becomes(IF ~gui.actionInProgress /\ gui.config.intercept_external_sleep_requests
               THEN PrepareSuspendGeneral(gui, FALSE, radios) ELSE gui)
  /\ signals' = Tail(signals)
  /\ UNCHANGED machine

\* A slip for the mutation runs: the battery timer is not started again.
AfterWakeActionsUnpolled ==
  /\ gui.phase = "running"
  /\ Idle
  /\ signals # <<>> /\ ~Head(signals)
  /\ LET up == [gui EXCEPT !.actionInProgress = FALSE]
         whole == IF gui.config.minimal_state_before_suspend THEN ExitMinimalMode(up) ELSE up
     IN Becomes(AdjustProfile(whole))
  /\ signals' = Tail(signals)
  /\ UNCHANGED machine

\* onPrepareForSleep(false), that is afterWakeActions.
AfterWakeActions ==
  /\ gui.phase = "running"
  /\ Idle
  /\ signals # <<>> /\ ~Head(signals)
  /\ LET up == [gui EXCEPT !.actionInProgress = FALSE]
         whole == IF gui.config.minimal_state_before_suspend THEN ExitMinimalMode(up) ELSE up
         adjusted == AdjustProfile(whole)
         wifi == IF gui.wifiInitialState # -1 THEN SetWifi(adjusted, gui.wifiInitialState) ELSE adjusted
     IN Becomes([wifi EXCEPT !.batteryTimer = TRUE,
                             !.bluetoothTimer = @ \/ gui.bluetoothInitialState # -1])
  /\ signals' = Tail(signals)
  /\ UNCHANGED machine

\* restoreBluetooth, two seconds later.
RestoreBluetooth ==
  /\ gui.phase = "running"
  /\ gui.bluetoothTimer
  /\ Idle
  /\ Becomes([IF gui.bluetoothInitialState # -1
                THEN SetBluetooth(gui, gui.bluetoothInitialState) ELSE gui
                EXCEPT !.bluetoothTimer = FALSE, !.bluetoothInitialState = -1])
  /\ UNCHANGED system

\* onPrepareForShutdown(true): the timers rest for a shutdown, also for one that is
\* called off; onPrepareForShutdown(false) does nothing.
PrepareForShutdown ==
  /\ gui.phase = "running"
  /\ Idle
  /\ gui' = [gui EXCEPT !.batteryTimer = @ /\ gui.actionInProgress]
  /\ UNCHANGED <<system, asked>>

\* A calibration begins (suspendIdle), ...
Calibrate ==
  /\ gui.phase = "running"
  /\ ~gui.calibrationActive
  /\ Idle
  /\ Becomes([gui EXCEPT !.calibrationActive = TRUE])
  /\ UNCHANGED system

\* ... and ends, cancelled or by what the poll before has shown: the daemon is told
\* low, and resumeIdle polls.
EndCalibration(reading) ==
  /\ gui.phase = "running"
  /\ gui.calibrationActive
  /\ Idle
  /\ LET told == [CalibrationTells(gui, 0) EXCEPT !.calibrationActive = FALSE,
                                                  !.batteryTimer = TRUE]
     IN Becomes(CheckBatteryStatus(told, reading))
  /\ UNCHANGED system

\* A slip for the mutation runs: only the services are thawed.
StopServicesOnly ==
  /\ gui.phase = "running"
  /\ Idle
  /\ Becomes([Call(gui, "unfreeze_all_frozen_services", "-") EXCEPT !.phase = "exited"])
  /\ signals' = <<>>
  /\ UNCHANGED machine

\* stop(), from the destructor.
Stop ==
  /\ gui.phase = "running"
  /\ Idle
  /\ LET eth == CallIf(gui.config.disable_eth # 0, gui, "toggle_ethernet", TRUE)
         thawed == Call(Call(Call(eth, "unfreeze_all_frozen_services", "-"),
                             "freeze_processes", FALSE), "set_webcam_power", TRUE)
         bt == IF gui.bluetoothInitialState # -1
                 THEN SetBluetooth(thawed, gui.bluetoothInitialState) ELSE thawed
         wifi == IF gui.wifiInitialState # -1 THEN SetWifi(bt, gui.wifiInitialState) ELSE bt
     IN Becomes([wifi EXCEPT !.phase = "exited", !.batteryTimer = FALSE, !.bluetoothTimer = FALSE])
  /\ signals' = <<>>
  /\ UNCHANGED machine

\* The client is killed: stop() does not run, nor the rest of the handler.
Killed ==
  /\ gui.phase = "running"
  /\ machine # "asleep"
  /\ gui' = [New(gui.config) EXCEPT !.phase = "killed"]
  /\ signals' = <<>>
  /\ UNCHANGED <<machine, asked>>

\* The user logs in again and the desktop starts the client.
Login ==
  /\ gui.phase \in {"exited", "killed"}
  /\ Idle
  /\ gui' = New(gui.config)
  /\ UNCHANGED <<system, asked>>

\* One connect and write of callDaemon; the daemon may be down, which goes unnoticed.
WriteCall ==
  /\ machine # "asleep"
  /\ gui.calls # <<>> /\ Head(gui.calls)[1] # "logind"
  /\ gui' = [gui EXCEPT !.calls = Tail(@)]
  /\ UNCHANGED <<system, asked>>

-----------------------------------------------------------------------------
Init ==
  /\ \E c \in Configs : gui = New(c)
  /\ machine = "awake"
  /\ signals = <<>>
  /\ asked = [procs |-> FALSE, services |-> FALSE, cores_off |-> FALSE]

Handlers ==
  \/ \E reading \in Readings :
       Start(reading) \/ TimerPoll(reading) \/ OtherPoll(reading) \/ EndCalibration(reading)
  \/ \E reading \in Readings, way \in Wishes \cap Ways : CheckIdle(reading, way)
  \/ PollWithoutBattery
  \/ \E p \in Picks : UserProfile(p)
  \/ \E c \in Configs, reading \in Readings, due \in BOOLEAN : Configure(c, reading, due)
  \/ \E way \in Wishes, radios \in Radios : UserSleep(way, radios)
  \/ \E radios \in Radios : LidMoves(radios) \/ PrepareForSleep(radios)
  \/ SelectPowernap
  \/ AfterWakeActions
  \/ RestoreBluetooth
  \/ PrepareForShutdown
  \/ Calibrate
  \/ Stop
  \/ Killed
  \/ Login

Logind == LogindAccepts \/ LogindRefuses \/ OthersSleep \/ FallAsleep \/ Resume

Next == Handlers \/ Logind \/ WriteCall

(***************************************************************************)
(* The timer ticks, the event loop dispatches a signal that waits, and a   *)
(* blocking call returns (that of logind times out if need be); everything *)
(* else may never happen, waking up included.                              *)
(***************************************************************************)
Fairness ==
  /\ WF_vars(\E reading \in Readings : TimerPoll(reading))
  /\ WF_vars(AfterWakeActions \/ \E radios \in Radios : PrepareForSleep(radios))
  /\ WF_vars(WriteCall \/ LogindAccepts \/ LogindRefuses)

Spec == Init /\ [][Next]_vars /\ Fairness

-----------------------------------------------------------------------------
Poll(reading) == TimerPoll(reading) \/ OtherPoll(reading)

\* Whatever makes the client poll the battery.
Polled(reading) ==
  \/ Poll(reading)
  \/ EndCalibration(reading)
  \/ \E way \in Wishes \cap Ways : CheckIdle(reading, way)
  \/ \E c \in Configs : Configure(c, reading, TRUE)

CriticalActionTaken ==
  \E reading \in Readings :
    /\ reading.state = 0 /\ reading.percent <= gui'.config.critical_level
    /\ CriticalActionDue(gui, reading.percent)
    /\ Polled(reading)

\* Processes, or services, stay frozen although no warning will end and thaw them.
ProcsLeft == asked.procs /\ ~gui.warnCrit
ServicesLeft == asked.services /\ ~gui.warnSimple

(***************************************************************************)
(* A warning that ends takes its freezing back, in whatever order polls,   *)
(* charger, sleep, calibration and logins come.  Four things break that:   *)
(* the critical action, which clears the warning before the machine goes   *)
(* down, the removal of the battery, an option that is switched off while  *)
(* its freezing is in force, and the death of the client.                  *)
(***************************************************************************)
FreezingEndsWithWarning ==
  [][/\ ProcsLeft' => \/ ProcsLeft
                      \/ CriticalActionTaken
                      \/ PollWithoutBattery
                      \/ Killed
                      \/ ~gui'.config.critical_freeze_processes
     /\ ServicesLeft' => \/ ServicesLeft
                         \/ PollWithoutBattery
                         \/ Killed
                         \/ ~gui'.config.lowbat_freeze_services]_vars

\* The client has a sleep, or the signal that ends one, still before it.
SleepPending ==
  /\ gui.phase = "running"
  /\ \/ machine # "awake"
     \/ signals # <<>>
     \/ \E i \in DOMAIN gui.calls : gui.calls[i][1] = "logind"

\* The secondary cores are off and no wake-up will bring them back: the client
\* does not know of it, or is not going to be told of a wake-up.
CoresTaken == asked.cores_off /\ ~(gui.minimalMode /\ SleepPending)

(***************************************************************************)
(* The secondary cores are off only for a sleep: they come back with it,   *)
(* unless logind refuses the sleep, minimal_state_before_suspend was       *)
(* switched off since, or the client ends on the way.                      *)
(***************************************************************************)
CoresComeBack ==
  [][CoresTaken' => \/ CoresTaken
                    \/ LogindRefuses
                    \/ Killed
                    \/ Stop
                    \/ AfterWakeActions /\ ~gui.config.minimal_state_before_suspend]_vars

\* The battery is not polled, and no wake-up will start its timer again.
PollingLost == gui.phase = "running" /\ ~gui.batteryTimer /\ ~SleepPending

(***************************************************************************)
(* The battery timer rests only for a sleep: whatever stops it (a sleep,   *)
(* the lid, a sleep of others) and in whatever order, it goes again after  *)
(* it, unless logind refuses the sleep; or for a shutdown that logind has  *)
(* announced, whether it takes place or is called off.                     *)
(***************************************************************************)
PollingComesBack ==
  [][PollingLost' => PollingLost \/ LogindRefuses \/ PrepareForShutdown]_vars

(***************************************************************************)
(* Powernap ends with the lid's opening, unless this falls into a sleep    *)
(* that is under way: checkLidState has recorded it when onLidClosed       *)
(* returns, and nothing looks at the lid again.                            *)
(***************************************************************************)
PowernapEndsWithLid ==
  [][gui'.inPowernap /\ gui'.lidOpen =>
       (gui.inPowernap /\ gui.lidOpen) \/ gui.actionInProgress]_vars

(***************************************************************************)
(* energy_management_logic.md:87, upon charger connection "Power profile   *)
(* switches to `AC` (Balanced or Performance)".                            *)
(***************************************************************************)
AcProfileOnConnect ==
  [][\A reading \in Readings :
       gui.chargingState = 0 /\ reading.state # 0 /\ Poll(reading) =>
         gui'.lastHwProfile = IF reading.state = 1 THEN gui.config.ac_power_profile
                                                   ELSE gui.config.ac_full_power_profile]_vars

(***************************************************************************)
(* energy_management_logic.md:140, "When discharging, the battery          *)
(* percentage is continually monitored": a client that runs on a machine   *)
(* that is awake has its timer going, or gets it going again.              *)
(***************************************************************************)
ContinuallyMonitored ==
  gui.phase = "running" /\ machine = "awake" ~>
    gui.batteryTimer \/ gui.phase # "running" \/ machine # "awake"

(***************************************************************************)
(* README.md:72, powernap keeps the machine awake "when closing the laptop *)
(* lid while connected to AC power": it never outlasts the AC power, nor   *)
(* does it survive a battery that is taken out while discharging.          *)
(***************************************************************************)
PowernapOnlyOnMains == gui.inPowernap => OnMains(gui)

(***************************************************************************)
(* energy_management_logic.md:173, "When the lid is opened, the system     *)
(* exits Powernap".                                                        *)
(***************************************************************************)
LidOpenEndsPowernap == gui.inPowernap => ~gui.lidOpen
=============================================================================
