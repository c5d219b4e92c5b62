# YaBatman in TLA+

YaBatman manages the power of a laptop that runs the Trinity desktop. It is two
programs: `yabatman_gui`, a single-threaded Qt client that decides, and
`yabatmand`, a root daemon that acts. This directory holds TLA+ models of the
decisions, of the daemon and of the two together, the TLC configurations that
check them on small instances, and proofs that TLAPS checks for all instances.

Contents: 1 the system, 2 the plan, 3 modules and code, 4 runs, 5 bounds,
6 fairness, 7 proofs, 8 disagreements between documents and code, 9 what is not
modelled, 10 how to run.

## 1. The system

Source paths are relative to the repository. "D" is `src/yabatmand.c`, "I" is
`src/inactivity_manager.cpp`.

| component | state it keeps | operations | what makes it correct |
|---|---|---|---|
| daemon command loop (D 3043-3449) | `keep_running`, `reboot_or_poweroff`, the listen backlog of 5 | accept, read, `handle_command`, SIGTERM/SIGINT, orderly exit, restart by systemd | it always notices that it should end; an orderly exit undoes what it did |
| process freezing (D 232-432) | flag `frozen_procs`, two lists; no record of whom it stopped | freeze, thaw, set a list | nobody stays stopped out of reach of the next thaw |
| service freezing (D 192-230, 2609-3024) | whitelist, blacklist, merged whitelist (100 slots), `frozen_services` (100 slots) | scan, `StopUnit`, `StartUnit`, set a list | what was stopped stays on the list until it runs again; a whitelist is never stale or cut |
| CPU hot-plugging (D 2277-2348) | which cores were online at the latest disable | disable, re-enable | every core taken is given back |
| energy profiles, sysfs setters (D 596-2246) | frequency cap, USB and ultra flags | low, ultra low, balanced, performance; radios, Ethernet, webcam, charge limit | out-of-range values never reach the hardware |
| battery status and warnings (I 1077-1363) | charging state, two warnings, level at which the critical one began | a poll; from a timer, udev, idle checks, saving the configuration, end of a calibration | a warning's freezing ends with it; the critical action happens once |
| power profile selection (I 1835-1903) | profile believed in force, profile shown, driver mode | automatic choice, popup slider, DCOP | the belief agrees with the daemon |
| suspend and resume (I 1365-1541, 2084-2239) | `m_actionInProgress`, minimal mode, radios before sleep, battery timer | four ways to sleep, two logind signals, delayed Bluetooth | what was put to rest for a sleep is back after it; polling goes on |
| lid and powernap (I 626-721, 2242-2290) | last lid state, powernap selected, powernap in force | lid closed, lid opened, charger lost during powernap | powernap ends with the lid or the mains |
| client-daemon protocol (I 1680-1709) | one connection per command, never an answer read | connect, write, close | no hang, order kept, loss understood |
| idle pipeline, brightness, DPMS (I 325-624, 723-1075) | idle thresholds, saved brightness, fade in progress | dim, screen off, lock, restore, adapt to the charge | what was dimmed is restored, whoever changed the brightness in between; input is noticed |
| session lock, Wi-Fi check | `m_useWifiOverlay`, retries | `checkWifiAndLock`, `lockScreen` | locked before sleep; the overlay of the check goes away |
| inhibitors, power and sleep keys | inhibitor descriptors | acquire, release, re-acquire; the keys | a delay lock is held whenever a sleep may begin; a key is heard |
| sleep transition overlay (`src/main.cpp`, `src/screensavers.cpp`) | a nested event loop and the overlay it waits for | run until the overlay is done; destroyed by a wake-up | it ends, and is on screen around a sleep only |
| MPRIS query (`src/mpris_detection.c`) | none | which player decides, and of what kind it is | a film keeps the display on |
| calibration (`src/calibration_manager.cpp`) | six phases, burner threads, an overlay | start, cancel, abort, battery events | a complete one is a full cycle; every end gives back timers, processor and brightness |
| battery logger (`src/battery_logger.cpp`) | two rings: 1000 samples, 250 events; one file | append, clean up, save, load, statistics | order, capacity, cut-offs; the figures are what happened |
| configuration (`src/config_manager.cpp`, `src/config_dialog.cpp`) | a file of keys, one copy in memory, the dialog's widgets and tests | load, save, edit, accept, reset, test | nothing is changed unasked; timeouts stay in order; the daemon follows |
| tray and popup (`src/yabatman_gui.cpp`) | visible, and the tray's idea of it | click, open the dialog, dismiss | |
| screensavers (`src/screensavers.cpp`) | which one runs | launch, dismiss, black out, watchdog | input ends it |
| system-sleep hook (`system-sleep/yabatman`) | none | before and after each kind of sleep | cores online over a hibernation |
| other dialogs, charts, icons, painting, packaging | none that policy depends on | | |

How they interact. The client calls the daemon through a Unix socket: a
connection, one line, close; it never reads the answer and does not notice a
daemon that is down. The daemon serves one connection at a time, in the order of
the backlog. logind tells the client of a sleep with two signals, which wait in
the client's event loop while a handler runs, and the client asks logind for a
sleep with a blocking call. The kernel tells it of chargers through udev. The
sleep hook writes the CPU files behind the daemon's back and sends commands of
its own. Handlers inside the client share the members of one object.

What is hard. Nothing in either program runs in parallel with itself; what
interleaves is the two of them, logind, the kernel, systemd and the user:

* a handler is a sequence of blocking calls, and the daemon may go down, or the
  machine go to sleep, between any two of them;
* the daemon's memory and the effects of what it did have different lives: it
  can be killed and restarted with processes stopped and cores unplugged;
* the client mirrors daemon state (`m_lastHwProfile`) over a lossy channel;
* warnings, sleeps, lid moves, configuration changes and calibrations arrive in
  every order and each reads what the others wrote;
* one of several steps may fail: `StartUnit`, `opendir`, a sleep that logind refuses;
* arrays are full, levels are skipped, values lie one outside their range;
* the client waits in nested event loops (overlay, dialog, `wait` for a thread), in
  which its other handlers run and destroy what it waits for;
* single shots and retries outlive the reason they were started for;
* a file is written in place, and a crash leaves the first half of it.

`PROJECT.json` lists where these bite under "hazards", with the line and with the
properties that watch over it. Those that no property watches over are in section 9.

## 2. The plan

Done, in this order:

1. `ProcFreezer`, `ServiceFreezer`, `CpuCores`: the daemon's stateful parts,
   each an abstract specification of what that part promises, on its own.
2. `Daemon`: the loop and every command over those parts, shown to implement them.
3. `InactivityManager`: warnings, profiles, sleep, lid and powernap.
4. `PowerSystem`: client and daemon composed through the backlog.
5. Proofs for 1 and for the implementation relation of 2.
6. `EnergyProfile`: the table of profiles, every setter with its fallbacks, and
   the driver modes.

7. `RecentLog`, `BatteryLog`: what a bounded history promises, the rings and their
   file, shown to implement it, and the figures computed from them.
8. `Calibration`: the phases with pending timers, threads and battery events.
9. `Screen`: the idle pipeline, brightness, locking, inhibitors, keys, the
   effect before a sleep, media detection, and how they meet around a sleep.
10. `Settings`: the file, the dialog, and what the daemon is told.
11. `InactivityManagerProofs`, `CalibrationProofs`, `SettingsProofs`, `EnergyProfileProofs`,
    and the types and the orderly exit of `Daemon`: the safety properties of section 7.
12. `PowerSystemProofs`, `ScreenProofs`, `BatteryLogProofs`: the properties of the two
    programs together, of the display, that the rings are a `RecentLog`, and that the
    figures computed from them are what happened.

To come, most important first:

13. `SleepHook`: `system-sleep/yabatman` with logind's order of hooks, composed
   with `CpuCores` and with minimal mode; cores over a failed hibernation.
14. `RadioRestore`: Wi-Fi and Bluetooth across sleeps, powernap and the user's
   own switching, given that `m_wifiInitialState` is never reset.
15. `ListWire`: lists as lines of at most 255 bytes and 64 entries.

No theorem is to come: every safety and action property of the runs has one (section 7).

## 3. Modules and code

`PROJECT.json` maps each definition to its lines. In general: a VARIABLE is a
static variable of the daemon or a member of the client's object, with its name
in the source where TLA+ allows it; an action is a command or a handler, whole;
variables marked "history" have no counterpart, they only record what properties
speak of.

**ProcFreezer.** `FreezeProcesses(freeze, opened)` is `freeze_processes`: the
flag is written first, then `/proc` may fail to open. `Targets` is what a scan
selects: blacklisted, or matched by a pattern and not whitelisted. Regular
expressions are a constant set of matching processes. `LoseProcMemory` is a
restart. The thawing scan uses the lists of its own time.

**ServiceFreezer.** `FreezeServices` scans, adds the blacklist, opens the bus
and stops units; which look idle, whether the bus opens and which calls are
accepted are choices. `Appended` is an array that drops what does not fit.
`UnfreezeServices` empties the array whichever calls succeed. `owed_services`
(history) are the units that ran until the daemon stopped them.

**CpuCores.** `noted` is `cpu_count > 1`, `cpu_online_initial` the array.
`owed_cores` (history) are unplugged cores that are still offline.

**Daemon.** The module extends the three before it, so that their actions are the parts of
its own. `Serve` takes the head of `backlog` through `HandleCommand`, whose
disjuncts are groups of the `strcmp` chain. Settings that are only written
are the record `hw`; `SetEnergyProfile` keeps of each profile the columns for
frequency, USB autosuspend and runtime power management; the others are in
`EnergyProfile`. `ShutDown` is what
follows the loop, `Crash` everything that skips it, `Start` what a restart
resets. `Environment` is the rest of the machine, the sleep hook's
writes to `cpu*/online` among it.

**InactivityManager.** `gui` is the object with its configuration. Each handler is
a function of it, in the order of the statements, which queues its daemon and
logind calls in `gui.calls`; `WriteCall`, `LogindAccepts` and `LogindRefuses`
make them one at a time, and no handler starts before the queue is empty.
`CheckBatteryStatus` goes section by section: transition, warnings, resets,
choice of profile. A calibration hears of each poll at its end and may tell the daemon a
profile past `m_lastHwProfile` (`Wanted`, `CalibrationTells`; which one, and when, is in
`Calibration`), and its end always does; `bypassed` (history) is set until `setProfile` sends one again.
`PrepareForShutdown` stops the battery timer, and what logind says when the shutdown is called
off starts nothing. `machine` and `signals` are the world's side of a sleep;
`asked` (history) sums up the freezing and core commands handed out so far.

**PowerSystem.** Instantiates both. `CallDaemon` joins the client's `WriteCall`
with the daemon's `Connect`, blocks on a full backlog and goes nowhere when
the daemon is down. `lost` (history) records that a profile command or the
daemon's state was lost.

**EnergyProfile.** `sys` holds what is written in `/sys` and `/proc`. Each setter
is a function from the settings before to those after, and `Applied` composes
them in the order of `set_energy_profile`. `machine` says which files, governors
and schedulers there are; a write to a file that exists succeeds. Three rules of
the kernel decide what becomes of a value (they are at the head of the module);
a governor that the driver lacks is turned down by `em_set_cpu_governor` itself.
`governors` is `available_governors`, which `detect_govs` reads at the start and again after
each change of the driver's mode (D 3073-3077), both steps in one action `SetCpuDriverOpmode`. `em_set_amd_cpu_perf_pct` looks for `policy*` in `/sys/devices/system/cpu`,
where there are none, and so does nothing.

**RecentLog, BatteryLog.** `RecentLog` is what a history in one file promises, with
plain sequences: the newest entries in order, forgotten from the old end, and
after a restart what the last save kept. `BatteryLog` has the rings as the code has
them (slots, `next_index`, `count`), the clean-up that moves the events to a fresh
ring (`ValidEvents`, `MovedToFront`), the file with `fopen` and `fwrite` as two steps, and the place of earlier versions;
`IsRecentLog` instantiates `RecentLog` twice, once for each ring, under the mapping
`InOrder`. An earlier version's log is any that was written in order before the clock of
the model begins (`WrittenBy`); one that was left asleep or dark (`LeftAwake`) is a mishap from
the start, since nobody logged how that ended. `Intervals`, `StateBefore`, `CalculateSleepTime` and
`Measured` are the statistics; where the code walks through the events with a few variables, the
first and the third are recursive functions on the number of events read, whose step is the loop's body. `day` (history) records what each tick of the clock really was, so that
the figures can be held against it; `mishaps` (history) what the log was not told. A sleep is logged
before it is prepared (I 1386), and handlers run until it comes and before its end is heard of, in the nested
loops of I 2134 and I 2448 and in the event loop while logind answers (`pending`): a sample they
log before the end of the sleep is "late", a tick that goes by is "slow". `OnResume` turns the screen
on without an event ("unlogged", I 688-721), and `checkIdle` logs that for a screen that was merely
dimmed ("dimmed", I 968-987).

**Calibration.** `gui` is the `CalibrationManager` together with the members of the
`InactivityManager` that it takes and gives back; as in `InactivityManager` each
handler is a function of it. `shots` counts single shots still in the event loop,
`burners` is "created" until the threads reach their loop, and `hung` a GUI that
waits for ever for threads which cleared the stop flag after it was set. `seen`, `wanted` and
`overruled` (history) are the cycle so far, the brightness the user wants and
whether somebody else chose the profile.

**Screen.** The idle pipeline is `CheckIdle`, stage by stage; fades are a level that
moves in steps; `CheckWifiAndLock` has its retries as single shots. `RunSleepTransition` is the
nested loop: while `waiting` says that the client waits in it, other handlers run, and `Continue`
is what follows it. Idle time is a small number of levels. `MprisPlaying` is `mpris_detection.c` over lists
of players. A scenario says which of the events of the environment there are. A handler
inside the nested loop does not come to the re-acquisition of the delay lock, a single shot of
15 s, while a loop that is over has still to return: the loop looks every 10 ms. `unseen` among
the mishaps (history) is input that comes and goes on a dimmed screen while nothing checks idle time,
"called off" a shutdown that somebody asked for and that does not happen: `PrepareForShutdown` has
stopped the idle timer, and nothing starts it again but the user, the charger, the lid or a sleep.

**Settings.** One setting of each kind stands for all that are copied like it.
`LoadConfigValues` and `SaveConfigValues` are the dialog's two directions through
its widgets, with their ranges; `ReduceChanged`, `SleepChanged` and `IdleChanged` are
the slots that keep the spin boxes in order. `Torn` is a file that was cut to
nothing and then written in part. Memory is one record that the dialog, a
calibration and a reset all write to, which is why a reset that is cancelled is
saved by the next calibration.

The MC modules give the constants their values. Definitions called a slip are
what the mutation tests put in the place of a definition.

## 4. Runs

The runs of the daemon, of `InactivityManager`, `PowerSystem` and `EnergyProfile` also
check for deadlock: neither program ever gets stuck, and the environment always has
a step to take. In the other four the state space ends where the bounded clock or
the bounded number of events does, or where the machine is off or the client hangs as
described below, so that deadlock is not checked there; that loops and waits end is
then a property of its own (`WaitEnds`, `TestsEnd`) or the subject of
`MCScreenEffect`.

| run | checks | shows |
|---|---|---|
| `MCServiceFreezer` | `ServiceTypeOK`, `MergedWhitelistIsCurrent`, `ForgottenOnlyByLoss` | arrays at their limit lose nothing; only a refused `StartUnit` or a lost daemon forgets a unit |
| `MCDaemonFreezing` | `ImplementsComponents`, `StrandedOnlyByLoss`, `LoopEnds`, `ExitRestores` | the loop, exits and restarts do nothing that the component specifications do not allow; only an edit of the lists, a thaw that cannot read `/proc` or a lost daemon strand a stopped process; an orderly exit thaws processes and starts units; the loop ends |
| `MCDaemonSettings` | `TypeOK`, `ExitRestores`, `LostOnlyByDoubleDisable` | values one out of range stop at the daemon; an orderly exit hands back network and webcam; only disabling twice loses cores |
| `MCFreezing` | `FreezingEndsWithWarning` | a warning takes its freezing back, but for four named exceptions |
| `MCSleep` | `PowernapOnlyOnMains`, `CoresComeBack`, `PollingComesBack`, `PowernapEndsWithLid` | powernap never outlasts the mains, and ends with the lid when no sleep is under way; cores taken for a sleep come back, but for four named exceptions, and so does the polling of the battery, but after a refused sleep or a shutdown that is called off |
| `MCPowerSystem` | `BeliefIsRight`, `ExitThaws`, `HandlersEnd` | without losses, and until a calibration has sent a profile of its own, the client's idea of the profile is right; a client that exits leaves nothing frozen; no handler hangs |
| `MCEnergyProfile` | `HistoryFree`, `GovernorFits`, `HumanDevicesAwake` | a profile leaves behind the same whatever came before, but for an Intel GPU without a boost frequency and the order of the two percentages; it gets the governor it prefers in every mode of the driver; keyboards and sound are never suspended, but for a webcam with a microphone |
| `MCBatteryLog` | `TimesReported`, `RatesMeasureActivity`, `IsRecentLog` | rings, clean-up and file are a `RecentLog`; time asleep, active and dark is what happened, and rates measure no time asleep, outside the mishaps that each property names |
| `MCScreen` | `BrightnessKept`, `OverlaysGo`, `LockedAfterWake`, `ClientAtRest`, `NotRightAfterWaking` | the backlight is what the user chose whenever nothing dims it; overlays do not stay; the sleep is locked; keys, idle time and input are not ignored for ever; outside the exceptions each property names |
| `MCCalibration` | `BurnersOnlyToDischarge`, `EndGivesBack`, `FullPower`, `CompleteCycle`, `WaitEnds` | a calibration counts only after a full cycle in order; every end of it gives back the processor, the timers and the brightness, or sets the 40 percent of a critical warning that it held back |
| `MCSettings` | `TimeoutsOrdered`, `DaemonFollows`, `NoTestOutlivesDialog`, `OkKeepsSettings`, `SettingsSurviveRestart`, `TestsEnd` | the timeouts stay in order and range; OK changes nothing unasked but for the settings in `Overwritten`; a restart brings back what was saved; tests end and die with the dialog |
| `MCScreenEffect` (violation) | `EffectEnds` | the loop that waits for the effect before a sleep may wait for ever, see section 8 |

Exceptions are written into the properties as disjuncts, each of them an action
of the model, so that a fifth would be a violation. The exceptions of
`FreezingEndsWithWarning`, for example, are all real: the critical action clears
`m_warnCrit` before the machine goes down, so that processes frozen by the
warning stay frozen after the wake-up.

## 5. Bounds

* `MCServiceFreezer`: four units, one hard-coded, arrays of two and lists of
  one. As in the code, hard-coded names and the longest list fill the array
  exactly (36 + 64 = 100), and a scan together with a blacklist can overflow it.
* `MCDaemon`: a backlog of one. A client finds it full, and a daemon that goes
  down cuts off a waiting command; with more slots only more of the same wait.
  The two passing runs split the commands by the state they touch: freezing in
  one, profiles, cores and devices in the other. Two secondary cores are the
  fewest of which one can be online and another not. One process is enough: a
  scan treats each process by itself. Eco caps 19 and 20 and
  charge limit 101 lie at and beyond the ends of the ranges; `set_webcam_power`
  and `toggle_ethernet` are only offered as "off", since "on" is what an exit does.
* `MCFreezing`: charges 2, 5, 9 and 12 with levels 5 and 10: below the last
  resort of 2 percent, critical, low, normal. Two configurations that differ in the
  freezing options, so that options are switched while freezing is in force.
* `MCSleep`: one charge level, all four ways to sleep, one profile picked by hand, and
  configurations with and without the minimal state.
* `SignalBound` = 1: a sleep begins only while at most one logind signal is waiting.
* `MCEnergyProfile`: five machines: Intel with everything and with little, AMD
  with driver modes (of which the passive one lacks `powersave`) and without, and one of
  another make; caps 20 and 80 are the ends of the range, and half of 20 percent lies
  below the lowest frequency.
* `MCPowerSystem`: one configuration, one charge level below the critical one and above the
  last resort, the three charging states: charger moves and calibrations send all four profiles
  between them. Services, cores, sleep and profiles picked by hand, which go through the same
  `setProfile`, are left to the other runs and to the theorem, which is about any `Picks`. The client
  is the daemon's only one (`Offered` is empty). With one profile to pick the run passes too, but
  takes longer than a run should.
* `MCBatteryLog`: rings of two slots, so that three entries wrap around and a
  clean-up meets a wrapped ring; two ticks, after each of which the clean-up is due for what is
  older than one; hibernation one tick into the sleep; no earlier log, or one left awake, or one left asleep; two capacities, two ways to sleep of which one counts whole
  and the other in part; at most one of the `Mishaps` (two of them at once explain
  less, not more) and one call of the client per tick, but for the beginnings of sleeps.
* `MCScreen`: five scenarios (display and brightness; sleeps with effect and lock; effects within
  effects; lid, powernap and lock; media, presentations and inhibitors). There are two events of
  the environment in the second, four in the third and three in the others: the properties need two actors besides the timer to
  be violated. Brightness has the levels around 30 that one
  step reaches; fades take two steps; idle time is counted to 3, a wait of the kernel's
  wake-up to 4; the four states of the network, and three lists of players.
* `MCCalibration`: charges 2, 3, 5, 50 and 100, which are the thresholds of the
  phases, the critical level and a value between; two brightnesses; four events of
  users, charger and sleeps beyond what the phases themselves need.
* `MCSettings`: three files (empty, ordinary, and one with every value out of order or
  range), two machines (with everything and with nothing), timeouts at both ends of the ranges,
  and three events.
* Charging states in `Readings` are 0 to 2 and radios -1, 0, 1, all that the code has.
* Larger instances were checked once, without an error, and are not among the runs because
  of their time: `MCCalibration` with five events, `MCBatteryLog` with two mishaps (one way to sleep, no earlier log),
  `MCPowerSystem` with `Picks = {2}`, `MCSettings` with four events.

## 6. Fairness

* `Daemon`: weak fairness of `LeaveLoop` alone. The loop polls with a timeout, serves one
  connection per turn and tests `keep_running` each time (D 3388-3424). No client has to connect or
  to be served, nothing has to crash or be restarted. That the loop turns supposes that each
  client writes or closes, since the read of D 3417 has no timeout (section 9).
* `InactivityManager`: weak fairness of the battery timer, of dispatching a
  waiting signal, and of finishing a blocking call (a D-Bus call ends in an
  answer or a timeout). A machine that sleeps may never wake.
* `Calibration`: weak fairness of single shots. The user, the charger, the charge, polls and threads
  owe nothing; `WaitEnds` needs no more.
* `Settings`: weak fairness of the two test timers and of an effect that plays to its end;
  nobody has to touch the dialog.
* `BatteryLog` and `Screen` state safety only.
* `PowerSystem`: the loop of the daemon, which serves, or ends once `keep_running` is cleared, a
  connect that can succeed, and logind's answer. Serving is fair here because the only client
  writes right after it has connected (I 1680-1693). A crashed daemon need not come back.

Both programs pause while the machine sleeps; their fair actions are disabled then.

## 7. Proofs

All theorems are about `Spec`, of their module or of a module it extends, and hold for all
values of the constants that satisfy the named assumptions, which TLC evaluates in the runs:

* `ProcAssumption`, `ServiceAssumption`, `DaemonAssumption`: finitely many units; hard-coded names
  and the longest list fit the array, which the sizes in the code satisfy with equality;
* `OfferedAssumption`: what the argument parsers of the daemon can return;
* `ConfigAssumption`, `SystemAssumption`: the ranges of the settings, as the dialog has them;
* `ProfileAssumption`: devices; `CalibrationAssumption`: charges and brightnesses;
* `ScreenAssumption`: each scenario's timeouts are in the order in which the dialog puts them
  (`SettingsTimeoutsOrdered` proves that it does);
* `BatteryLogAssumption`: rings have at least one slot; `OldLogsAssumption`: the earlier version
  wrote its log in the order of its clock;
* `SettingsAssumption`: a timeout, the charge limit and the frequency cap read from the file are
  numbers and a list is a list, as `readNumEntry` and `readListEntry` make them of whatever is there.

No bound of a run is assumed: events, sleeps, crashes, loops inside loops are any number.

* `DaemonProofs` begins with the three components.
  `ProcTypes`: `ProcTypeOK` is inductive, and says that who is
  stopped exists. `ProcStrandedOnlyByLoss` needs the stronger `ProcIInv`, which adds
  that nobody is stopped while the patterns have not compiled: otherwise a thaw
  would clear the flag, wake nobody and strand someone.
  The inductive invariant `ServiceIInv` is `ServiceTypeOK` together with
  `MergedWhitelistIsCurrent`, which a scan relies on. `ServiceTypes` rests on a lemma about `Appended`: it
  never exceeds the capacity and never drops an old entry. `ServiceWhitelistCurrent`
  uses the capacity assumption: nothing of a merged list is cut.
  `ServiceForgottenOnlyByLoss` rests on the lemma that units stopped while the
  array was empty all fit into it. `CoresTypes` says that owed cores are offline;
  `CoresLostOnlyByDoubleDisable` follows from it: a first disable notes exactly
  what it takes, and a restart falls back on all cores.
  `DaemonImplementsComponents`: each step of the daemon is a step
  or a stutter of each of the three component specifications. It needs one
  invariant, `QueueOK`: what waits in the backlog was offered, so its arguments
  have the types that the components' own next-state relations quantify over.
  `DaemonStrandsOnlyByLoss`, `DaemonForgetsOnlyByLoss` and `DaemonCoresKept` carry the theorems
  on processes, units and cores over to the daemon, across its exits, crashes and restarts.
  `DaemonTypes` is `TypeOK` with that invariant, with `LoopOK` (the queue is within its length) and
  `HardwareOK` (no device is on that the machine lacks); the types of the components are carried
  over from their own theorems along the implementation.
  `DaemonExitRestores` needs the process freezer's `ProcIInv`: a thaw at the exit reaches
  everybody because nobody is stopped while the patterns have not compiled.
* `PowerSystemProofs`. What a command changes is settled by the last command about it that is still on
  its way, in the calls of the client's handler or in the backlog, or else by what the daemon did last
  (`Settled`). The invariant reads the belief of the client and the freezing of the daemon through
  that: `Believed` (the profile believed in is the one in force once all is served) and `FreezingServed`. Moving a
  call from the handler to the backlog, and serving the head of the backlog, leave both as they are; a
  daemon that goes down is a loss for the one, and thaws or forgets for the other. What
  remains is the client, function by function: each keeps belief and calls in step (`Sound`), and an
  exit adds a thaw behind any freezing call that is still in the queue.
* `ScreenProofs`. The invariant has nine parts: types, what the lock is due to (`Locking`), where a fade goes and
  comes from (`Fading`), what a sleep under way owes (`Sleeping`), when idle time is watched (`Watching`), what of
  it is remembered for the next input (`Noticing`, `Remembering`), what the backlight is against what it was
  wanted to be (`Lighting`), and that signals come in pairs. They speak of the client
  between handlers; inside one they are stated of a record of members, with what they need of the rest as
  parameters: whether a sleep is under way, how low the charge may be taken to be, and how long the idle
  time was. There is one lemma for each of the handlers and helpers of `Screen`, nested ones
  included, and one step for each action. Two things came out of it. A re-acquisition of the delay lock
  between the end of a loop and its return would break `ClientAtRest`; the time constants of the code
  rule it out, and the model says so now. And input that ends on a dimmed screen while a
  presentation has stopped the checks is not noticed (section 8), which the property excepts now.
* `BatteryLogProofs`, the rings. The heart is `PutAppends`: writing at `next_index` is an append that drops the
  oldest entry of a full ring, whatever its size (`Remainder`: what `%` does below twice the size), and `ValidIsSuffix`:
  what a clean-up drops is a prefix. That one needs the entries to be in the order of the clock,
  which is the invariant `Written`, for the rings, for both files and for what is half written. `StepKinds` sorts the
  actions by what they do to a log, and each kind is a step of both instances of `RecentLog`.
* `BatteryLogProofs`, the figures. They are computed from what the ring still holds, so the invariant must say
  what a log that has lost its oldest entries tells of the days before. It has three parts, each under the
  provisos of its property. `SleepInv`: the latest sleep or wake-up up to a tick says what that tick was like, and
  when there is none and nothing has been dropped it was awake (`SleepTold`); a sleep is never logged upon a sleep
  that has not ended (`SleepsAlternate`). `ScreenInv`: the same for the screen (`DarkTold`, `LightsAlternate`), and
  `DarkNow` for the state it is in. `RatesInv`: a tick asleep lies behind the event of that sleep,
  with no sample in between (`SleepsMarked`), also one that is logged and still to come
  (`SleepMarked`, as `SleepLast` for the reported sleep), and an event of the charger has a sample of the same time or
  none that old (`ChargersSampled`). Each of these survives the three things that happen to a log: an
  entry is appended, a prefix is dropped (`...Shortened`, `...Appended`), and time passes (`...Ticks`); `TellInv`, their
  conjunction with the invariant of the rings and with what the client is about to log (`ClientTold`), is inductive.
  What the loops over the events compute then follows by induction on the number of events read (`BoundedInduction`,
  which is `LeastElement` of a set of numbers, and `Recursion`: a function defined step by step exists). `IntervalsCover` says
  that the intervals, closed at the next event, cover exactly the ticks of the state so far; `SumCovers` that
  disjoint intervals add up; `SleepSoFar` is the invariant of the loop of `calculateSleepTime`.
  Two things came out of it. `CalculateSleepTime` as the model had it left two of its cases overlapping, and
  takes them in the code's order now. And an earlier log that ends asleep is told apart from one that ends awake: with the first the
  figures are wrong for the time before the client starts, so it counts as a mishap.
* `InactivityManagerProofs`. A handler is a chain of functions of the members; each of them is shown once
  to keep something, and the chain follows. `Same` functions leave powernap, lid and charger alone, freeze nothing,
  and do not lose a sleep that was asked for (`Kept`: the battery timer stops and the cores go only for a
  sleep that waits in `calls`, with a note that they have). `Good` is what is left of that for a poll, which
  also warns, and for the charger; `Preparing` is what holds between `PrepareSuspendGeneral` and
  the call of logind. `Latest` over a growing queue of calls is the lemma `LatestAppended`.
  `PowernapStaysOnMains`: only `LidClosed` starts one, and `Transition`, which acts on a
  lid that has been closed for long, calls it with the charger gone. `PowernapEnds`: opening the lid ends a
  powernap unless `actionInProgress`. `CoresReturn` and `PollingReturns` need the invariant `SignalsOK`: when
  the last signal that waits says that a sleep begins, the machine is not awake, so that its wake-up is still
  to be told; a handler of `PrepareForSleep` may therefore rely on a later one. The proof does not use `SignalBound`.
  `FreezingThaws`: the sections of `checkBatteryStatus` one by one (`ThawsProcs`, `ThawsServices`), where the
  critical action (`PollDue`) is the one way out; the invariant `EndedOK` says that a client that ended leaves nothing
  frozen under a warning, which the next login, with its warnings cleared, could not know of.
* `CalibrationProofs`. The invariant has two parts. `AtRest`: inactive means timers, brightness and processor
  as the user has them, where the poll that ends the calibration may set the 40 percent of a critical
  warning (I 1291-1294) after the user's brightness was given back, and any other phase remembers the user's brightness; with
  `Watched`, the timers that a sleep stops, it gives `CalibrationBurns` and `CalibrationGivesBack`.
  `Progress`: the phase goes with what has been read since the start, also with a pending
  single shot of an earlier calibration, which gives `CalibrationCycle`. The proof had
  a use before it was done: an earlier form of `CompleteCycle` asked for 100 % at the end of the three
  seconds (calibration_manager.cpp:490-496), where the charge is not read again. A charger that is
  pulled and put back within them, over a sleep say, violates that form with five events; four, the
  bound of the run, were too few to show it. What holds is stated now.
  `CalibrationFullPower`: whatever the battery's polls send to the daemon is sent before the
  discharge begins or ends it (`Powered`, `ReadQuietly`), as the warning is silent while idle time is not
  watched, and who sleeps has overruled the profile before.
* `SettingsProofs`. `SettingsTimeoutsOrdered`: each slot of a spin box keeps the three in order and in
  range, and loading puts any three numbers in order; the invariant adds that settings
  and file hold numbers, also a file whose writing was cut short. `SettingsNoTestOutlivesDialog` is
  in the same invariant. `SettingsDaemonFollows` is inductive by itself. `SettingsOkKeeps`: while nobody
  has touched the widgets they agree with the settings in memory (`Shows`), whose reset, calibration and
  reloading are the steps to look at; the lemma `LoadAgrees` says what loading leaves alone.
  `SettingsRestart`: unless a reset is unsaved or a save was cut short, the file says what is in memory
  (`FileSays`), where what was loaded must be the same when it is saved and loaded again. For lists this needs
  that taking a list apart and putting the pieces together gives it back (`FlattenSingletons`), which is
  an induction: `SetInduction` gets it from the well-founded order of the naturals, as the
  library's theorem of induction takes an operator, which the provers cannot instantiate.
* `EnergyProfileProofs`. `HumanDevicesStayAwake`: the property speaks of devices that show
  themselves, which changes with the power of the webcam; the invariant speaks of all but the webcam.
  `ProfilesForget` and `GovernorsFit`: the lemma `AppliedLeaves` takes the twenty calls of `set_energy_profile` one
  by one, each of which changes its own fields only (`Only`), to say what a profile leaves of each field (`Leaves`).
  The invariant `AsBooted` says that what a machine lacks is as it was when it booted; a profile
  applied now and one applied after a boot then leave the same. That the governors the daemon
  knows are those on offer is part of it, since a change of the driver's mode reads them again; so
  the energy preference is never refused (`NeverRefused`), and the governor is the preferred one in
  every mode. Here too the proof corrected a property: `GovernorFits` used to suppose that every mode of a
  driver offers `performance` and `powersave`. The passive mode of a driver
  that lacks the powersave module does not; none of the machines of the run showed it, and one does now.

The types. Beside `DaemonTypes` and `LogTypes`, whose invariants are parts of the proofs above, four
modules have a type theorem with an invariant of its own: `ProfileTypesOK`, `ClientTypes`,
`SettingsTypes` and `CalibrationTypes`. The first goes through the twenty calls of `set_energy_profile`
again, the second through the client's handlers, whose members may hold any choice that the
configuration has and any reading of the hardware. The third says most: whatever numbers and
names a file holds, no widget shows what is out of its range or not in its list, and the daemon is
told a cap and a limit that it takes; the invariant adds that what is kept under these two keys
is a number, also in a file whose writing was cut short. The last counts single shots against
acts of the user, and corrected the model: the discharge sets the backlight to the charge, which
`setBrightness` raises to 1 when the charge is 0 (I 762). The types of `Screen` are part of the
invariant above as far as its properties need them; the rest of its `TypeOK`, as the steps of a fade
and the kinds of effects, is not proved. TLC finds it true with the configuration of `MCScreen`.

Only model-checked is liveness: all liveness properties
(`LoopEnds`, `HandlersEnd`, `WaitEnds`, `TestsEnd`) stay with TLC, as
fairness and ENABLED are beyond the prover. No module declares a RECURSIVE operator.

## 8. Where documents and code disagree

One is a run of the project:

* `MCScreenEffect`: the comment at `src/main.cpp` 191 says "Silently destroy overlays -
  screen is still DPMS off at this point". `wokeUp` is also emitted by a Wi-Fi retry
  that an earlier wake-up left in the event loop. If that runs inside
  `runSleepTransitionSync` (I 2448-2451), the overlay that would have set
  `m_sleepTransitionDone` is destroyed and the loop never ends: the machine does not
  sleep and the client handles nothing but events.

Seven more have a configuration in this directory with which TLC finds the disagreement; they
are not among the runs of `PROJECT.json`, since the passing properties that except
them (in brackets) say as much:

* `MCPowernap` (`PowernapEndsWithLid`): `energy_management_logic.md` 173 says "When the
  lid is opened, the system exits Powernap"; a lid that opens while a sleep is under
  way is noted as open by `checkLidState` and then ignored by `onLidClosed` (I 628).
* `MCMonitored` (`PollingComesBack`): `energy_management_logic.md` 140 says that the
  charge "is continually monitored"; a sleep that logind refuses leaves the battery
  timer stopped (I 2114), and so does a shutdown that is prepared and called off (I 2102).
* `MCChargerConnected`: `energy_management_logic.md` 87 says that on connection the
  profile switches to that for AC; during a warning `adjustProfile` runs before
  the warnings are cleared (I 1207) and not again.
* `MCPowerCommands` (`BeliefIsRight`): `energy_management_logic.md` 157 promises "an automated
  shutdown"; the client sends `shutdown` (I 1914), which the daemon does not know.
* `MCClocksLocked` (`HistoryFree`): `README.md` 38 says that the extreme booster is "locking
  highest CPU clocks"; applied right after a low profile its lower bound of 100
  percent is clamped to that profile's upper bound of 40, since
  `em_set_intel_cpu_perf_pct` writes the lower bound first (D 1256).
* `MCProfileRestored` (`FullPower`): `calibration_manager.cpp` 285 says "Restore profile &
  brightness"; it sends `set_low_profile:0` past `m_lastHwProfile`, so that the client
  shows one profile and the machine has another until the next choice.
* `MCPreference` (`OkKeepsSettings`): `config_dialog.cpp` 850-851 says that the slider's
  setting is remembered where there is no backlight to control; OK overwrites it (1027).

Noted without a configuration, from reading and from the exceptions in the properties:

* Settings: a reset changes the settings in memory at once and Cancel does not take it
  back, `last_calibration` included; `close_popup_animation` is never loaded into
  its checkbox, so that every OK switches it off (`config_dialog.cpp` 1118); turning the
  charge limit off tells the daemon nothing; list entries with commas come back in
  pieces; a sleep or a lock closes the dialog and loses what was edited.
* Battery log: a hybrid suspend counts as active and as asleep; `EVENT_POWER_OFF` is never
  written; I 1350-1352 speaks of 72 hours where the ring has 1000 samples; a save
  that is cut short loses all of the history at the next start; a lid that is opened, or a
  screensaver that is ended, turns the screen on without an event (I 709); a charger that comes or goes
  while a sleep is prepared makes the rates count the time asleep.
* Display and lock: input that comes and ends while a presentation or a loop keeps idle
  time from being checked is never seen, so that a screen that was dimmed before stays so
  until there is idle time again; a button plays its effect twice; a sleep that fails leaves
  the overlay on screen; I 889 believes an idle time of before the wake-up after 300 s; a presentation
  started while dimmed stays dimmed; waking raises the brightness to a stale
  `m_originalBrightness` (I 2214); a charger connected while dimmed can
  take the dimmed backlight for the wanted one (I 1216); a refused sleep gives up
  the delay lock until the next wake-up; after a shutdown that is called off idle time is
  not watched until the user, the charger, the lid or a sleep starts the timer again (I 2102); a paused music player listed after a film
  decides that no film plays.
* I 2194-2196 says that the block inhibitors must never be released; `m_inhibitHibernateFd`
  (I 2332) is closed at every sleep (I 1391, 2092) and not acquired again.
* Calibration: `CpuBurnerThread::run` clears `m_stop` when it starts, so that a cancel
  right after the start waits for ever for a thread that burns on.

Two more are noted without a run. D 3427 says "Graceful shutdown: restore system
to a safe state", but cores that the daemon unplugged stay offline: `RestoreDefaults`
leaves them. `README.md` 41 excludes audio interfaces from USB autosuspend; a webcam
with a microphone that is powered off while a low profile is applied shows no
interfaces and is suspended like any other device, which `HumanDevicesAwake` excepts.

## 9. What is not modelled

* Wording, icons, charts, painting, notifications, the frames of effects and screensavers.
* `isAlways100PercentOver72h`, the powernap row of the popup, themes, colours and opacity.
* A settings file that cannot be opened, and the build against the Trinity library's own
  `TDEConfig`; the models follow `PURE_TQT3` (`CMakeLists.txt` 156).
* Fades inside a calibration; DPMS calls that fail; a D-Bus query that never answers.
* In `BatteryLog`, a sleep that somebody else asks for while the client prepares one of its own.
* Writes to sysfs that fail for other reasons than those in `EnergyProfile`.
* Command lines as strings: lists are sets of names. A list whose line is longer than
  the 255 bytes of one read is cut (D 3046): planned as `ListWire`.
* Reuse of process identifiers, and SIGSTOP or SIGCONT sent by others.
* The sleep hook beyond its writes to `cpu*/online`.

Hazards that reading found and that no model holds yet:

* a client that connects and sends nothing blocks the daemon's read (D 3417); the
  desktop client always writes at once;
* the array of preferred governors of the balanced profile has no end mark (D 2029); the
  machines of `EnergyProfile` are assumed to have one of the three;
* a charge that skips the low range never gives the low warning (I 1308);
* `m_wifiInitialState` is never reset (I 2132), so that the radio is put back to what it was
  before the first sleep;
* without a system bus a sleep leaves `m_actionInProgress` set (I 1390).

## 10. How to run

    tlc -workers 2 -config MCDaemonFreezing.cfg MCDaemon
    tlapm DaemonProofs.tla

A run's module is listed in `PROJECT.json`; no passing run takes more than about
three minutes on two workers.
