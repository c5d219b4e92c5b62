----------------------------- MODULE Calibration -----------------------------
(***************************************************************************)
(* The calibration of the battery (src/src/calibration_manager.cpp): a     *)
(* charge to 100 %, a discharge to 3 % under load and a charge to 100 %    *)
(* again, driven by the battery's polls, with as much of the               *)
(* InactivityManager as it takes over and gives back: the idle timers, the *)
(* warnings, the brightness and the power profile.                         *)
(*                                                                         *)
(* Three fields of m are no members: `seen', how much of a full cycle was  *)
(* seen, `overruled', and `wanted', the brightness that is due outside a   *)
(* calibration: what the user chose last, or the 40 that a critical        *)
(* warning has made of it.                                                 *)
(*                                                                         *)
(* Handlers are functions of the members (m).  They run one at a time in   *)
(* the Qt thread; the burners are threads of their own, started and        *)
(* stopped together.                                                       *)
(***************************************************************************)
EXTENDS Integers, FiniteSets, FiniteSetsExt

CONSTANTS
  Charges,      \* the percentages the charge goes through, 100 one of them
  Critical,     \* critical_level
  Profile,      \* the configured power profile, by charging state
  Brightness,   \* what the backlight is set to by users
  minimal,      \* minimal_state_before_suspend
  EventBound    \* how often users, the charger and other programs act

ASSUME CalibrationAssumption ==
  /\ Charges \subseteq 0..100 /\ 100 \in Charges
  /\ Critical \in 0..100 /\ EventBound \in Nat
  /\ Profile \in [0..2 -> 0..3]
  /\ Brightness \subseteq 1..100 /\ Brightness # {}
  /\ minimal \in BOOLEAN

VARIABLES
  gui,      \* the members of the CalibrationManager and the InactivityManager
  hardware, \* the profile the daemon set last
  charge, mains, \* the battery and the charger
  asleep,
  events    \* how much of EventBound is used up

vars == <<gui, hardware, charge, mains, asleep, events>>

-----------------------------------------------------------------------------
(* The InactivityManager.  Commands to the daemon are kept in m.sent: the   *)
(* last one counts, as all of them set the same thing.                      *)

Send(m, profile) == [m EXCEPT !.sent = profile]

\* setProfile: a profile that was set last by this function is not sent again.
SetProfile(m, profile) ==
  IF profile = m.lastHwProfile THEN m ELSE Send([m EXCEPT !.lastHwProfile = profile], profile)

\* adjustProfile: going to or from mains, everything is sent again.
AdjustProfile(m) ==
  LET opmode == IF m.chargingState = 0 THEN 0 ELSE 1
      known == [m EXCEPT !.lastOpmode = opmode,
                         !.lastHwProfile = IF opmode = m.lastOpmode THEN @ ELSE -1]
  IN SetProfile(known, IF m.warnCrit THEN 3 ELSE Profile[m.chargingState])

\* The critical warning dims a bright screen, and notes the charge it is given at.
GiveWarning(m) ==
  LET dims == m.backlight > 40
  IN AdjustProfile([m EXCEPT !.warnCrit = TRUE, !.reached = m.percentage,
                             !.backlight = IF dims THEN 40 ELSE @,
                             !.wanted = IF dims THEN 40 ELSE @])

\* How far the charge has to fall after the warning before the critical action is due.
XLevel(reached) ==
  CASE reached >= 8 -> 3 [] reached \in 5..7 -> 2 [] reached \in 3..4 -> 1 [] OTHER -> 0

\* A slip for the mutation runs: the warning is given in a calibration, too.
WarnAlways(m) ==
  LET low == m.percentage <= Critical /\ m.chargingState = 0
  IN IF low /\ ~m.warnCrit THEN GiveWarning(m) ELSE [m EXCEPT !.warnCrit = @ /\ low]

\* The warning, the critical action, which takes the warning back (the sleep it
\* asks for is one of those of others), and the end of the warning.
Warn(m) ==
  LET low == m.percentage <= Critical /\ m.chargingState = 0
      due == m.percentage <= m.reached - XLevel(m.reached) \/ m.percentage <= 2
  IN IF low /\ ~m.active /\ ~m.warnCrit THEN GiveWarning(m)
     ELSE [m EXCEPT !.warnCrit = @ /\ low /\ (m.active \/ ~due)]

\* checkBatteryStatus, but for the signal it emits at its end.
ReadBattery(m) ==
  LET state == IF mains = 0 THEN 0 ELSE IF charge = 100 THEN 2 ELSE 1
      read == [m EXCEPT !.chargingState = state, !.percentage = charge]
  IN Warn(IF (state = 0) # (m.chargingState = 0) THEN AdjustProfile(read) ELSE read)

SuspendIdle(m) ==
  [m EXCEPT !.active = TRUE, !.idleTimer = FALSE, !.mprisTimer = FALSE, !.lidTimer = FALSE]

\* Ends with a check of the battery, whose signal finds no calibration.
ResumeIdle(m) ==
  ReadBattery([m EXCEPT !.active = FALSE, !.idleTimer = TRUE, !.mprisTimer = TRUE,
                        !.batteryTimer = TRUE, !.lidTimer = TRUE])

-----------------------------------------------------------------------------
(* The CalibrationManager. *)

\* Stopping a thread that has not begun yet does not stop it, as it clears m_stop
\* when it begins: wait() never returns.
StopBurners(m) ==
  IF m.burners = "created" THEN [m EXCEPT !.hung = TRUE] ELSE [m EXCEPT !.burners = "none"]

StartBurners(m) == [m EXCEPT !.burners = "created"]

\* transitionTo
TransitionTo(m, state) ==
  [m EXCEPT !.state = state,
            !.startedCharging = IF state = "PHASE1_CHARGING" THEN FALSE ELSE @,
            !.backlight = IF state = "PHASE2_DISCHARGING" THEN @ ELSE 100]

\* A slip for the mutation runs: a transition that a cancelled calibration left is kept.
StartCalibrationDirty(m) ==
  LET fresh == [m EXCEPT !.startedCharging = FALSE, !.seen = "start"]
      idle == SuspendIdle(fresh)
  IN TransitionTo([idle EXCEPT !.original = m.backlight, !.overlay = TRUE], "PHASE1_CHARGING")

\* startCalibration
StartCalibration(m) ==
  LET fresh == [m EXCEPT !.startedCharging = FALSE, !.waitingForUnplug = FALSE, !.seen = "start"]
      idle == SuspendIdle(fresh)
  IN TransitionTo([idle EXCEPT !.original = m.backlight, !.overlay = TRUE], "PHASE1_CHARGING")

\* A slip for the mutation runs: the burners go on.
AbandonBurning(m) ==
  ResumeIdle([Send(m, 0) EXCEPT !.overlay = FALSE, !.state = "INACTIVE", !.backlight = m.original])

\* cancelCalibration and abortCalibration
Abandon(m) ==
  LET still == StopBurners(m)
  IN IF still.hung THEN still
     ELSE ResumeIdle([Send(still, 0) EXCEPT !.overlay = FALSE, !.state = "INACTIVE",
                                            !.backlight = m.original])

\* A slip for the mutation runs: idle time is not watched again.
CompleteOnly(m) ==
  [Send(m, 0) EXCEPT !.overlay = FALSE, !.state = "INACTIVE", !.backlight = m.original,
                     !.calibrated = @ + 1]

\* The end of the last phase; the date is saved.
Complete(m) ==
  [ResumeIdle([Send(m, 0) EXCEPT !.overlay = FALSE, !.state = "INACTIVE",
                                 !.backlight = m.original])
     EXCEPT !.calibrated = @ + 1]

-----------------------------------------------------------------------------
(* onBatteryStatusChanged, a case for each phase. *)
Charging(m) == m.chargingState \in {1, 2}

Bright(m) == [m EXCEPT !.backlight = 100]

\* At 100 % the next phase begins in three seconds.
Phase1(m) ==
  LET charging == Bright(Send([m EXCEPT !.startedCharging = TRUE], 3))
  IN CASE Charging(m) /\ m.percentage = 100 /\ ~m.waitingForUnplug ->
            [charging EXCEPT !.waitingForUnplug = TRUE, !.shots = @ + 1, !.seen = "full"]
       [] Charging(m) /\ ~(m.percentage = 100 /\ ~m.waitingForUnplug) -> charging
       [] ~Charging(m) /\ m.startedCharging -> Abandon(m)
       [] OTHER -> Bright(m)

\* setBrightness: never dark, however low the charge.
WaitingUnplug(m) ==
  IF m.chargingState = 0
    THEN [Send(StartBurners(TransitionTo(m, "PHASE2_DISCHARGING")), 2)
            EXCEPT !.backlight = IF m.percentage < 1 THEN 1 ELSE m.percentage,
                   !.overruled = FALSE]
    ELSE Bright(m)

\* A slip for the mutation runs: the first drop below half will do.
Phase2Early(m) ==
  CASE Charging(m) -> Abandon(m)
    [] ~Charging(m) /\ m.percentage <= 50 ->
         [TransitionTo(Bright(Send(StopBurners(m), 3)), "WAITING_PLUG")
            EXCEPT !.seen = IF @ = "full" /\ m.percentage <= 3 THEN "empty" ELSE @]
    [] OTHER -> m

Phase2(m) ==
  LET still == StopBurners(m)
  IN CASE Charging(m) -> Abandon(m)
       [] ~Charging(m) /\ m.percentage <= 3 ->
            IF still.hung THEN still
            ELSE [TransitionTo(Bright(Send(still, 3)), "WAITING_PLUG")
                    EXCEPT !.seen = IF @ = "full" THEN "empty" ELSE @]
       [] OTHER -> m

\* At 2 % the machine is put to sleep, at every poll.
WaitingPlug(m) ==
  CASE Charging(m) -> TransitionTo(m, "PHASE3_CHARGING")
    [] ~Charging(m) /\ m.percentage <= 2 -> [Bright(m) EXCEPT !.asked = TRUE]
    [] OTHER -> Bright(m)

Phase3(m) ==
  CASE m.chargingState = 0 -> Abandon(m)
    [] m.chargingState # 0 /\ m.percentage = 100 -> Complete(m)
    [] OTHER -> m

OnBatteryStatusChanged(m) ==
  CASE m.state = "INACTIVE" -> m
    [] m.state = "PHASE1_CHARGING" -> Phase1(m)
    [] m.state = "WAITING_UNPLUG" -> WaitingUnplug(m)
    [] m.state = "PHASE2_DISCHARGING" -> Phase2(m)
    [] m.state = "WAITING_PLUG" -> WaitingPlug(m)
    [] m.state = "PHASE3_CHARGING" -> Phase3(m)

\* slotTransitionToWaitingUnplug
TransitionToWaitingUnplug(m) ==
  IF m.state = "PHASE1_CHARGING" /\ m.waitingForUnplug
    THEN TransitionTo([m EXCEPT !.waitingForUnplug = FALSE], "WAITING_UNPLUG")
    ELSE m

-----------------------------------------------------------------------------
(***************************************************************************)
(* The handlers as steps; the profile that they send reaches the daemon.   *)
(***************************************************************************)
Handle(m) ==
  /\ ~gui.hung /\ ~asleep
  /\ gui' = [m EXCEPT !.sent = -1]
  /\ hardware' = IF m.sent = -1 THEN hardware ELSE m.sent

Alone == UNCHANGED <<charge, mains, asleep, events>>

\* One of the things that users, the charger and other programs do.
Acts == events < EventBound /\ events' = events + 1

\* By the dialog's button.
Start ==
  /\ Acts
  /\ gui.state = "INACTIVE"
  /\ Handle(StartCalibration(gui))
  /\ UNCHANGED <<charge, mains, asleep>>

\* By Escape or the overlay's button.
Cancel ==
  /\ Acts
  /\ gui.overlay
  /\ Handle(Abandon(gui))
  /\ UNCHANGED <<charge, mains, asleep>>

\* checkBatteryStatus by its timer or udev, and the signal.
BatteryPoll == Handle(OnBatteryStatusChanged(ReadBattery(gui))) /\ Alone

SingleShot ==
  /\ gui.shots > 0
  /\ Handle(TransitionToWaitingUnplug([gui EXCEPT !.shots = @ - 1]))
  /\ Alone

\* The burners' threads get to their loop.
BurnersBegin ==
  /\ gui.burners = "created" /\ ~gui.hung
  /\ gui' = [gui EXCEPT !.burners = "running"]
  /\ UNCHANGED <<hardware, charge, mains, asleep, events>>

\* By the popup or a remote call.
ChooseBrightness ==
  /\ Acts
  /\ \E b \in Brightness :
       Handle([gui EXCEPT !.backlight = b, !.wanted = IF gui.state = "INACTIVE" THEN b ELSE @])
  /\ UNCHANGED <<charge, mains, asleep>>

ChooseProfile ==
  /\ Acts
  /\ \E profile \in 0..2 : Handle(SetProfile([gui EXCEPT !.overruled = TRUE], profile))
  /\ UNCHANGED <<charge, mains, asleep>>

\* PrepareForSleep(true), for a sleep that others or the last phase ask for.
Sleep ==
  /\ IF gui.asked THEN UNCHANGED events ELSE Acts
  /\ Handle(LET still == [gui EXCEPT !.idleTimer = FALSE, !.batteryTimer = FALSE,
                                      !.asked = FALSE, !.overruled = TRUE]
            IN IF minimal THEN SetProfile(still, 3) ELSE still)
  /\ asleep' = TRUE
  /\ UNCHANGED <<charge, mains>>

\* The machine wakes up: afterWakeActions.
Wake ==
  /\ asleep
  /\ asleep' = FALSE
  /\ LET m == AdjustProfile([gui EXCEPT !.idleTimer = TRUE, !.mprisTimer = TRUE,
                                        !.batteryTimer = TRUE])
     IN /\ gui' = [m EXCEPT !.sent = -1]
        /\ hardware' = IF m.sent = -1 THEN hardware ELSE m.sent
  /\ UNCHANGED <<charge, mains, events>>

Plug ==
  /\ Acts
  /\ mains' = 1 - mains
  /\ UNCHANGED <<gui, hardware, charge, asleep>>

\* The charge goes up on mains and down without, to the next of Charges.
ChargeMoves ==
  /\ LET next == IF mains = 1 THEN {c \in Charges : c > charge} ELSE {c \in Charges : c < charge}
     IN next # {} /\ charge' = IF mains = 1 THEN Min(next) ELSE Max(next)
  /\ UNCHANGED <<gui, hardware, mains, asleep, events>>

Next ==
  \/ Start \/ Cancel \/ BatteryPoll \/ SingleShot \/ BurnersBegin
  \/ ChooseBrightness \/ ChooseProfile \/ Sleep \/ Wake \/ Plug \/ ChargeMoves

Init ==
  /\ mains \in {0, 1} /\ charge \in Charges
  /\ asleep = FALSE /\ events = 0
  /\ \E b \in Brightness :
       LET chargingState == IF mains = 0 THEN 0 ELSE IF charge = 100 THEN 2 ELSE 1
           warnCrit == mains = 0 /\ charge <= Critical
           profile == IF warnCrit THEN 3 ELSE Profile[chargingState]
       IN /\ gui = [state |-> "INACTIVE", overlay |-> FALSE, startedCharging |-> FALSE,
                    waitingForUnplug |-> FALSE, original |-> 100, shots |-> 0,
                    burners |-> "none", hung |-> FALSE, calibrated |-> 0,
                    active |-> FALSE, idleTimer |-> TRUE, mprisTimer |-> TRUE,
                    batteryTimer |-> TRUE, lidTimer |-> TRUE, backlight |-> b,
                    chargingState |-> chargingState, percentage |-> charge,
                    warnCrit |-> warnCrit, reached |-> charge, lastHwProfile |-> profile,
                    lastOpmode |-> mains, asked |-> FALSE, sent |-> -1,
                    wanted |-> b, seen |-> "start", overruled |-> FALSE]
          /\ hardware = profile

\* Qt delivers single shots; nothing else is assumed.
Fairness == WF_vars(SingleShot)

Spec == Init /\ [][Next]_vars /\ Fairness

-----------------------------------------------------------------------------
(***************************************************************************)
(* Properties.                                                             *)
(***************************************************************************)
States == {"INACTIVE", "PHASE1_CHARGING", "WAITING_UNPLUG", "PHASE2_DISCHARGING",
           "WAITING_PLUG", "PHASE3_CHARGING"}

\* Types of all variables.
TypeOK ==
  /\ gui.state \in States /\ gui.burners \in {"none", "created", "running"}
  /\ gui.chargingState \in 0..2 /\ gui.percentage \in Charges
  /\ gui.lastHwProfile \in -1..3 /\ gui.lastOpmode \in {0, 1} /\ gui.sent = -1
  /\ {gui.backlight, gui.original, gui.wanted} \subseteq 1..100
  /\ gui.reached \in Charges
  /\ gui.shots \in 0..EventBound /\ gui.calibrated \in Nat /\ gui.seen \in {"start", "full", "empty"}
  /\ hardware \in 0..3 /\ charge \in Charges /\ mains \in {0, 1}
  /\ events \in 0..EventBound

\* Burners run in the discharge only: however the calibration ends, the processor is free.
BurnersOnlyToDischarge ==
  gui.burners # "none" => gui.state = "PHASE2_DISCHARGING"

\* A calibration that is over, however, has given back the timers it took.
IdleWatchedAgain ==
  gui.state = "INACTIVE" /\ ~asleep =>
    ~gui.active /\ gui.idleTimer /\ gui.mprisTimer /\ gui.batteryTimer /\ gui.lidTimer

\* ... and the brightness the user had, unless a critical warning, held back while it ran or
\* given since, dims the screen.
BrightnessBack == gui.state = "INACTIVE" => gui.backlight = gui.wanted

\* Every end of a calibration gives back what was taken at its start.
EndGivesBack == IdleWatchedAgain /\ BrightnessBack

\* A calibration is complete only when 100 % on mains, then 3 % on the battery and then 100 %
\* again have been read since it was started, whatever an earlier one has left behind.
CompleteCycle == [][ gui'.calibrated > gui.calibrated => gui.seen = "empty" ]_vars

\* While it runs the discharge has the processor at full power, unless somebody chose a
\* profile or the machine slept.
FullPower ==
  gui.state = "PHASE2_DISCHARGING" => hardware = 2 \/ gui.overruled \/ gui.hung

\* The three seconds at 100 % end.
WaitEnds ==
  LET Waits == gui.state = "PHASE1_CHARGING" /\ gui.waitingForUnplug IN Waits ~> (~Waits \/ asleep)

\* What the code says of the end of a calibration: the profile is restored, so that the
\* machine has the one that the client shows.
ProfileRestored == gui.state = "INACTIVE" /\ ~gui.hung /\ ~asleep => hardware = gui.lastHwProfile

=============================================================================
