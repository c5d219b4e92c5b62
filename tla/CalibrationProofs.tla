--------------------------- MODULE CalibrationProofs ---------------------------
(***************************************************************************)
(* For every set of charge levels, every configuration and any number of   *)
(* calibrations, sleeps and turns of the charger: a calibration that ends  *)
(* gives back what it took, one that is complete went through it all, and  *)
(* the discharge has the processor at full power.                          *)
(***************************************************************************)
EXTENDS Calibration, NaturalsInduction, WellFoundedInduction, TLAPS

Fields ==
  {"state", "overlay", "startedCharging", "waitingForUnplug", "original", "shots", "burners",
   "hung", "calibrated", "active", "idleTimer", "mprisTimer", "batteryTimer", "lidTimer",
   "backlight", "chargingState", "percentage", "warnCrit", "reached", "lastHwProfile",
   "lastOpmode", "asked", "sent", "wanted", "seen", "overruled"}

\* What reading the battery and setting a profile leave alone; the brightness, too, unless
\* no calibration runs and the critical warning dims the screen.
Kept == Fields \ {"chargingState", "percentage", "warnCrit", "reached", "lastHwProfile",
                  "lastOpmode", "sent", "backlight", "wanted"}

Light(m, n) ==
  \/ n.backlight = m.backlight /\ n.wanted = m.wanted
  \/ ~m.active /\ n.backlight = 40 /\ n.wanted = 40

Same(m, n) == DOMAIN n = Fields /\ (\A f \in Kept : n[f] = m[f]) /\ Light(m, n)

-----------------------------------------------------------------------------
(* The invariant. *)

\* Outside the discharge nothing burns, and inactive is as if there had been no calibration.
AtRest(m) ==
  /\ m.burners # "none" => m.state = "PHASE2_DISCHARGING"
  /\ m.overlay => m.state # "INACTIVE"
  /\ m.state = "INACTIVE" => ~m.active /\ m.mprisTimer /\ m.lidTimer /\ m.backlight = m.wanted
  /\ m.state # "INACTIVE" => m.active /\ m.original = m.wanted

\* How far a calibration is follows what it has seen.
Progress(m) ==
  /\ m.state = "PHASE1_CHARGING" /\ m.waitingForUnplug => m.seen = "full"
  /\ m.state \in {"WAITING_UNPLUG", "PHASE2_DISCHARGING"} => m.seen = "full"
  /\ m.state \in {"WAITING_PLUG", "PHASE3_CHARGING"} => m.seen = "empty"

GuiOK(m) ==
  /\ DOMAIN m = Fields /\ m.state \in States /\ m.calibrated \in Nat
  /\ AtRest(m) /\ Progress(m)

\* The timers that a sleep stops, too.
Watched(m) == m.state = "INACTIVE" => m.idleTimer /\ m.batteryTimer

IInv == GuiOK(gui) /\ (~asleep => Watched(gui))

\* What every handler is to keep, the last for CompleteCycle.
Good(m, n) ==
  GuiOK(n) /\ Watched(n) /\ (n.calibrated = m.calibrated \/ m.seen = "empty")

-----------------------------------------------------------------------------
(* The functions of the InactivityManager. *)

LEMMA SameKeeps ==
  ASSUME NEW m, NEW n, Same(m, n), GuiOK(m)
  PROVE  GuiOK(n) /\ (Watched(m) => Watched(n)) /\ n.calibrated = m.calibrated /\ n.seen = m.seen
<1>1. /\ n.state = m.state /\ n.overlay = m.overlay /\ n.waitingForUnplug = m.waitingForUnplug
      /\ n.original = m.original /\ n.burners = m.burners /\ n.calibrated = m.calibrated
      /\ n.active = m.active /\ n.idleTimer = m.idleTimer /\ n.mprisTimer = m.mprisTimer
      /\ n.batteryTimer = m.batteryTimer /\ n.lidTimer = m.lidTimer
      /\ n.seen = m.seen /\ Light(m, n)
  BY DEF Same, Light, Kept, Fields
<1> QED
  BY <1>1 DEF GuiOK, AtRest, Progress, Watched, Same, Light

LEMMA SendSame ==
  ASSUME NEW m, DOMAIN m = Fields, NEW profile
  PROVE  Same(m, Send(m, profile))
BY DEF Same, Light, Send, Kept, Fields

LEMMA SetProfileSame ==
  ASSUME NEW m, DOMAIN m = Fields, NEW profile
  PROVE  Same(m, SetProfile(m, profile))
BY DEF Same, Light, SetProfile, Send, Kept, Fields

LEMMA SameChain ==
  ASSUME NEW m, NEW n, NEW o, Same(m, n), Same(n, o)
  PROVE  Same(m, o)
<1>1. "active" \in Kept
  BY DEF Kept, Fields
<1>2. n.active = m.active
  BY <1>1 DEF Same
<1> QED
  BY <1>2 DEF Same, Light

LEMMA AdjustProfileSame ==
  ASSUME NEW m, DOMAIN m = Fields
  PROVE  Same(m, AdjustProfile(m))
<1> DEFINE opmode == IF m.chargingState = 0 THEN 0 ELSE 1
           known == [m EXCEPT !.lastOpmode = opmode,
                              !.lastHwProfile = IF opmode = m.lastOpmode THEN @ ELSE -1]
           profile == IF m.warnCrit THEN 3 ELSE Profile[m.chargingState]
<1>1. Same(m, known)
  BY DEF Same, Light, Kept, Fields
<1>2. AdjustProfile(m) = SetProfile(known, profile)
  BY DEF AdjustProfile
<1> HIDE DEF known, profile
<1>3. Same(known, SetProfile(known, profile))
  BY <1>1, SetProfileSame DEF Same
<1> QED
  BY <1>1, <1>2, <1>3, SameChain

LEMMA WarnSame ==
  ASSUME NEW m, DOMAIN m = Fields
  PROVE  Same(m, Warn(m))
<1> DEFINE low == m.percentage <= Critical /\ m.chargingState = 0
           due == m.percentage <= m.reached - XLevel(m.reached) \/ m.percentage <= 2
           dims == m.backlight > 40
           warned == [m EXCEPT !.warnCrit = TRUE, !.reached = m.percentage,
                               !.backlight = IF dims THEN 40 ELSE @,
                               !.wanted = IF dims THEN 40 ELSE @]
           quiet == [m EXCEPT !.warnCrit = @ /\ low /\ (m.active \/ ~due)]
<1>1. (~m.active => Same(m, warned)) /\ Same(m, quiet)
  BY DEF Same, Light, Kept, Fields
<1>2. (~m.active /\ Warn(m) = AdjustProfile(warned)) \/ Warn(m) = quiet
  BY DEF Warn, GiveWarning
<1>3. DOMAIN warned = Fields
  OBVIOUS
<1> HIDE DEF warned, quiet
<1>4. Same(warned, AdjustProfile(warned))
  BY <1>3, AdjustProfileSame
<1> QED
  BY <1>1, <1>2, <1>4, SameChain

LEMMA ReadBatterySame ==
  ASSUME NEW m, DOMAIN m = Fields
  PROVE  Same(m, ReadBattery(m))
<1> DEFINE state == IF mains = 0 THEN 0 ELSE IF charge = 100 THEN 2 ELSE 1
           read == [m EXCEPT !.chargingState = state, !.percentage = charge]
           adjusted == AdjustProfile(read)
<1>1. Same(m, read)
  BY DEF Same, Light, Kept, Fields
<1>2. ReadBattery(m) = Warn(adjusted) \/ ReadBattery(m) = Warn(read)
  BY DEF ReadBattery
<1> HIDE DEF read
<1>3. Same(read, adjusted)
  BY <1>1, AdjustProfileSame DEF Same
<1> HIDE DEF adjusted
<1>4. Same(read, Warn(read)) /\ Same(adjusted, Warn(adjusted))
  BY <1>1, <1>3, WarnSame DEF Same
<1> QED
  BY <1>1, <1>2, <1>3, <1>4, SameChain

\* What resumeIdle leaves is at rest if brightness and overlay are.
LEMMA ResumeIdleGood ==
  ASSUME NEW m, DOMAIN m = Fields, m.calibrated \in Nat, m.burners = "none",
         m.state = "INACTIVE", ~m.overlay, m.backlight = m.wanted
  PROVE  /\ GuiOK(ResumeIdle(m)) /\ Watched(ResumeIdle(m))
         /\ ResumeIdle(m).calibrated = m.calibrated
<1> DEFINE idle == [m EXCEPT !.active = FALSE, !.idleTimer = TRUE, !.mprisTimer = TRUE,
                             !.batteryTimer = TRUE, !.lidTimer = TRUE]
<1>1. /\ DOMAIN idle = Fields /\ idle.calibrated = m.calibrated /\ idle.burners = "none"
      /\ idle.state = "INACTIVE" /\ ~idle.overlay /\ idle.backlight = idle.wanted
      /\ ~idle.active /\ idle.mprisTimer /\ idle.lidTimer /\ idle.idleTimer /\ idle.batteryTimer
  BY DEF Fields
<1>2. ResumeIdle(m) = ReadBattery(idle)
  BY DEF ResumeIdle
<1> HIDE DEF idle
<1>3. GuiOK(idle) /\ Watched(idle)
  BY <1>1 DEF GuiOK, AtRest, Progress, Watched, States
<1>4. Same(idle, ReadBattery(idle))
  BY <1>1, ReadBatterySame
<1> QED
  BY <1>1, <1>2, <1>3, <1>4, SameKeeps
-----------------------------------------------------------------------------
(* The handlers of the CalibrationManager. *)

LEMMA StartGood ==
  ASSUME NEW m, GuiOK(m), m.state = "INACTIVE"
  PROVE  Good(m, StartCalibration(m))
<1>1. m.backlight = m.wanted /\ m.burners = "none" /\ m.calibrated \in Nat /\ DOMAIN m = Fields
  BY DEF GuiOK, AtRest
<1> DEFINE n == StartCalibration(m)
<1>2. /\ DOMAIN n = Fields /\ n.state = "PHASE1_CHARGING" /\ n.calibrated = m.calibrated
      /\ n.burners = m.burners /\ n.original = m.backlight /\ n.wanted = m.wanted
      /\ ~n.waitingForUnplug /\ n.active
  BY <1>1 DEF StartCalibration, SuspendIdle, TransitionTo, Fields
<1> HIDE DEF n
<1>3. GuiOK(n) /\ Watched(n)
  BY <1>1, <1>2 DEF GuiOK, AtRest, Progress, Watched, States
<1> QED
  BY <1>2, <1>3 DEF Good, n

LEMMA AbandonGood ==
  ASSUME NEW m, GuiOK(m), m.state # "INACTIVE"
  PROVE  Good(m, Abandon(m))
<1>0. DOMAIN m = Fields /\ m.calibrated \in Nat /\ m.original = m.wanted
  BY DEF GuiOK, AtRest
<1> DEFINE still == StopBurners(m)
           ended == [Send(still, 0) EXCEPT !.overlay = FALSE, !.state = "INACTIVE",
                                           !.backlight = m.original]
<1>1. CASE still.hung
  <2>1. Abandon(m) = still
    BY <1>1 DEF Abandon
  <2>2. /\ DOMAIN still = Fields /\ still.state = m.state /\ still.overlay = m.overlay
        /\ still.calibrated = m.calibrated /\ still.original = m.original /\ still.wanted = m.wanted
        /\ still.active = m.active
        /\ still.waitingForUnplug = m.waitingForUnplug /\ still.seen = m.seen
        /\ still.burners # "none" => m.burners # "none"
    BY <1>0 DEF StopBurners, Fields
  <2> HIDE DEF still
  <2>3. GuiOK(still) /\ Watched(still)
    BY <2>2 DEF GuiOK, AtRest, Progress, Watched
  <2> QED
    BY <2>1, <2>2, <2>3 DEF Good
<1>2. CASE ~still.hung
  <2>1. /\ DOMAIN still = Fields /\ still.burners = "none" /\ still.calibrated = m.calibrated
        /\ still.wanted = m.wanted
    BY <1>0, <1>2 DEF StopBurners, Fields
  <2>2. Abandon(m) = ResumeIdle(ended)
    BY <1>2 DEF Abandon
  <2> HIDE DEF still
  <2>3. /\ DOMAIN ended = Fields /\ ended.burners = "none" /\ ended.calibrated = m.calibrated
        /\ ended.state = "INACTIVE" /\ ~ended.overlay /\ ended.backlight = ended.wanted
    BY <1>0, <2>1 DEF Send, Fields
  <2> HIDE DEF ended
  <2> QED
    BY <1>0, <2>2, <2>3, ResumeIdleGood DEF Good
<1> QED
  BY <1>1, <1>2

LEMMA CompleteGood ==
  ASSUME NEW m, GuiOK(m), m.state = "PHASE3_CHARGING"
  PROVE  Good(m, Complete(m))
<1>1. /\ DOMAIN m = Fields /\ m.calibrated \in Nat /\ m.original = m.wanted
      /\ m.burners = "none" /\ m.seen = "empty"
  BY DEF GuiOK, AtRest, Progress
<1> DEFINE ended == [Send(m, 0) EXCEPT !.overlay = FALSE, !.state = "INACTIVE",
                                       !.backlight = m.original]
           resumed == ResumeIdle(ended)
           n == [resumed EXCEPT !.calibrated = @ + 1]
<1>2. /\ DOMAIN ended = Fields /\ ended.burners = "none" /\ ended.calibrated = m.calibrated
      /\ ended.state = "INACTIVE" /\ ~ended.overlay /\ ended.backlight = ended.wanted
  BY <1>1 DEF Send, Fields
<1> HIDE DEF ended
<1>3. GuiOK(resumed) /\ Watched(resumed)
  BY <1>1, <1>2, ResumeIdleGood
<1> HIDE DEF resumed
<1>4. /\ DOMAIN n = Fields /\ n.calibrated \in Nat
      /\ \A f \in Fields \ {"calibrated"} : n[f] = resumed[f]
  BY <1>3 DEF GuiOK, Fields
<1> HIDE DEF n
<1>5. /\ n.state = resumed.state /\ n.overlay = resumed.overlay
      /\ n.waitingForUnplug = resumed.waitingForUnplug /\ n.original = resumed.original
      /\ n.burners = resumed.burners /\ n.active = resumed.active
      /\ n.idleTimer = resumed.idleTimer /\ n.mprisTimer = resumed.mprisTimer
      /\ n.batteryTimer = resumed.batteryTimer /\ n.lidTimer = resumed.lidTimer
      /\ n.backlight = resumed.backlight /\ n.wanted = resumed.wanted /\ n.seen = resumed.seen
  BY <1>4 DEF Fields
<1>6. GuiOK(n) /\ Watched(n)
  BY <1>3, <1>4, <1>5 DEF GuiOK, AtRest, Progress, Watched
<1>7. Complete(m) = n
  BY DEF Complete, n, resumed, ended
<1> QED
  BY <1>1, <1>6, <1>7 DEF Good

\* A handler that stays in its phase, or goes on to one that what was seen allows.
LEMMA GoingOnGood ==
  ASSUME NEW m, GuiOK(m), m.state # "INACTIVE", NEW n,
         DOMAIN n = Fields, n.state \in States \ {"INACTIVE"}, Progress(n),
         n.calibrated = m.calibrated, n.active = m.active,
         n.original = m.original, n.wanted = m.wanted,
         n.burners # "none" => n.state = "PHASE2_DISCHARGING"
  PROVE  Good(m, n)
BY DEF Good, GuiOK, AtRest, Watched

LEMMA Phase1Good ==
  ASSUME NEW m, GuiOK(m), m.state = "PHASE1_CHARGING"
  PROVE  Good(m, Phase1(m))
<1>1. /\ DOMAIN m = Fields /\ m.burners = "none" /\ (m.waitingForUnplug => m.seen = "full")
  BY DEF GuiOK, AtRest, Progress
<1> DEFINE charging == Bright(Send([m EXCEPT !.startedCharging = TRUE], 3))
           waiting == [charging EXCEPT !.waitingForUnplug = TRUE, !.shots = @ + 1, !.seen = "full"]
           bright == Bright(m)
<1>2. Phase1(m) \in {waiting, charging, Abandon(m), bright}
  BY DEF Phase1
<1>3. /\ DOMAIN charging = Fields /\ charging.state = m.state /\ charging.burners = m.burners
      /\ charging.calibrated = m.calibrated /\ charging.active = m.active
      /\ charging.original = m.original
      /\ charging.wanted = m.wanted /\ charging.seen = m.seen
      /\ charging.waitingForUnplug = m.waitingForUnplug
  BY <1>1 DEF Bright, Send, Fields
<1>4. /\ DOMAIN bright = Fields /\ bright.state = m.state /\ bright.burners = m.burners
      /\ bright.calibrated = m.calibrated /\ bright.active = m.active
      /\ bright.original = m.original
      /\ bright.wanted = m.wanted /\ bright.seen = m.seen
      /\ bright.waitingForUnplug = m.waitingForUnplug
  BY <1>1 DEF Bright, Fields
<1> HIDE DEF charging, bright
<1>5. /\ DOMAIN waiting = Fields /\ waiting.state = m.state /\ waiting.burners = m.burners
      /\ waiting.calibrated = m.calibrated /\ waiting.active = m.active
      /\ waiting.original = m.original
      /\ waiting.wanted = m.wanted /\ waiting.seen = "full"
  BY <1>3 DEF Fields
<1> HIDE DEF waiting
<1>6. Progress(charging) /\ Progress(bright) /\ Progress(waiting)
  BY <1>1, <1>3, <1>4, <1>5 DEF Progress
<1>7. Good(m, charging) /\ Good(m, bright) /\ Good(m, waiting)
  BY <1>1, <1>3, <1>4, <1>5, <1>6, GoingOnGood DEF States
<1> QED
  BY <1>2, <1>7, AbandonGood

LEMMA WaitingUnplugGood ==
  ASSUME NEW m, GuiOK(m), m.state = "WAITING_UNPLUG"
  PROVE  Good(m, WaitingUnplug(m))
<1>1. DOMAIN m = Fields /\ m.burners = "none" /\ m.seen = "full"
  BY DEF GuiOK, AtRest, Progress
<1> DEFINE burning == [Send(StartBurners(TransitionTo(m, "PHASE2_DISCHARGING")), 2)
                         EXCEPT !.backlight = IF m.percentage < 1 THEN 1 ELSE m.percentage,
                                !.overruled = FALSE]
           bright == Bright(m)
<1>2. WaitingUnplug(m) \in {burning, bright}
  BY DEF WaitingUnplug
<1>3. /\ DOMAIN burning = Fields /\ burning.state = "PHASE2_DISCHARGING"
      /\ burning.calibrated = m.calibrated /\ burning.active = m.active
      /\ burning.original = m.original
      /\ burning.wanted = m.wanted /\ burning.seen = m.seen
  BY <1>1 DEF Send, StartBurners, TransitionTo, Fields
<1>4. /\ DOMAIN bright = Fields /\ bright.state = m.state /\ bright.burners = m.burners
      /\ bright.calibrated = m.calibrated /\ bright.active = m.active
      /\ bright.original = m.original
      /\ bright.wanted = m.wanted /\ bright.seen = m.seen
  BY <1>1 DEF Bright, Fields
<1> HIDE DEF burning, bright
<1>5. Progress(burning) /\ Progress(bright)
  BY <1>1, <1>3, <1>4 DEF Progress
<1>6. Good(m, burning) /\ Good(m, bright)
  BY <1>1, <1>3, <1>4, <1>5, GoingOnGood DEF States
<1> QED
  BY <1>2, <1>6

LEMMA Phase2Good ==
  ASSUME NEW m, GuiOK(m), m.state = "PHASE2_DISCHARGING"
  PROVE  Good(m, Phase2(m))
<1>1. DOMAIN m = Fields /\ m.seen = "full"
  BY DEF GuiOK, Progress
<1> DEFINE still == StopBurners(m)
           empty == [TransitionTo(Bright(Send(still, 3)), "WAITING_PLUG")
                       EXCEPT !.seen = IF @ = "full" THEN "empty" ELSE @]
<1>2. \/ Phase2(m) = Abandon(m)
      \/ still.hung /\ Phase2(m) = still
      \/ ~still.hung /\ Phase2(m) = empty
      \/ Phase2(m) = m
  BY DEF Phase2
<1>3. /\ DOMAIN still = Fields /\ still.state = m.state
      /\ still.calibrated = m.calibrated /\ still.active = m.active /\ still.original = m.original
      /\ still.wanted = m.wanted /\ still.seen = "full"
      /\ ~still.hung => still.burners = "none"
  BY <1>1 DEF StopBurners, Fields
<1> HIDE DEF still
<1>4. /\ DOMAIN empty = Fields /\ empty.state = "WAITING_PLUG" /\ empty.burners = still.burners
      /\ empty.calibrated = m.calibrated /\ empty.active = m.active /\ empty.original = m.original
      /\ empty.wanted = m.wanted /\ empty.seen = "empty"
  BY <1>1, <1>3 DEF TransitionTo, Bright, Send, Fields
<1> HIDE DEF empty
<1>5. Progress(still) /\ Progress(empty) /\ Progress(m)
  BY <1>1, <1>3, <1>4 DEF Progress
<1>6. Good(m, still) /\ (~still.hung => Good(m, empty)) /\ Good(m, m)
  BY <1>1, <1>3, <1>4, <1>5, GoingOnGood DEF States
<1> QED
  BY <1>2, <1>6, AbandonGood

LEMMA WaitingPlugGood ==
  ASSUME NEW m, GuiOK(m), m.state = "WAITING_PLUG"
  PROVE  Good(m, WaitingPlug(m))
<1>1. DOMAIN m = Fields /\ m.burners = "none" /\ m.seen = "empty"
  BY DEF GuiOK, AtRest, Progress
<1> DEFINE plugged == TransitionTo(m, "PHASE3_CHARGING")
           bright == Bright(m)
           asking == [Bright(m) EXCEPT !.asked = TRUE]
<1>2. WaitingPlug(m) \in {plugged, bright, asking}
  BY DEF WaitingPlug
<1>3. ASSUME NEW n \in {plugged, bright, asking}
      PROVE  /\ DOMAIN n = Fields /\ n.state \in {"WAITING_PLUG", "PHASE3_CHARGING"}
             /\ n.burners = m.burners /\ n.calibrated = m.calibrated /\ n.active = m.active
             /\ n.original = m.original
             /\ n.wanted = m.wanted /\ n.seen = m.seen
  <2>1. CASE n = plugged
    BY <1>1, <2>1 DEF TransitionTo, Fields
  <2>2. CASE n = bright
    BY <1>1, <2>2 DEF Bright, Fields
  <2>3. CASE n = asking
    BY <1>1, <2>3 DEF Bright, Fields
  <2> QED
    BY <1>3, <2>1, <2>2, <2>3
<1> HIDE DEF plugged, bright, asking
<1>4. ASSUME NEW n \in {plugged, bright, asking}
      PROVE  Good(m, n)
  <2>1. Progress(n)
    BY <1>1, <1>3 DEF Progress
  <2> QED
    BY <1>1, <1>3, <2>1, GoingOnGood DEF States
<1> QED
  BY <1>2, <1>4

LEMMA Phase3Good ==
  ASSUME NEW m, GuiOK(m), m.state = "PHASE3_CHARGING"
  PROVE  Good(m, Phase3(m))
<1>1. Phase3(m) \in {Abandon(m), Complete(m), m}
  BY DEF Phase3
<1>2. Good(m, m)
  BY GoingOnGood DEF GuiOK, AtRest
<1> QED
  BY <1>1, <1>2, AbandonGood, CompleteGood

LEMMA PollGood ==
  ASSUME NEW m, GuiOK(m), Watched(m)
  PROVE  Good(m, OnBatteryStatusChanged(m))
<1>1. CASE m.state = "INACTIVE"
  BY <1>1 DEF OnBatteryStatusChanged, Good
<1>2. CASE m.state = "PHASE1_CHARGING"
  BY <1>2, Phase1Good DEF OnBatteryStatusChanged
<1>3. CASE m.state = "WAITING_UNPLUG"
  BY <1>3, WaitingUnplugGood DEF OnBatteryStatusChanged
<1>4. CASE m.state = "PHASE2_DISCHARGING"
  BY <1>4, Phase2Good DEF OnBatteryStatusChanged
<1>5. CASE m.state = "WAITING_PLUG"
  BY <1>5, WaitingPlugGood DEF OnBatteryStatusChanged
<1>6. CASE m.state = "PHASE3_CHARGING"
  BY <1>6, Phase3Good DEF OnBatteryStatusChanged
<1> QED
  BY <1>1, <1>2, <1>3, <1>4, <1>5, <1>6 DEF GuiOK, States
-----------------------------------------------------------------------------
(* The steps. *)

Cycle == gui'.calibrated > gui.calibrated => gui.seen = "empty"

\* A handler that is Good for the members, or for what it changed of them before it began.
LEMMA HandleOK ==
  ASSUME IInv, NEW m, m.calibrated = gui.calibrated, m.seen = gui.seen,
         NEW n, Good(m, n), Handle(n)
  PROVE  IInv' /\ Cycle
<1>1. gui' = [n EXCEPT !.sent = -1]
  BY DEF Handle
<1>2. Same(n, gui')
  BY <1>1 DEF Good, GuiOK, Same, Light, Kept, Fields
<1>3. GuiOK(gui') /\ Watched(gui') /\ gui'.calibrated = n.calibrated
  BY <1>2, SameKeeps DEF Good
<1>4. gui.calibrated \in Nat
  BY DEF IInv, GuiOK
<1> QED
  BY <1>3, <1>4 DEF IInv, Good, Cycle, GuiOK, AtRest, Progress, Watched

LEMMA CalmGood ==
  ASSUME NEW m, GuiOK(m), Watched(m), NEW n, Same(m, n)
  PROVE  Good(m, n)
BY SameKeeps DEF Good

LEMMA StartCancelOK ==
  ASSUME IInv, Start \/ Cancel
  PROVE  IInv' /\ Cycle
<1>1. CASE Start
  BY <1>1, StartGood, HandleOK DEF Start, IInv
<1>2. CASE Cancel
  <2>1. gui.state # "INACTIVE"
    BY <1>2 DEF Cancel, IInv, GuiOK, AtRest
  <2> QED
    BY <1>2, <2>1, AbandonGood, HandleOK DEF Cancel, IInv
<1> QED
  BY <1>1, <1>2

LEMMA BatteryPollOK ==
  ASSUME IInv, BatteryPoll
  PROVE  IInv' /\ Cycle
<1> DEFINE m == ReadBattery(gui)
<1>1. ~asleep /\ GuiOK(gui) /\ Watched(gui)
  BY DEF BatteryPoll, Handle, IInv
<1>2. Same(gui, m)
  BY <1>1, ReadBatterySame DEF GuiOK
<1> HIDE DEF m
<1>3. GuiOK(m) /\ Watched(m) /\ m.calibrated = gui.calibrated /\ m.seen = gui.seen
  BY <1>1, <1>2, SameKeeps
<1>4. Handle(OnBatteryStatusChanged(m))
  BY DEF BatteryPoll, m
<1> QED
  BY <1>3, <1>4, PollGood, HandleOK

LEMMA SingleShotOK ==
  ASSUME IInv, SingleShot
  PROVE  IInv' /\ Cycle
<1> DEFINE m == [gui EXCEPT !.shots = @ - 1]
           n == TransitionToWaitingUnplug(m)
<1>1. ~asleep /\ GuiOK(gui) /\ Watched(gui)
  BY DEF SingleShot, Handle, IInv
<1>2. DOMAIN m = Fields /\ \A f \in Fields \ {"shots"} : m[f] = gui[f]
  BY <1>1 DEF GuiOK, Fields
<1> HIDE DEF m
<1>3. /\ m.state = gui.state /\ m.overlay = gui.overlay
      /\ m.waitingForUnplug = gui.waitingForUnplug /\ m.original = gui.original
      /\ m.burners = gui.burners /\ m.active = gui.active /\ m.calibrated = gui.calibrated
      /\ m.idleTimer = gui.idleTimer /\ m.mprisTimer = gui.mprisTimer
      /\ m.batteryTimer = gui.batteryTimer /\ m.lidTimer = gui.lidTimer
      /\ m.backlight = gui.backlight /\ m.wanted = gui.wanted /\ m.seen = gui.seen
  BY <1>2 DEF Fields
<1>4. GuiOK(m) /\ Watched(m)
  BY <1>1, <1>2, <1>3 DEF GuiOK, AtRest, Progress, Watched
<1>5. Good(m, n)
  <2>1. CASE m.state = "PHASE1_CHARGING" /\ m.waitingForUnplug
    <3>1. /\ DOMAIN n = Fields /\ n.state = "WAITING_UNPLUG" /\ n.burners = m.burners
          /\ n.calibrated = m.calibrated /\ n.active = m.active
          /\ n.original = m.original /\ n.wanted = m.wanted /\ n.seen = m.seen
      BY <1>2, <2>1 DEF TransitionToWaitingUnplug, TransitionTo, Fields
    <3> HIDE DEF n
    <3>2. Progress(n) /\ m.burners = "none"
      BY <1>4, <2>1, <3>1 DEF GuiOK, Progress, AtRest
    <3> QED
      BY <1>4, <2>1, <3>1, <3>2, GoingOnGood DEF States
  <2>2. CASE ~(m.state = "PHASE1_CHARGING" /\ m.waitingForUnplug)
    BY <1>4, <2>2 DEF TransitionToWaitingUnplug, Good
  <2> QED
    BY <2>1, <2>2
<1>6. Handle(n)
  BY DEF SingleShot, n, m
<1> HIDE DEF n
<1> QED
  BY <1>3, <1>5, <1>6, HandleOK

\* Users change the brightness, which is theirs while there is no calibration, and profile.
LEMMA ChooseOK ==
  ASSUME IInv, ChooseBrightness \/ ChooseProfile
  PROVE  IInv' /\ Cycle
<1>1. ~asleep /\ GuiOK(gui) /\ Watched(gui)
  BY DEF ChooseBrightness, ChooseProfile, Handle, IInv
<1>2. CASE ChooseBrightness
  <2>1. PICK b \in Brightness :
          Handle([gui EXCEPT !.backlight = b, !.wanted = IF gui.state = "INACTIVE" THEN b ELSE @])
    BY <1>2 DEF ChooseBrightness
  <2> DEFINE n == [gui EXCEPT !.backlight = b, !.wanted = IF gui.state = "INACTIVE" THEN b ELSE @]
  <2>2. /\ DOMAIN n = Fields
        /\ \A f \in Fields \ {"backlight", "wanted"} : n[f] = gui[f]
        /\ gui.state = "INACTIVE" => n.backlight = n.wanted
        /\ gui.state # "INACTIVE" => n.wanted = gui.wanted
    BY <1>1 DEF GuiOK, Fields
  <2> HIDE DEF n
  <2>3. /\ n.state = gui.state /\ n.overlay = gui.overlay
        /\ n.waitingForUnplug = gui.waitingForUnplug /\ n.original = gui.original
        /\ n.burners = gui.burners /\ n.active = gui.active /\ n.calibrated = gui.calibrated
        /\ n.idleTimer = gui.idleTimer /\ n.mprisTimer = gui.mprisTimer
        /\ n.batteryTimer = gui.batteryTimer /\ n.lidTimer = gui.lidTimer /\ n.seen = gui.seen
    BY <2>2 DEF Fields
  <2>4. GuiOK(n) /\ Watched(n)
    BY <1>1, <2>2, <2>3 DEF GuiOK, AtRest, Progress, Watched
  <2>5. Good(gui, n) /\ Handle(n)
    BY <2>1, <2>3, <2>4 DEF Good, n
  <2> QED
    BY <2>5, HandleOK
<1>3. CASE ChooseProfile
  <2>1. PICK profile \in 0..2 : Handle(SetProfile([gui EXCEPT !.overruled = TRUE], profile))
    BY <1>3 DEF ChooseProfile
  <2> DEFINE n == [gui EXCEPT !.overruled = TRUE]
  <2>2. Good(gui, n) /\ n.calibrated = gui.calibrated /\ n.seen = gui.seen
    <3>1. DOMAIN n = Fields /\ \A f \in Fields \ {"overruled"} : n[f] = gui[f]
      BY <1>1 DEF GuiOK, Fields
    <3> HIDE DEF n
    <3>2. /\ n.state = gui.state /\ n.overlay = gui.overlay
          /\ n.waitingForUnplug = gui.waitingForUnplug /\ n.original = gui.original
          /\ n.burners = gui.burners /\ n.active = gui.active /\ n.calibrated = gui.calibrated
          /\ n.idleTimer = gui.idleTimer /\ n.mprisTimer = gui.mprisTimer
          /\ n.batteryTimer = gui.batteryTimer /\ n.lidTimer = gui.lidTimer
          /\ n.backlight = gui.backlight /\ n.wanted = gui.wanted /\ n.seen = gui.seen
      BY <3>1 DEF Fields
    <3> QED
      BY <1>1, <3>1, <3>2 DEF Good, GuiOK, AtRest, Progress, Watched
  <2> HIDE DEF n
  <2>3. Good(n, SetProfile(n, profile))
    BY <2>2, SetProfileSame, CalmGood DEF Good, GuiOK
  <2> QED
    BY <2>1, <2>2, <2>3, HandleOK DEF n
<1> QED
  BY <1>2, <1>3

\* A sleep stops two timers, which nobody needs before the machine wakes up.
LEMMA SleepOK ==
  ASSUME IInv, Sleep
  PROVE  IInv' /\ Cycle
<1> DEFINE still == [gui EXCEPT !.idleTimer = FALSE, !.batteryTimer = FALSE,
                                !.asked = FALSE, !.overruled = TRUE]
           n == IF minimal THEN SetProfile(still, 3) ELSE still
<1>1. GuiOK(gui) /\ asleep' = TRUE
  BY DEF Sleep, IInv
<1>2. /\ DOMAIN still = Fields
      /\ \A f \in Fields \ {"idleTimer", "batteryTimer", "asked", "overruled"} : still[f] = gui[f]
  BY <1>1 DEF GuiOK, Fields
<1>3. gui' = [n EXCEPT !.sent = -1]
  BY DEF Sleep, Handle
<1> HIDE DEF still
<1>4. /\ still.state = gui.state /\ still.overlay = gui.overlay
      /\ still.waitingForUnplug = gui.waitingForUnplug /\ still.original = gui.original
      /\ still.burners = gui.burners /\ still.active = gui.active
      /\ still.calibrated = gui.calibrated /\ still.mprisTimer = gui.mprisTimer
      /\ still.lidTimer = gui.lidTimer /\ still.backlight = gui.backlight
      /\ still.wanted = gui.wanted /\ still.seen = gui.seen
  BY <1>2 DEF Fields
<1>5. GuiOK(still)
  BY <1>1, <1>2, <1>4 DEF GuiOK, AtRest, Progress
<1>6. Same(still, n)
  <2>1. Same(still, still)
    BY <1>2 DEF Same, Light
  <2> QED
    BY <1>2, <2>1, SetProfileSame
<1> HIDE DEF n
<1>7. Same(n, gui')
  BY <1>3, <1>6 DEF Same, Light, Kept, Fields
<1>8. GuiOK(gui') /\ gui'.calibrated = gui.calibrated
  BY <1>4, <1>5, <1>6, <1>7, SameChain, SameKeeps
<1> QED
  BY <1>1, <1>8 DEF IInv, Cycle, GuiOK

LEMMA WakeOK ==
  ASSUME IInv, Wake
  PROVE  IInv' /\ Cycle
<1> DEFINE waking == [gui EXCEPT !.idleTimer = TRUE, !.mprisTimer = TRUE, !.batteryTimer = TRUE]
           m == AdjustProfile(waking)
<1>1. GuiOK(gui)
  BY DEF IInv
<1>2. /\ DOMAIN waking = Fields /\ waking.idleTimer /\ waking.mprisTimer /\ waking.batteryTimer
      /\ \A f \in Fields \ {"idleTimer", "mprisTimer", "batteryTimer"} : waking[f] = gui[f]
  BY <1>1 DEF GuiOK, Fields
<1>3. gui' = [m EXCEPT !.sent = -1]
  BY DEF Wake
<1> HIDE DEF waking
<1>4. /\ waking.state = gui.state /\ waking.overlay = gui.overlay
      /\ waking.waitingForUnplug = gui.waitingForUnplug /\ waking.original = gui.original
      /\ waking.burners = gui.burners /\ waking.active = gui.active
      /\ waking.calibrated = gui.calibrated /\ waking.lidTimer = gui.lidTimer
      /\ waking.backlight = gui.backlight /\ waking.wanted = gui.wanted /\ waking.seen = gui.seen
  BY <1>2 DEF Fields
<1>5. GuiOK(waking) /\ Watched(waking)
  BY <1>1, <1>2, <1>4 DEF GuiOK, AtRest, Progress, Watched
<1>6. Same(waking, m)
  BY <1>2, AdjustProfileSame
<1> HIDE DEF m
<1>7. Same(m, gui')
  BY <1>3, <1>6 DEF Same, Light, Kept, Fields
<1>8. GuiOK(gui') /\ Watched(gui') /\ gui'.calibrated = gui.calibrated
  BY <1>4, <1>5, <1>6, <1>7, SameChain, SameKeeps
<1> QED
  BY <1>8 DEF IInv, Cycle, GuiOK

LEMMA BurnersBeginOK ==
  ASSUME IInv, BurnersBegin
  PROVE  IInv' /\ Cycle
<1>1. /\ gui' = [gui EXCEPT !.burners = "running"] /\ gui.burners # "none"
      /\ asleep' = asleep /\ GuiOK(gui)
  BY DEF BurnersBegin, IInv
<1>2. DOMAIN gui' = Fields /\ \A f \in Fields \ {"burners"} : gui'[f] = gui[f]
  BY <1>1 DEF GuiOK, Fields
<1>3. /\ gui'.state = gui.state /\ gui'.overlay = gui.overlay
      /\ gui'.waitingForUnplug = gui.waitingForUnplug /\ gui'.original = gui.original
      /\ gui'.active = gui.active /\ gui'.calibrated = gui.calibrated
      /\ gui'.idleTimer = gui.idleTimer /\ gui'.mprisTimer = gui.mprisTimer
      /\ gui'.batteryTimer = gui.batteryTimer /\ gui'.lidTimer = gui.lidTimer
      /\ gui'.backlight = gui.backlight /\ gui'.wanted = gui.wanted /\ gui'.seen = gui.seen
  BY <1>2 DEF Fields
<1> QED
  BY <1>1, <1>2, <1>3 DEF IInv, Cycle, GuiOK, AtRest, Progress, Watched

LEMMA StepOK == IInv /\ [Next]_vars => IInv' /\ Cycle
<1> SUFFICES ASSUME IInv, [Next]_vars PROVE IInv' /\ Cycle
  OBVIOUS
<1>1. CASE Plug \/ ChargeMoves \/ UNCHANGED vars
  <2>1. gui' = gui /\ asleep' = asleep
    BY <1>1 DEF Plug, ChargeMoves, vars
  <2> QED
    BY <2>1 DEF IInv, Cycle, GuiOK
<1> QED
  BY <1>1, StartCancelOK, BatteryPollOK, SingleShotOK, BurnersBeginOK, ChooseOK, SleepOK, WakeOK
     DEF Next

LEMMA InitOK == Init => IInv
<1> SUFFICES ASSUME Init PROVE IInv
  OBVIOUS
<1>1. /\ DOMAIN gui = Fields /\ gui.state = "INACTIVE" /\ gui.calibrated = 0
      /\ gui.burners = "none" /\ ~gui.overlay /\ ~gui.active /\ gui.mprisTimer /\ gui.lidTimer
      /\ gui.idleTimer /\ gui.batteryTimer /\ gui.backlight = gui.wanted
  BY DEF Init, Fields
<1> QED
  BY <1>1 DEF IInv, GuiOK, AtRest, Progress, Watched, States

LEMMA Invariance == Spec => []IInv
BY InitOK, StepOK, PTL DEF Spec

-----------------------------------------------------------------------------
\* The processor is burdened in the discharge only, however a calibration ends.
THEOREM CalibrationBurns == Spec => []BurnersOnlyToDischarge
<1>1. IInv => BurnersOnlyToDischarge
  BY DEF IInv, GuiOK, AtRest, BurnersOnlyToDischarge
<1> QED
  BY <1>1, Invariance, PTL

\* Whether it is completed, cancelled or aborted, and wherever sleeps fall: after a
\* calibration all timers run and the brightness is the user's, or the one to which a
\* critical warning has dimmed it.
THEOREM CalibrationGivesBack == Spec => []EndGivesBack
<1>1. IInv => EndGivesBack
  BY DEF IInv, GuiOK, AtRest, Watched, EndGivesBack, IdleWatchedAgain, BrightnessBack
<1> QED
  BY <1>1, Invariance, PTL

\* No calibration is complete that skipped a part, or took one from an earlier calibration.
THEOREM CalibrationCycle == Spec => CompleteCycle
<1>1. Cycle /\ [Next]_vars => [gui'.calibrated > gui.calibrated => gui.seen = "empty"]_vars
  BY DEF Cycle
<1> QED
  BY <1>1, Invariance, StepOK, PTL DEF Spec, CompleteCycle
-----------------------------------------------------------------------------
(* The profile.  In the discharge nothing adjusts it: the warnings are     *)
(* silent while idle time is not watched, and a charger ends the phase.    *)

\* What the members are after a handler, with the command it has for the daemon.
Powered(n) ==
  /\ n.state # "INACTIVE" => n.active
  /\ n.state = "PHASE2_DISCHARGING" =>
       \/ n.hung
       \/ /\ n.chargingState = 0
          /\ n.sent = 2 \/ n.overruled \/ (n.sent = -1 /\ hardware = 2)

PowerInv ==
  /\ gui.sent = -1
  /\ asleep => gui.overruled
  /\ Powered(gui)

LEMMA HandlePowered ==
  ASSUME IInv, PowerInv, NEW n, DOMAIN n = Fields, Powered(n), Handle(n), asleep' => n.overruled
  PROVE  PowerInv'
<1>1. gui' = [n EXCEPT !.sent = -1] /\ hardware' = IF n.sent = -1 THEN hardware ELSE n.sent
  BY DEF Handle
<1>2. /\ gui'.sent = -1 /\ gui'.state = n.state /\ gui'.active = n.active
      /\ gui'.hung = n.hung /\ gui'.chargingState = n.chargingState
      /\ gui'.overruled = n.overruled
  BY <1>1 DEF Fields
<1> QED
  BY <1>1, <1>2 DEF PowerInv, Powered

\* What is kept of the members by reading the battery and setting a profile.
LEMMA SamePower ==
  ASSUME NEW m, NEW n, Same(m, n)
  PROVE  /\ DOMAIN n = Fields
         /\ n.state = m.state /\ n.active = m.active /\ n.hung = m.hung
         /\ n.overruled = m.overruled
BY DEF Same, Light, Kept, Fields

LEMMA AbandonPowered ==
  ASSUME NEW m, DOMAIN m = Fields, m.active
  PROVE  DOMAIN Abandon(m) = Fields /\ Powered(Abandon(m))
<1> DEFINE still == StopBurners(m)
           ended == [Send(still, 0) EXCEPT !.overlay = FALSE, !.state = "INACTIVE",
                                           !.backlight = m.original]
           idle == [ended EXCEPT !.active = FALSE, !.idleTimer = TRUE, !.mprisTimer = TRUE,
                                 !.batteryTimer = TRUE, !.lidTimer = TRUE]
<1>1. DOMAIN still = Fields /\ still.active
  BY DEF StopBurners, Fields
<1>2. CASE still.hung
  BY <1>1, <1>2 DEF Abandon, Powered
<1>3. CASE ~still.hung
  <2>1. Abandon(m) = ReadBattery(idle)
    BY <1>3 DEF Abandon, ResumeIdle
  <2> HIDE DEF still
  <2>2. DOMAIN ended = Fields /\ ended.state = "INACTIVE"
    BY <1>1 DEF Send, Fields
  <2> HIDE DEF ended
  <2>3. DOMAIN idle = Fields /\ idle.state = "INACTIVE"
    BY <2>2 DEF Fields
  <2> HIDE DEF idle
  <2>4. Same(idle, ReadBattery(idle))
    BY <2>3, ReadBatterySame
  <2> QED
    BY <2>1, <2>3, <2>4, SamePower DEF Powered
<1> QED
  BY <1>2, <1>3

LEMMA CompletePowered ==
  ASSUME NEW m, DOMAIN m = Fields
  PROVE  DOMAIN Complete(m) = Fields /\ Powered(Complete(m))
<1> DEFINE ended == [Send(m, 0) EXCEPT !.overlay = FALSE, !.state = "INACTIVE",
                                       !.backlight = m.original]
           idle == [ended EXCEPT !.active = FALSE, !.idleTimer = TRUE, !.mprisTimer = TRUE,
                                 !.batteryTimer = TRUE, !.lidTimer = TRUE]
           resumed == ReadBattery(idle)
<1>1. DOMAIN ended = Fields /\ ended.state = "INACTIVE"
  BY DEF Send, Fields
<1>2. Complete(m) = [resumed EXCEPT !.calibrated = @ + 1]
  BY DEF Complete, ResumeIdle
<1> HIDE DEF ended
<1>3. DOMAIN idle = Fields /\ idle.state = "INACTIVE"
  BY <1>1 DEF Fields
<1> HIDE DEF idle
<1>4. DOMAIN resumed = Fields /\ resumed.state = "INACTIVE"
  BY <1>3, ReadBatterySame, SamePower
<1> HIDE DEF resumed
<1> QED
  BY <1>2, <1>4 DEF Powered, Fields

\* The battery is read before every phase's handler.  While the discharge goes on it has
\* nothing to tell the daemon.
LEMMA ReadQuietly ==
  ASSUME NEW m, DOMAIN m = Fields, m.active
  PROVE  LET n == ReadBattery(m)
         IN /\ n.chargingState \in 0..2
            /\ n.chargingState = 0 /\ m.chargingState = 0 => n.sent = m.sent
<1> DEFINE state == IF mains = 0 THEN 0 ELSE IF charge = 100 THEN 2 ELSE 1
           read == [m EXCEPT !.chargingState = state, !.percentage = charge]
           adjusted == AdjustProfile(read)
           quiet(r) == [r EXCEPT !.warnCrit = @ /\ r.percentage <= Critical /\ r.chargingState = 0]
<1>1. state \in 0..2 /\ DOMAIN read = Fields /\ read.active /\ read.chargingState = state
      /\ read.sent = m.sent
  BY DEF Fields
<1>2. ReadBattery(m) = Warn(IF (state = 0) # (m.chargingState = 0) THEN adjusted ELSE read)
  BY DEF ReadBattery
<1> HIDE DEF read, state
<1>3. DOMAIN adjusted = Fields /\ adjusted.active /\ adjusted.chargingState = state
  <2>1. Same(read, adjusted)
    BY <1>1, AdjustProfileSame
  <2>2. adjusted.chargingState = read.chargingState
    BY <1>1 DEF AdjustProfile, SetProfile, Send, Fields
  <2> QED
    BY <1>1, <2>1, <2>2, SamePower
<1> HIDE DEF adjusted
<1>4. ASSUME NEW r, DOMAIN r = Fields, r.active
      PROVE  Warn(r).chargingState = r.chargingState /\ Warn(r).sent = r.sent
  BY <1>4 DEF Warn, Fields
<1> QED
  BY <1>1, <1>2, <1>3, <1>4

LEMMA PollPowered ==
  ASSUME PowerInv, GuiOK(gui)
  PROVE  LET n == OnBatteryStatusChanged(ReadBattery(gui))
         IN DOMAIN n = Fields /\ Powered(n)
<1> DEFINE m == ReadBattery(gui)
           n == OnBatteryStatusChanged(m)
<1> SUFFICES DOMAIN n = Fields /\ Powered(n)
  OBVIOUS
<1>1. DOMAIN gui = Fields /\ Same(gui, m)
  BY ReadBatterySame DEF GuiOK
<1>2. /\ DOMAIN m = Fields /\ m.state = gui.state /\ m.active = gui.active
      /\ m.hung = gui.hung /\ m.overruled = gui.overruled
  BY <1>1, SamePower
<1>3. gui.active => /\ m.chargingState \in 0..2
                    /\ m.chargingState = 0 /\ gui.chargingState = 0 => m.sent = gui.sent
  BY <1>1, ReadQuietly
<1>4. m.state \in States /\ (m.state # "INACTIVE" => m.active)
  BY <1>2 DEF GuiOK, PowerInv, Powered
<1> HIDE DEF m, n
<1>5. ASSUME NEW o, DOMAIN o = Fields, o.active, o.state # "PHASE2_DISCHARGING"
      PROVE  DOMAIN o = Fields /\ Powered(o)
  BY <1>5 DEF Powered
<1>6. CASE m.state = "INACTIVE"
  BY <1>2, <1>6 DEF OnBatteryStatusChanged, Powered, n
<1>7. CASE m.state = "PHASE1_CHARGING"
  <2> DEFINE charging == Bright(Send([m EXCEPT !.startedCharging = TRUE], 3))
             waiting == [charging EXCEPT !.waitingForUnplug = TRUE, !.shots = @ + 1,
                                         !.seen = "full"]
             bright == Bright(m)
  <2>1. n \in {waiting, charging, Abandon(m), bright}
    BY <1>7 DEF OnBatteryStatusChanged, Phase1, n
  <2>2. ASSUME NEW o \in {waiting, charging, bright}
        PROVE  DOMAIN o = Fields /\ o.active /\ o.state # "PHASE2_DISCHARGING"
    BY <1>2, <1>4, <1>7, <2>2 DEF Bright, Send, Fields
  <2> HIDE DEF charging, waiting, bright
  <2> QED
    BY <1>2, <1>4, <1>5, <1>7, <2>1, <2>2, AbandonPowered
<1>8. CASE m.state = "WAITING_UNPLUG"
  <2> DEFINE burning == [Send(StartBurners(TransitionTo(m, "PHASE2_DISCHARGING")), 2)
                           EXCEPT !.backlight = IF m.percentage < 1 THEN 1 ELSE m.percentage,
                                  !.overruled = FALSE]
             bright == Bright(m)
  <2>1. (n = burning /\ m.chargingState = 0) \/ n = bright
    BY <1>8 DEF OnBatteryStatusChanged, WaitingUnplug, n
  <2>2. /\ DOMAIN burning = Fields /\ burning.active /\ burning.sent = 2
        /\ burning.chargingState = m.chargingState
    BY <1>2, <1>4, <1>8 DEF Send, StartBurners, TransitionTo, Fields
  <2>3. DOMAIN bright = Fields /\ bright.active /\ bright.state # "PHASE2_DISCHARGING"
    BY <1>2, <1>4, <1>8 DEF Bright, Fields
  <2> HIDE DEF burning, bright
  <2>4. m.chargingState = 0 => Powered(burning)
    BY <2>2 DEF Powered
  <2> QED
    BY <1>5, <2>1, <2>2, <2>3, <2>4
<1>9. CASE m.state = "PHASE2_DISCHARGING"
  <2> DEFINE still == StopBurners(m)
             empty == [TransitionTo(Bright(Send(still, 3)), "WAITING_PLUG")
                         EXCEPT !.seen = IF @ = "full" THEN "empty" ELSE @]
  <2>1. \/ n = Abandon(m)
        \/ still.hung /\ n = still
        \/ n = empty
        \/ ~Charging(m) /\ n = m
    BY <1>9 DEF OnBatteryStatusChanged, Phase2, n
  <2>2. DOMAIN still = Fields /\ still.active
    BY <1>2, <1>4, <1>9 DEF StopBurners, Fields
  <2> HIDE DEF still
  <2>3. DOMAIN empty = Fields /\ empty.active /\ empty.state # "PHASE2_DISCHARGING"
    BY <2>2 DEF TransitionTo, Bright, Send, Fields
  <2> HIDE DEF empty
  <2>4. still.hung => Powered(still)
    BY <2>2 DEF Powered
  <2>5. ~Charging(m) => Powered(m)
    <3>1. ~Charging(m) => m.chargingState = 0
      BY <1>2, <1>3, <1>4, <1>9 DEF Charging
    <3> QED
      BY <1>2, <1>3, <1>4, <1>9, <3>1 DEF PowerInv, Powered
  <2> QED
    BY <1>2, <1>4, <1>5, <1>9, <2>1, <2>2, <2>3, <2>4, <2>5, AbandonPowered
<1>10. CASE m.state = "WAITING_PLUG"
  <2> DEFINE plugged == TransitionTo(m, "PHASE3_CHARGING")
             bright == Bright(m)
             asking == [Bright(m) EXCEPT !.asked = TRUE]
  <2>1. n \in {plugged, bright, asking}
    BY <1>10 DEF OnBatteryStatusChanged, WaitingPlug, n
  <2>2. ASSUME NEW o \in {plugged, bright, asking}
        PROVE  DOMAIN o = Fields /\ o.active /\ o.state # "PHASE2_DISCHARGING"
    <3>1. CASE o = plugged
      BY <1>2, <1>4, <1>10, <3>1 DEF TransitionTo, Fields
    <3>2. CASE o \in {bright, asking}
      BY <1>2, <1>4, <1>10, <3>2 DEF Bright, Fields
    <3> QED
      BY <2>2, <3>1, <3>2
  <2> HIDE DEF plugged, bright, asking
  <2> QED
    BY <1>5, <2>1, <2>2
<1>11. CASE m.state = "PHASE3_CHARGING"
  <2>1. n \in {Abandon(m), Complete(m), m}
    BY <1>11 DEF OnBatteryStatusChanged, Phase3, n
  <2> QED
    BY <1>2, <1>4, <1>5, <1>11, <2>1, AbandonPowered, CompletePowered
<1> QED
  BY <1>4, <1>6, <1>7, <1>8, <1>9, <1>10, <1>11 DEF States

LEMMA PowerStep == IInv /\ PowerInv /\ [Next]_vars => PowerInv'
<1> SUFFICES ASSUME IInv, PowerInv, [Next]_vars PROVE PowerInv'
  OBVIOUS
<1>1. DOMAIN gui = Fields /\ GuiOK(gui)
  BY DEF IInv, GuiOK
<1>2. ASSUME NEW n, DOMAIN n = Fields, Powered(n), Handle(n), asleep' = asleep
      PROVE  PowerInv'
  <2>1. ~asleep
    BY <1>2 DEF Handle
  <2> QED
    BY <1>2, <2>1, HandlePowered
<1>3. CASE Start
  <2> DEFINE n == StartCalibration(gui)
  <2>1. DOMAIN n = Fields /\ n.active /\ n.state = "PHASE1_CHARGING"
    BY <1>1 DEF StartCalibration, SuspendIdle, TransitionTo, Fields
  <2>2. Handle(n) /\ asleep' = asleep
    BY <1>3 DEF Start
  <2> HIDE DEF n
  <2>3. Powered(n)
    BY <2>1 DEF Powered
  <2> QED
    BY <1>2, <2>1, <2>2, <2>3
<1>4. CASE Cancel
  <2>1. gui.active
    BY <1>4 DEF Cancel, IInv, GuiOK, AtRest, PowerInv, Powered
  <2>2. Handle(Abandon(gui)) /\ asleep' = asleep
    BY <1>4 DEF Cancel
  <2> QED
    BY <1>1, <1>2, <2>1, <2>2, AbandonPowered
<1>5. CASE BatteryPoll
  <2>1. Handle(OnBatteryStatusChanged(ReadBattery(gui))) /\ asleep' = asleep
    BY <1>5 DEF BatteryPoll, Alone
  <2> QED
    BY <1>1, <1>2, <2>1, PollPowered
<1>6. CASE SingleShot
  <2> DEFINE m == [gui EXCEPT !.shots = @ - 1]
             n == TransitionToWaitingUnplug(m)
  <2>1. Handle(n) /\ asleep' = asleep
    BY <1>6 DEF SingleShot, Alone
  <2>2. /\ DOMAIN m = Fields /\ m.state = gui.state /\ m.active = gui.active
        /\ m.hung = gui.hung /\ m.overruled = gui.overruled
        /\ m.chargingState = gui.chargingState /\ m.sent = gui.sent
    BY <1>1 DEF Fields
  <2> HIDE DEF m
  <2>3. \/ n = m
        \/ DOMAIN n = Fields /\ n.active = m.active /\ n.state = "WAITING_UNPLUG"
           /\ m.state = "PHASE1_CHARGING"
    BY <2>2 DEF TransitionToWaitingUnplug, TransitionTo, Fields
  <2> HIDE DEF n
  <2>4. DOMAIN n = Fields /\ Powered(n)
    BY <2>2, <2>3 DEF PowerInv, Powered
  <2> QED
    BY <1>2, <2>1, <2>4
<1>7. CASE BurnersBegin
  <2>1. gui' = [gui EXCEPT !.burners = "running"] /\ UNCHANGED <<hardware, asleep>>
    BY <1>7 DEF BurnersBegin
  <2> QED
    BY <1>1, <2>1 DEF PowerInv, Powered, Fields
<1>8. CASE ChooseBrightness
  <2>1. PICK b \in Brightness :
          Handle([gui EXCEPT !.backlight = b, !.wanted = IF gui.state = "INACTIVE" THEN b ELSE @])
    BY <1>8 DEF ChooseBrightness
  <2> DEFINE n == [gui EXCEPT !.backlight = b, !.wanted = IF gui.state = "INACTIVE" THEN b ELSE @]
  <2>2. DOMAIN n = Fields /\ Powered(n)
    BY <1>1 DEF PowerInv, Powered, Fields
  <2>3. asleep' = asleep
    BY <1>8 DEF ChooseBrightness
  <2> HIDE DEF n
  <2> QED
    BY <1>2, <2>1, <2>2, <2>3 DEF n
<1>9. ASSUME NEW m, DOMAIN m = Fields, m.overruled, m.state = gui.state, m.active = gui.active,
             m.hung = gui.hung, m.chargingState = gui.chargingState,
             NEW profile
      PROVE  LET n == SetProfile(m, profile)
             IN DOMAIN n = Fields /\ Powered(n) /\ n.overruled
  <2> DEFINE n == SetProfile(m, profile)
  <2>1. Same(m, n)
    BY <1>9, SetProfileSame
  <2>2. n.chargingState = m.chargingState
    BY <1>9 DEF SetProfile, Send, Fields
  <2> HIDE DEF n
  <2>3. DOMAIN n = Fields /\ n.state = m.state /\ n.active = m.active /\ n.hung = m.hung
        /\ n.overruled = m.overruled
    BY <2>1, SamePower
  <2>4. Powered(n)
    BY <1>9, <2>2, <2>3 DEF PowerInv, Powered
  <2> QED
    BY <1>9, <2>3, <2>4 DEF n
<1>10. CASE ChooseProfile
  <2>1. PICK profile \in 0..2 : Handle(SetProfile([gui EXCEPT !.overruled = TRUE], profile))
    BY <1>10 DEF ChooseProfile
  <2> DEFINE m == [gui EXCEPT !.overruled = TRUE]
  <2>2. /\ DOMAIN m = Fields /\ m.overruled /\ m.state = gui.state /\ m.active = gui.active
        /\ m.hung = gui.hung /\ m.chargingState = gui.chargingState
    BY <1>1 DEF Fields
  <2>3. asleep' = asleep
    BY <1>10 DEF ChooseProfile
  <2>4. Handle(SetProfile(m, profile))
    BY <2>1
  <2> HIDE DEF m
  <2> QED
    BY <1>2, <1>9, <2>2, <2>3, <2>4
<1>11. CASE Sleep
  <2> DEFINE m == [gui EXCEPT !.idleTimer = FALSE, !.batteryTimer = FALSE,
                              !.asked = FALSE, !.overruled = TRUE]
             n == IF minimal THEN SetProfile(m, 3) ELSE m
  <2>1. Handle(n)
    BY <1>11 DEF Sleep
  <2>2. /\ DOMAIN m = Fields /\ m.overruled /\ m.state = gui.state /\ m.active = gui.active
        /\ m.hung = gui.hung /\ m.chargingState = gui.chargingState
    BY <1>1 DEF Fields
  <2> HIDE DEF m
  <2>3. Powered(m)
    BY <2>2 DEF PowerInv, Powered
  <2>4. DOMAIN n = Fields /\ Powered(n) /\ n.overruled
    BY <1>9, <2>2, <2>3
  <2> HIDE DEF n
  <2> QED
    BY <2>1, <2>4, HandlePowered
<1>12. CASE Wake
  <2> DEFINE waking == [gui EXCEPT !.idleTimer = TRUE, !.mprisTimer = TRUE, !.batteryTimer = TRUE]
             m == AdjustProfile(waking)
  <2>1. gui' = [m EXCEPT !.sent = -1] /\ asleep /\ asleep' = FALSE
    BY <1>12 DEF Wake
  <2>2. /\ DOMAIN waking = Fields /\ waking.overruled = gui.overruled
        /\ waking.state = gui.state /\ waking.active = gui.active
        /\ waking.hung = gui.hung /\ waking.chargingState = gui.chargingState
    BY <1>1 DEF Fields
  <2> HIDE DEF waking
  <2>3. m.chargingState = waking.chargingState
    BY <2>2 DEF AdjustProfile, SetProfile, Send, Fields
  <2>4. /\ DOMAIN m = Fields /\ m.state = waking.state /\ m.active = waking.active
        /\ m.hung = waking.hung /\ m.overruled = waking.overruled
    BY <2>2, AdjustProfileSame, SamePower
  <2> HIDE DEF m
  <2>5. /\ gui'.sent = -1 /\ gui'.state = gui.state /\ gui'.active = gui.active
        /\ gui'.hung = gui.hung /\ gui'.overruled = gui.overruled
        /\ gui'.chargingState = gui.chargingState
    BY <2>1, <2>2, <2>3, <2>4 DEF Fields
  <2> QED
    BY <2>1, <2>5 DEF PowerInv, Powered
<1>13. CASE Plug \/ ChargeMoves \/ UNCHANGED vars
  BY <1>13 DEF Plug, ChargeMoves, vars, PowerInv, Powered
<1> QED
  BY <1>3, <1>4, <1>5, <1>6, <1>7, <1>8, <1>10, <1>11, <1>12, <1>13 DEF Next

\* However low the charge gets and whatever is warned of, and wherever sleeps fall: in the
\* discharge only a choice of the user or a sleep takes the full power away.
THEOREM CalibrationFullPower == Spec => []FullPower
<1>1. Init => PowerInv
  BY DEF Init, PowerInv, Powered
<1>2. PowerInv => FullPower
  BY DEF PowerInv, Powered, FullPower
<1> QED
  BY <1>1, <1>2, PowerStep, Invariance, PTL DEF Spec

-----------------------------------------------------------------------------
(* The types.  A calibration leaves at most one single shot behind, so     *)
(* there are no more of them than acts of the user.                        *)

\* What reading the battery and setting a profile do change.
PowerTyped(m) ==
  /\ m.chargingState \in 0..2 /\ m.percentage \in Charges /\ m.reached \in Charges
  /\ m.lastHwProfile \in -1..3 /\ m.lastOpmode \in {0, 1} /\ m.sent \in -1..3

\* n acts have been: a phase that may still begin a single shot is one act behind.
Shots(m, n) ==
  /\ m.shots \in Nat /\ m.shots <= n
  /\ m.state = "PHASE1_CHARGING" /\ ~m.waitingForUnplug => m.shots < n

Typed(m, n) ==
  /\ DOMAIN m = Fields /\ PowerTyped(m) /\ Shots(m, n)
  /\ m.state \in States /\ m.burners \in {"none", "created", "running"}
  /\ m.backlight \in 1..100 /\ m.original \in 1..100 /\ m.wanted \in 1..100
  /\ m.calibrated \in Nat /\ m.seen \in {"start", "full", "empty"}

TypeIInv ==
  /\ Typed(gui, events) /\ gui.sent = -1
  /\ hardware \in 0..3 /\ charge \in Charges /\ mains \in {0, 1}
  /\ events \in 0..EventBound

LEMMA SameTyped ==
  ASSUME NEW m, NEW n, NEW acts, Typed(m, acts), Same(m, n), PowerTyped(n)
  PROVE  Typed(n, acts)
<1>1. /\ n.state = m.state /\ n.waitingForUnplug = m.waitingForUnplug /\ n.shots = m.shots
      /\ n.burners = m.burners /\ n.original = m.original
      /\ n.calibrated = m.calibrated /\ n.seen = m.seen
      /\ DOMAIN n = Fields /\ Light(m, n)
  BY DEF Same, Kept, Fields
<1>2. n.backlight \in 1..100 /\ n.wanted \in 1..100
  BY <1>1 DEF Typed, Light
<1> QED
  BY <1>1, <1>2 DEF Typed, Shots

LEMMA SetProfilePower ==
  ASSUME NEW m, DOMAIN m = Fields, PowerTyped(m), NEW profile \in 0..3
  PROVE  PowerTyped(Send(m, profile)) /\ PowerTyped(SetProfile(m, profile))
<1>1. PowerTyped(Send(m, profile))
  BY DEF Send, PowerTyped, Fields
<1>2. PowerTyped(Send([m EXCEPT !.lastHwProfile = profile], profile))
  BY DEF Send, PowerTyped, Fields
<1> QED
  BY <1>1, <1>2 DEF SetProfile

LEMMA SendTyped ==
  ASSUME NEW m, NEW acts, Typed(m, acts), NEW profile \in 0..3
  PROVE  Typed(Send(m, profile), acts) /\ Typed(SetProfile(m, profile), acts)
<1>1. DOMAIN m = Fields /\ PowerTyped(m)
  BY DEF Typed
<1> QED
  BY <1>1, SetProfilePower, SendSame, SetProfileSame, SameTyped

LEMMA AdjustProfilePower ==
  ASSUME NEW m, DOMAIN m = Fields, PowerTyped(m)
  PROVE  PowerTyped(AdjustProfile(m))
<1> DEFINE opmode == IF m.chargingState = 0 THEN 0 ELSE 1
           known == [m EXCEPT !.lastOpmode = opmode,
                              !.lastHwProfile = IF opmode = m.lastOpmode THEN @ ELSE -1]
           profile == IF m.warnCrit THEN 3 ELSE Profile[m.chargingState]
<1>1. DOMAIN known = Fields /\ PowerTyped(known)
  BY DEF PowerTyped, Fields
<1>2. profile \in 0..3
  <2>1. Profile[m.chargingState] \in 0..3
    BY CalibrationAssumption DEF PowerTyped
  <2> QED
    BY <2>1
<1>3. AdjustProfile(m) = SetProfile(known, profile)
  BY DEF AdjustProfile
<1> HIDE DEF known, profile
<1> QED
  BY <1>1, <1>2, <1>3, SetProfilePower

LEMMA WarnPower ==
  ASSUME NEW m, DOMAIN m = Fields, PowerTyped(m)
  PROVE  PowerTyped(Warn(m))
<1> DEFINE low == m.percentage <= Critical /\ m.chargingState = 0
           due == m.percentage <= m.reached - XLevel(m.reached) \/ m.percentage <= 2
           dims == m.backlight > 40
           warned == [m EXCEPT !.warnCrit = TRUE, !.reached = m.percentage,
                               !.backlight = IF dims THEN 40 ELSE @,
                               !.wanted = IF dims THEN 40 ELSE @]
           quiet == [m EXCEPT !.warnCrit = @ /\ low /\ (m.active \/ ~due)]
<1>1. DOMAIN warned = Fields /\ PowerTyped(warned) /\ PowerTyped(quiet)
  BY DEF PowerTyped, Fields
<1>2. Warn(m) = AdjustProfile(warned) \/ Warn(m) = quiet
  BY DEF Warn, GiveWarning
<1> HIDE DEF warned, quiet
<1> QED
  BY <1>1, <1>2, AdjustProfilePower

\* A poll finds the charge and the charger as they are.
LEMMA ReadBatteryTyped ==
  ASSUME NEW m, NEW acts, Typed(m, acts), charge \in Charges
  PROVE  Typed(ReadBattery(m), acts)
<1> DEFINE state == IF mains = 0 THEN 0 ELSE IF charge = 100 THEN 2 ELSE 1
           read == [m EXCEPT !.chargingState = state, !.percentage = charge]
           adjusted == AdjustProfile(read)
<1>1. DOMAIN m = Fields
  BY DEF Typed
<1>2. DOMAIN read = Fields /\ PowerTyped(read)
  BY DEF Typed, PowerTyped, Fields
<1>3. ReadBattery(m) = Warn(adjusted) \/ ReadBattery(m) = Warn(read)
  BY DEF ReadBattery
<1> HIDE DEF read
<1>4. DOMAIN adjusted = Fields /\ PowerTyped(adjusted)
  BY <1>2, AdjustProfileSame, AdjustProfilePower DEF Same
<1> HIDE DEF adjusted
<1>5. PowerTyped(ReadBattery(m))
  BY <1>2, <1>3, <1>4, WarnPower
<1> QED
  BY <1>1, <1>5, ReadBatterySame, SameTyped

LEMMA ResumeIdleTyped ==
  ASSUME NEW m, NEW acts, Typed(m, acts), charge \in Charges
  PROVE  Typed(ResumeIdle(m), acts)
<1> DEFINE idle == [m EXCEPT !.active = FALSE, !.idleTimer = TRUE, !.mprisTimer = TRUE,
                             !.batteryTimer = TRUE, !.lidTimer = TRUE]
<1>1. Typed(idle, acts)
  BY DEF Typed, PowerTyped, Shots, Fields
<1>2. ResumeIdle(m) = ReadBattery(idle)
  BY DEF ResumeIdle
<1> HIDE DEF idle
<1> QED
  BY <1>1, <1>2, ReadBatteryTyped

LEMMA StopBurnersTyped ==
  ASSUME NEW m, NEW acts, Typed(m, acts)
  PROVE  Typed(StopBurners(m), acts)
BY DEF StopBurners, Typed, PowerTyped, Shots, Fields

LEMMA TransitionToTyped ==
  ASSUME NEW m, NEW acts, Typed(m, acts), NEW state \in States \ {"PHASE1_CHARGING"}
  PROVE  Typed(TransitionTo(m, state), acts)
BY DEF TransitionTo, Typed, PowerTyped, Shots, Fields

LEMMA BrightTyped ==
  ASSUME NEW m, NEW acts, Typed(m, acts)
  PROVE  Typed(Bright(m), acts)
BY DEF Bright, Typed, PowerTyped, Shots, Fields

\* A calibration begins with an act of the user, which its single shot may count on.
LEMMA StartTyped ==
  ASSUME NEW m, NEW acts \in Nat, Typed(m, acts)
  PROVE  Typed(StartCalibration(m), acts + 1)
<1> DEFINE n == StartCalibration(m)
<1>1. /\ DOMAIN n = Fields /\ n.state = "PHASE1_CHARGING" /\ n.shots = m.shots
      /\ n.chargingState = m.chargingState /\ n.percentage = m.percentage
      /\ n.lastHwProfile = m.lastHwProfile /\ n.lastOpmode = m.lastOpmode /\ n.sent = m.sent
      /\ n.reached = m.reached
      /\ n.burners = m.burners /\ n.backlight = 100 /\ n.original = m.backlight
      /\ n.wanted = m.wanted /\ n.calibrated = m.calibrated /\ n.seen = "start"
  BY DEF StartCalibration, SuspendIdle, TransitionTo, Typed, Fields
<1> HIDE DEF n
<1> QED
  BY <1>1 DEF Typed, PowerTyped, Shots, States, n

LEMMA AbandonTyped ==
  ASSUME NEW m, NEW acts, Typed(m, acts), charge \in Charges
  PROVE  Typed(Abandon(m), acts)
<1> DEFINE still == StopBurners(m)
           over == [Send(still, 0) EXCEPT !.overlay = FALSE, !.state = "INACTIVE",
                                          !.backlight = m.original]
<1>1. Typed(still, acts)
  BY StopBurnersTyped
<1>2. Abandon(m) = still \/ Abandon(m) = ResumeIdle(over)
  BY DEF Abandon
<1> HIDE DEF still
<1>3. Typed(Send(still, 0), acts)
  BY <1>1, SendTyped
<1>4. Typed(over, acts)
  BY <1>3 DEF Typed, PowerTyped, Shots, States, Fields
<1> HIDE DEF over
<1> QED
  BY <1>1, <1>2, <1>4, ResumeIdleTyped

LEMMA CompleteTyped ==
  ASSUME NEW m, NEW acts, Typed(m, acts), charge \in Charges
  PROVE  Typed(Complete(m), acts)
<1> DEFINE over == [Send(m, 0) EXCEPT !.overlay = FALSE, !.state = "INACTIVE",
                                      !.backlight = m.original]
           resumed == ResumeIdle(over)
<1>1. Typed(Send(m, 0), acts)
  BY SendTyped
<1>2. Typed(over, acts)
  BY <1>1 DEF Typed, PowerTyped, Shots, States, Fields
<1>3. Complete(m) = [resumed EXCEPT !.calibrated = @ + 1]
  BY DEF Complete
<1> HIDE DEF over
<1>4. Typed(resumed, acts)
  BY <1>2, ResumeIdleTyped
<1> HIDE DEF resumed
<1> QED
  BY <1>3, <1>4 DEF Typed, PowerTyped, Shots, Fields

LEMMA Phase1Typed ==
  ASSUME NEW m, NEW acts \in Nat, Typed(m, acts), m.state = "PHASE1_CHARGING", charge \in Charges
  PROVE  Typed(Phase1(m), acts)
<1> DEFINE begun == [m EXCEPT !.startedCharging = TRUE]
           charging == Bright(Send(begun, 3))
           full == [charging EXCEPT !.waitingForUnplug = TRUE, !.shots = @ + 1, !.seen = "full"]
<1>1. Typed(begun, acts) /\ begun.state = m.state /\ begun.waitingForUnplug = m.waitingForUnplug
      /\ begun.shots = m.shots
  BY DEF Typed, PowerTyped, Shots, Fields
<1>2. \/ Phase1(m) = full /\ ~m.waitingForUnplug
      \/ Phase1(m) \in {charging, Abandon(m), Bright(m)}
  BY DEF Phase1
<1> HIDE DEF begun
<1>3. Typed(Send(begun, 3), acts)
  BY <1>1, SendTyped
<1>4. Typed(charging, acts) /\ charging.shots = m.shots
  BY <1>1, <1>3, BrightTyped DEF Bright, Send, Typed, Fields
<1> HIDE DEF charging
<1>5. ~m.waitingForUnplug => Typed(full, acts)
  <2> SUFFICES ASSUME ~m.waitingForUnplug PROVE Typed(full, acts)
    OBVIOUS
  <2>1. m.shots \in Nat /\ m.shots < acts
    BY DEF Typed, Shots
  <2> QED
    BY <1>4, <2>1 DEF Typed, PowerTyped, Shots, Fields
<1> HIDE DEF full
<1> QED
  BY <1>2, <1>4, <1>5, AbandonTyped, BrightTyped

\* The backlight is set to the charge, but not to nothing.
LEMMA WaitingUnplugTyped ==
  ASSUME NEW m, NEW acts, Typed(m, acts)
  PROVE  Typed(WaitingUnplug(m), acts)
<1> DEFINE next == TransitionTo(m, "PHASE2_DISCHARGING")
           burning == StartBurners(next)
           light == IF m.percentage < 1 THEN 1 ELSE m.percentage
           dim == [Send(burning, 2) EXCEPT !.backlight = light, !.overruled = FALSE]
<1>1. Typed(next, acts)
  BY TransitionToTyped DEF States
<1>2. WaitingUnplug(m) \in {dim, Bright(m)}
  BY DEF WaitingUnplug
<1> HIDE DEF next
<1>3. Typed(burning, acts)
  BY <1>1 DEF StartBurners, Typed, PowerTyped, Shots, Fields
<1> HIDE DEF burning
<1>4. Typed(Send(burning, 2), acts)
  BY <1>3, SendTyped
<1>5. light \in 1..100
  <2>1. m.percentage \in Charges
    BY DEF Typed, PowerTyped
  <2>2. m.percentage \in 0..100
    BY <2>1, CalibrationAssumption
  <2> QED
    BY <2>2
<1> HIDE DEF light
<1>6. Typed(dim, acts)
  BY <1>4, <1>5 DEF Typed, PowerTyped, Shots, Fields
<1> HIDE DEF dim
<1> QED
  BY <1>2, <1>6, BrightTyped

LEMMA Phase2Typed ==
  ASSUME NEW m, NEW acts, Typed(m, acts), charge \in Charges
  PROVE  Typed(Phase2(m), acts)
<1> DEFINE still == StopBurners(m)
           next == TransitionTo(Bright(Send(still, 3)), "WAITING_PLUG")
           empty == [next EXCEPT !.seen = IF @ = "full" THEN "empty" ELSE @]
<1>1. Typed(still, acts)
  BY StopBurnersTyped
<1>2. Phase2(m) \in {Abandon(m), still, empty, m}
  BY DEF Phase2
<1> HIDE DEF still
<1>3. Typed(next, acts)
  <2>1. Typed(Send(still, 3), acts)
    BY <1>1, SendTyped
  <2>2. Typed(Bright(Send(still, 3)), acts)
    BY <2>1, BrightTyped
  <2> QED
    BY <2>2, TransitionToTyped DEF States
<1> HIDE DEF next
<1>4. Typed(empty, acts)
  BY <1>3 DEF Typed, PowerTyped, Shots, Fields
<1> HIDE DEF empty
<1> QED
  BY <1>1, <1>2, <1>4, AbandonTyped

LEMMA PollTyped ==
  ASSUME NEW m, NEW acts \in Nat, Typed(m, acts), charge \in Charges
  PROVE  Typed(OnBatteryStatusChanged(m), acts)
<1>1. m.state \in States
  BY DEF Typed
<1>2. Typed(WaitingPlug(m), acts)
  <2>1. Typed(Bright(m), acts) /\ Typed(TransitionTo(m, "PHASE3_CHARGING"), acts)
    BY BrightTyped, TransitionToTyped DEF States
  <2>2. Typed([Bright(m) EXCEPT !.asked = TRUE], acts)
    BY <2>1 DEF Typed, PowerTyped, Shots, Fields
  <2>3. WaitingPlug(m) \in {TransitionTo(m, "PHASE3_CHARGING"), [Bright(m) EXCEPT !.asked = TRUE],
                            Bright(m)}
    BY DEF WaitingPlug
  <2> QED
    BY <2>1, <2>2, <2>3
<1>3. Typed(Phase3(m), acts)
  <2>1. Phase3(m) \in {Abandon(m), Complete(m), m}
    BY DEF Phase3
  <2> QED
    BY <2>1, AbandonTyped, CompleteTyped
<1>4. CASE m.state = "INACTIVE"
  BY <1>4 DEF OnBatteryStatusChanged
<1>5. CASE m.state = "PHASE1_CHARGING"
  BY <1>5, Phase1Typed DEF OnBatteryStatusChanged
<1>6. CASE m.state = "WAITING_UNPLUG"
  BY <1>6, WaitingUnplugTyped DEF OnBatteryStatusChanged
<1>7. CASE m.state = "PHASE2_DISCHARGING"
  BY <1>7, Phase2Typed DEF OnBatteryStatusChanged
<1>8. CASE m.state = "WAITING_PLUG"
  BY <1>2, <1>8 DEF OnBatteryStatusChanged
<1>9. CASE m.state = "PHASE3_CHARGING"
  BY <1>3, <1>9 DEF OnBatteryStatusChanged
<1> QED
  BY <1>1, <1>4, <1>5, <1>6, <1>7, <1>8, <1>9 DEF States

LEMMA ShotTyped ==
  ASSUME NEW m, NEW acts \in Nat, Typed(m, acts), m.shots > 0
  PROVE  Typed(TransitionToWaitingUnplug([m EXCEPT !.shots = @ - 1]), acts)
<1> DEFINE n == [m EXCEPT !.shots = @ - 1]
           due == [n EXCEPT !.waitingForUnplug = FALSE]
           next == TransitionTo(due, "WAITING_UNPLUG")
<1>1. Typed(n, acts) /\ n.shots < acts
  BY DEF Typed, PowerTyped, Shots, Fields
<1>2. TransitionToWaitingUnplug(n) \in {next, n}
  BY DEF TransitionToWaitingUnplug
<1> HIDE DEF n
<1>3. Typed(due, acts)
  BY <1>1 DEF Typed, PowerTyped, Shots, Fields
<1> HIDE DEF due
<1>4. Typed(next, acts)
  BY <1>3, TransitionToTyped DEF States
<1> HIDE DEF next
<1> QED
  BY <1>1, <1>2, <1>4 DEF n

-----------------------------------------------------------------------------
(* The steps. *)

LEMMA MoreActs ==
  ASSUME NEW m, NEW acts \in Nat, Typed(m, acts)
  PROVE  Typed(m, acts + 1)
BY DEF Typed, Shots

LEMMA ActsTyped ==
  ASSUME TypeIInv
  PROVE  /\ events \in Nat
         /\ Acts => events' = events + 1 /\ events' \in 0..EventBound
         /\ \A m : Typed(m, events) /\ Acts => Typed(m, events')
<1>1. events \in Nat /\ (Acts => events' = events + 1 /\ events' \in 0..EventBound)
  BY CalibrationAssumption DEF TypeIInv, Acts
<1> QED
  BY <1>1, MoreActs

\* A handler whose members are typed leaves them typed, and the daemon's profile.
LEMMA HandleTyped ==
  ASSUME TypeIInv, NEW m, Typed(m, events'), gui' = [m EXCEPT !.sent = -1],
         hardware' = IF m.sent = -1 THEN hardware ELSE m.sent,
         UNCHANGED charge \/ charge' \in Charges, UNCHANGED mains \/ mains' \in {0, 1},
         events' \in 0..EventBound
  PROVE  TypeIInv'
<1>1. Typed(gui', events') /\ gui'.sent = -1
  BY DEF Typed, PowerTyped, Shots, Fields
<1>2. hardware' \in 0..3
  BY DEF TypeIInv, Typed, PowerTyped
<1>3. charge' \in Charges /\ mains' \in {0, 1}
  BY DEF TypeIInv
<1> QED
  BY <1>1, <1>2, <1>3 DEF TypeIInv

LEMMA LeastElement ==
  ASSUME NEW T \in SUBSET Nat, T # {}
  PROVE  \E m \in T : \A y \in T : m <= y
<1>1. IsWellFoundedOn(OpToRel(<, Nat), Nat)
  BY NatLessThanWellFounded
<1>2. PICK m \in T : \A y \in T : ~ (<<y, m>> \in OpToRel(<, Nat))
  BY <1>1, WFMin
<1>3. \A y \in T : ~ (y < m)
  BY <1>2 DEF OpToRel
<1> QED
  BY <1>3

\* The next level of the charge is one of them.
LEMMA NextCharge ==
  ASSUME NEW S \in SUBSET Charges, S # {}
  PROVE  Max(S) \in S /\ Min(S) \in S
<1> DEFINE T == {100 - c : c \in S}
<1>1. \A c \in S : c \in 0..100
  BY CalibrationAssumption
<1>2. \E m \in S : \A c \in S : m <= c
  <2>1. S \in SUBSET Nat
    BY <1>1
  <2> QED
    BY <2>1, LeastElement
<1>3. \E m \in S : \A c \in S : m >= c
  <2>1. T \in SUBSET Nat /\ T # {}
    BY <1>1
  <2>2. PICK u \in T : \A v \in T : u <= v
    <3> HIDE DEF T
    <3> QED
      BY <2>1, LeastElement
  <2>3. PICK m \in S : u = 100 - m
    BY <2>2
  <2>4. \A c \in S : 100 - m <= 100 - c
    BY <2>2, <2>3
  <2> QED
    BY <1>1, <2>3, <2>4
<1> QED
  BY <1>2, <1>3 DEF Max, Min

LEMMA TypesStep == TypeIInv /\ [Next]_vars => TypeIInv'
<1> SUFFICES ASSUME TypeIInv, [Next]_vars PROVE TypeIInv'
  OBVIOUS
<1>1. Typed(gui, events) /\ DOMAIN gui = Fields /\ charge \in Charges
  BY DEF TypeIInv, Typed
<1>2. \A m : Typed(m, events') /\ Handle(m) /\ events' \in 0..EventBound
             /\ UNCHANGED <<charge, mains>> => TypeIInv'
  BY HandleTyped DEF Handle
<1>3. CASE Start
  <2>1. Typed(StartCalibration(gui), events')
    BY <1>1, <1>3, ActsTyped, StartTyped DEF Start
  <2> QED
    BY <1>2, <1>3, <2>1, ActsTyped DEF Start
<1>4. CASE Cancel
  <2>1. Typed(Abandon(gui), events')
    BY <1>1, <1>4, ActsTyped, AbandonTyped DEF Cancel
  <2> QED
    BY <1>2, <1>4, <2>1, ActsTyped DEF Cancel
<1>5. CASE BatteryPoll
  <2>1. events' = events /\ UNCHANGED <<charge, mains>>
    BY <1>5 DEF BatteryPoll, Alone
  <2>2. Typed(OnBatteryStatusChanged(ReadBattery(gui)), events)
    BY <1>1, ActsTyped, ReadBatteryTyped, PollTyped
  <2> QED
    BY <1>2, <1>5, <2>1, <2>2 DEF BatteryPoll, TypeIInv
<1>6. CASE SingleShot
  <2>1. events' = events /\ UNCHANGED <<charge, mains>>
    BY <1>6 DEF SingleShot, Alone
  <2>2. Typed(TransitionToWaitingUnplug([gui EXCEPT !.shots = @ - 1]), events)
    BY <1>1, <1>6, ActsTyped, ShotTyped DEF SingleShot
  <2> QED
    BY <1>2, <1>6, <2>1, <2>2 DEF SingleShot, TypeIInv
<1>7. CASE BurnersBegin
  <2>1. Typed(gui', events) /\ gui'.sent = -1
    BY <1>1, <1>7 DEF BurnersBegin, TypeIInv, Typed, PowerTyped, Shots, Fields
  <2> QED
    BY <1>7, <2>1 DEF BurnersBegin, TypeIInv
<1>8. CASE ChooseBrightness
  <2>1. PICK b \in Brightness :
          Handle([gui EXCEPT !.backlight = b, !.wanted = IF gui.state = "INACTIVE" THEN b ELSE @])
    BY <1>8 DEF ChooseBrightness
  <2> DEFINE m == [gui EXCEPT !.backlight = b,
                              !.wanted = IF gui.state = "INACTIVE" THEN b ELSE @]
  <2>2. b \in 1..100
    BY CalibrationAssumption
  <2>3. Typed(m, events)
    BY <1>1, <2>2 DEF Typed, PowerTyped, Shots, Fields
  <2> HIDE DEF m
  <2>4. Typed(m, events')
    BY <1>8, <2>3, ActsTyped DEF ChooseBrightness
  <2> QED
    BY <1>2, <1>8, <2>1, <2>4, ActsTyped DEF ChooseBrightness, m
<1>9. CASE ChooseProfile
  <2> DEFINE m == [gui EXCEPT !.overruled = TRUE]
  <2>1. PICK profile \in 0..2 : Handle(SetProfile(m, profile))
    BY <1>9 DEF ChooseProfile
  <2>2. Typed(m, events)
    BY <1>1 DEF Typed, PowerTyped, Shots, Fields
  <2> HIDE DEF m
  <2>3. Typed(SetProfile(m, profile), events')
    BY <1>9, <2>2, ActsTyped, SendTyped DEF ChooseProfile
  <2> QED
    BY <1>2, <1>9, <2>1, <2>3, ActsTyped DEF ChooseProfile
<1>10. CASE Sleep
  <2> DEFINE m == [gui EXCEPT !.idleTimer = FALSE, !.batteryTimer = FALSE,
                              !.asked = FALSE, !.overruled = TRUE]
             n == IF minimal THEN SetProfile(m, 3) ELSE m
  <2>1. Handle(n) /\ UNCHANGED <<charge, mains>>
    BY <1>10 DEF Sleep
  <2>2. Typed(m, events)
    BY <1>1 DEF Typed, PowerTyped, Shots, Fields
  <2> HIDE DEF m
  <2>3. Typed(n, events)
    BY <2>2, SendTyped
  <2> HIDE DEF n
  <2>4. Acts \/ events' = events
    BY <1>10 DEF Sleep
  <2>5. Typed(n, events') /\ events' \in 0..EventBound
    BY <2>3, <2>4, ActsTyped DEF TypeIInv
  <2> QED
    BY <1>2, <2>1, <2>5
<1>11. CASE Wake
  <2> DEFINE waking == [gui EXCEPT !.idleTimer = TRUE, !.mprisTimer = TRUE, !.batteryTimer = TRUE]
             m == AdjustProfile(waking)
  <2>1. /\ gui' = [m EXCEPT !.sent = -1] /\ UNCHANGED <<charge, mains, events>>
        /\ hardware' = IF m.sent = -1 THEN hardware ELSE m.sent
    BY <1>11 DEF Wake
  <2>2. Typed(waking, events) /\ DOMAIN waking = Fields
    BY <1>1 DEF Typed, PowerTyped, Shots, Fields
  <2> HIDE DEF waking
  <2>3. Typed(m, events)
    BY <2>2, AdjustProfileSame, AdjustProfilePower, SameTyped DEF Typed
  <2> HIDE DEF m
  <2>4. Typed(m, events') /\ events' \in 0..EventBound
    BY <2>1, <2>3 DEF TypeIInv
  <2> QED
    BY <2>1, <2>4, HandleTyped
<1>12. CASE Plug
  <2>1. mains' \in {0, 1} /\ UNCHANGED <<gui, hardware, charge>>
    BY <1>12 DEF Plug, TypeIInv
  <2>2. Typed(gui', events') /\ events' \in 0..EventBound
    BY <1>1, <1>12, <2>1, ActsTyped DEF Plug
  <2> QED
    BY <2>1, <2>2 DEF TypeIInv
<1>13. CASE ChargeMoves
  <2> DEFINE next == IF mains = 1 THEN {c \in Charges : c > charge}
                     ELSE {c \in Charges : c < charge}
  <2>1. next # {} /\ charge' = IF mains = 1 THEN Min(next) ELSE Max(next)
    BY <1>13 DEF ChargeMoves
  <2>2. next \in SUBSET Charges
    OBVIOUS
  <2> HIDE DEF next
  <2>3. charge' \in Charges
    BY <2>1, <2>2, NextCharge
  <2>4. UNCHANGED <<gui, hardware, mains, events>>
    BY <1>13 DEF ChargeMoves
  <2> QED
    BY <2>3, <2>4 DEF TypeIInv
<1>14. CASE UNCHANGED vars
  BY <1>14 DEF vars, TypeIInv
<1> QED
  BY <1>3, <1>4, <1>5, <1>6, <1>7, <1>8, <1>9, <1>10, <1>11, <1>12, <1>13, <1>14 DEF Next

\* Whenever the charge, the charger, users and sleeps move, the screen is never set darker
\* than the backlight goes, the daemon is sent profiles it has, and a calibration that is
\* given up leaves no more than the one single shot it began.
THEOREM CalibrationTypes == Spec => []TypeOK
<1>1. Init => TypeIInv
  <2> SUFFICES ASSUME Init PROVE TypeIInv
    OBVIOUS
  <2> DEFINE chargingState == IF mains = 0 THEN 0 ELSE IF charge = 100 THEN 2 ELSE 1
             warnCrit == mains = 0 /\ charge <= Critical
             profile == IF warnCrit THEN 3 ELSE Profile[chargingState]
  <2>1. profile \in 0..3
    <3>1. Profile[chargingState] \in 0..3
      BY CalibrationAssumption
    <3> QED
      BY <3>1
  <2>2. PICK b \in Brightness :
          /\ DOMAIN gui = Fields /\ gui.state = "INACTIVE" /\ gui.original = 100 /\ gui.shots = 0
          /\ gui.burners = "none" /\ gui.calibrated = 0 /\ gui.backlight = b
          /\ gui.chargingState = chargingState /\ gui.percentage = charge /\ gui.reached = charge
          /\ gui.lastHwProfile = profile /\ gui.lastOpmode = mains /\ gui.sent = -1
          /\ gui.wanted = b /\ gui.seen = "start" /\ hardware = profile
    BY DEF Init, Fields
  <2>3. mains \in {0, 1} /\ charge \in Charges /\ events = 0
    BY DEF Init
  <2>4. chargingState \in 0..2
    OBVIOUS
  <2> HIDE DEF profile, chargingState
  <2>5. b \in 1..100 /\ 0 \in 0..EventBound
    BY CalibrationAssumption
  <2> QED
    BY <2>1, <2>2, <2>3, <2>4, <2>5 DEF TypeIInv, Typed, PowerTyped, Shots, States
<1>2. TypeIInv => TypeOK
  <2> SUFFICES ASSUME TypeIInv PROVE TypeOK
    OBVIOUS
  <2>1. gui.shots \in Nat /\ gui.shots <= events
    BY DEF TypeIInv, Typed, Shots
  <2>2. gui.shots \in 0..EventBound
    <3>1. events \in 0..EventBound /\ EventBound \in Nat
      BY CalibrationAssumption DEF TypeIInv
    <3> QED
      BY <2>1, <3>1
  <2> QED
    BY <2>2 DEF TypeIInv, Typed, PowerTyped, TypeOK
<1> QED
  BY <1>1, <1>2, TypesStep, PTL DEF Spec
====
