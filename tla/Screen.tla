-------------------------------- MODULE Screen --------------------------------
(***************************************************************************)
(* What the client does to the screen (src/src/inactivity_manager.cpp,     *)
(* main.cpp, screensavers.cpp, mpris_detection.c): dimming it, turning it  *)
(* off, covering it with a screensaver, locking the session and putting    *)
(* the machine to sleep when nobody uses it, the buttons and the remote    *)
(* calls, and the way back.                                                *)
(*                                                                         *)
(* One Qt thread runs all handlers, each a function of the members (gui).  *)
(* The one that plays an effect before a sleep runs an event loop of its   *)
(* own until the effect is over: what it has yet to do waits on            *)
(* gui.waiting, innermost last, while other handlers run.                  *)
(*                                                                         *)
(* Idle time is counted in levels: 0 is less than a second, and a fade, an *)
(* effect and the five seconds after a wake-up are over before it changes. *)
(***************************************************************************)
EXTENDS Integers, Sequences, FiniteSets, FiniteSetsExt

CONSTANTS
  Scenarios,        \* what the client is configured to do, and what happens to it
  Backlight,        \* m_backlightMax
  Step,             \* m_brightnessStep, a hundredth of that or 1
  Levels,          \* the brightness that users choose, by popup or remote call
  TRANSITION_STEPS, \* steps of a fade
  WakeCap,          \* 300 s: idle time from before a wake-up is not seen that long
  MaxIdle,          \* idle time is counted up to here
  Networks,         \* what the Wi-Fi can be: "off", "connecting", "trusted", "other"
  Playlists         \* the media players that can be around, each [playing, kind]

ConfigType ==
  [reduce : Nat, sleep : Nat, system : Nat,        \* timeouts, in levels of idle time
   auto : BOOLEAN,                                 \* warnings shorten them
   saver : {"none", "own", "external"}, effect : BOOLEAN,
   lock_on_display_off : BOOLEAN, lock_on_sleep : BOOLEAN, ssids : BOOLEAN,
   button : {"sleep", "shutdown", "ask", "nothing"},
   lid : {"lock", "sleep", "nothing"}, powernap : BOOLEAN,
   idle : {"sleep", "nothing"}, intercept : BOOLEAN, inhibitors : BOOLEAN,
   more : BOOLEAN, adapt : BOOLEAN, follow : BOOLEAN]

EventKinds == {"input", "nudge", "child", "charger", "warning", "media", "lid", "button",
               "brightness", "presentation", "lock", "suspend", "others", "shutdown"}

\* Up to `events' events of the given kinds, under one configuration.
ScenarioType == [config : ConfigType, kinds : SUBSET EventKinds, events : Nat]

ASSUME ScreenAssumption ==
  /\ Scenarios \subseteq ScenarioType
  /\ Levels \subseteq 1..Backlight
  /\ {Backlight, TRANSITION_STEPS, Step} \subseteq Nat \ {0}
  /\ {WakeCap, MaxIdle} \subseteq Nat
  /\ \A s \in Scenarios : \* as the dialog puts them in order, see Settings
       /\ 1 <= s.config.reduce /\ s.config.reduce <= s.config.sleep
       /\ s.config.sleep <= s.config.system
  /\ Networks \subseteq {"off", "connecting", "trusted", "other"}
  /\ Playlists \subseteq Seq([playing : BOOLEAN, kind : {"browser", "audio", "other"}])

VARIABLES
  gui,      \* the members of the InactivityManager and of the application around it,
            \* with the X server's idle time, and how long ago m_wakeTime was
  world,    \* what there is to find: mains power, the charge's warning, the media players;
            \* and the kinds of event there are
  machine,  \* "awake", "going" to sleep, "asleep" or "off"
  signals,  \* what logind has to say: PrepareForSleep(true) or (false)
  events    \* how many events are left to happen

vars == <<gui, world, machine, signals, events>>

\* History, for the properties: what has gone wrong.
Mishaps == {"refused", \* logind refuses a sleep
            "dropped", \* the daemon is not there to shut down
            "called off", \* the checks rest for a shutdown that does not take place
            "cut",     \* a fade stops on its way
            "overruled", \* a brightness is set in a fade or while the screen is dimmed
            "unseen"} \* input comes and ends on a dimmed screen, and no check runs

Note(m, mishap) == [m EXCEPT !.mishaps = @ \cup {mishap}]
NoteIf(b, m, mishap) == IF b THEN Note(m, mishap) ELSE m

-----------------------------------------------------------------------------
(***************************************************************************)
(* The backlight.                                                          *)
(***************************************************************************)
Clamped(raw) == Max({1, Min({raw, Backlight})})

SetBrightness(m, raw) == [m EXCEPT !.backlight = Clamped(raw)]

StartBrightnessTransition(m, raw) ==
  IF m.transitionInProgress THEN m
  ELSE [m EXCEPT !.fade = [from |-> m.backlight, to |-> raw, step |-> 0],
                 !.transitionInProgress = TRUE, !.transitionTimer = TRUE]

\* A slip for the mutation runs: a fade under way is left alone.
SetBrightnessLate(m, raw, force) ==
  IF force THEN SetBrightness(m, raw) ELSE StartBrightnessTransition(m, Clamped(raw))

SetBrightnessImmediate(m, raw, force) ==
  LET still == IF m.transitionInProgress
                 THEN [m EXCEPT !.transitionInProgress = FALSE, !.transitionTimer = FALSE]
                 ELSE m
  IN IF force THEN SetBrightness(still, raw) ELSE StartBrightnessTransition(still, Clamped(raw))

\* A slip for the mutation runs: the last step leaves the flag.
UpdateBrightnessTransitionOpen(m) ==
  LET step == m.fade.step + 1
  IN IF ~m.transitionInProgress THEN [m EXCEPT !.transitionTimer = FALSE]
     ELSE [SetBrightness(m, m.fade.to)
             EXCEPT !.fade.step = step, !.transitionTimer = step < TRANSITION_STEPS]

\* A step of a fade; the last one lands on the target.
UpdateBrightnessTransition(m) ==
  LET step == m.fade.step + 1
      over == step >= TRANSITION_STEPS
      raw == m.fade.from + ((m.fade.to - m.fade.from) * step) \div TRANSITION_STEPS
  IN IF ~m.transitionInProgress THEN [m EXCEPT !.transitionTimer = FALSE]
     ELSE [SetBrightness(m, IF over THEN m.fade.to ELSE raw)
             EXCEPT !.fade.step = step,
                    !.transitionInProgress = ~over, !.transitionTimer = ~over]

\* The backlight is not what it is for a user, or about to change.
Adjusted(m) ==
  m.transitionInProgress \/ m.backlightReduced \/ m.screenSleeping \/ m.screensaverActive

\* What is saved before dimming.
Remembered(m) == [m EXCEPT !.originalBrightness = m.backlight]

-----------------------------------------------------------------------------
(***************************************************************************)
(* What covers the screen: the screensaver and the effect before a sleep.  *)
(***************************************************************************)
LaunchScreensaver(m) == [m EXCEPT !.saver = "shown"]

DismissScreensaver(m) == [m EXCEPT !.saver = "none"]

\* setBlackout(true); nobody ever calls setBlackout(false).
Blackout(m) == [m EXCEPT !.saver = IF @ = "none" THEN "none" ELSE "black"]

\* A slip for the mutation runs: the effect's overlay stays.
WokeUpCovered(m) == DismissScreensaver(m)

\* wokeUp, received by handleWakeUp.
WokeUp(m) == DismissScreensaver([m EXCEPT !.overlay = "none"])

\* runSleepTransitionSync up to its loop: `next' is what comes after it.
RunSleepTransition(m, next) ==
  [DismissScreensaver(m) EXCEPT
     !.transitionInProgress = TRUE, !.overlay = "playing", !.sleepTransitionDone = FALSE,
     !.glibTimer = FALSE, !.waiting = Append(@, next)]

-----------------------------------------------------------------------------
(***************************************************************************)
(* The session lock, which asks the Wi-Fi first.  `net' is what it says.   *)
(***************************************************************************)
LockScreenNow(m) == [m EXCEPT !.lockDue = FALSE]

\* The overlay goes 1.5 s after the session is locked; without one all is over.
Lock(m) ==
  LET locked == LockScreenNow(m)
  IN IF m.useWifiOverlay THEN [locked EXCEPT !.hides = @ + 1]
     ELSE IF m.config.ssids THEN WokeUp([locked EXCEPT !.wifiOverlay = FALSE])
     ELSE WokeUp(locked)

\* checkWifiAndLock
CheckWifiAndLock(m, net) ==
  LET shown == IF m.useWifiOverlay THEN [m EXCEPT !.wifiOverlay = TRUE] ELSE m
      again == m.wifiCheckCounter < 2
               /\ (net = "connecting" \/ (net = "off" /\ m.useWifiOverlay))
  IN CASE ~m.config.ssids -> Lock(shown)
       [] m.config.ssids /\ net = "trusted" ->
            WokeUp([shown EXCEPT !.lockDue = FALSE,
                                 !.wifiOverlay = IF m.useWifiOverlay THEN FALSE ELSE @])
       [] m.config.ssids /\ net # "trusted" /\ again ->
            [shown EXCEPT !.wifiCheckCounter = @ + 1, !.retries = @ + 1]
       [] OTHER -> Lock(shown)

\* lockScreen
LockScreen(m, overlay, net) ==
  IF m.actionInProgress THEN m
  ELSE CheckWifiAndLock([m EXCEPT !.useWifiOverlay = overlay, !.wifiCheckCounter = 0], net)

-----------------------------------------------------------------------------
(***************************************************************************)
(* Going to sleep.  `ok' is whether logind agrees.                         *)
(***************************************************************************)
\* The end of checkIdle: the idle timer goes on, except for a video.  `seen' is -1
\* where the caller is not checkIdle.
KeepWatching(m, seen) ==
  LET done == [m EXCEPT !.prevIdleTime = seen]
  IN CASE seen = -1 -> m
       [] seen # -1 /\ (~m.presentationMode \/ m.warning = 2 \/ m.mediaPlayingType = 1) ->
            [done EXCEPT !.idleTimer = TRUE]
       [] OTHER -> NoteIf(m.transitionTimer,
                          [done EXCEPT !.idleTimer = FALSE, !.transitionTimer = FALSE], "cut")

\* The call to logind, after all preparation.
AskLogind(m, ok) ==
  NoteIf(~ok, [Blackout(m) EXCEPT !.actionInProgress = ok, !.asked = IF ok THEN "sleep" ELSE @],
         "refused")

\* The daemon is told to shut down, if it is there.
AskDaemon(m, ok) == IF ok THEN [m EXCEPT !.asked = "shutdown"] ELSE Note(m, "dropped")

\* prepareSuspendGeneral plays the effect, if it is on and can be seen.
PlaysEffect(m) ==
  m.config.effect /\ m.lidOpen /\ ~m.screenSleeping /\ ~m.transitionInProgress

\* suspendSystem and its siblings, and what is left of the idle check that called.
SuspendSystem(m, seen, ok) ==
  LET still == [m EXCEPT !.actionInProgress = TRUE, !.delayLock = FALSE, !.idleTimer = FALSE]
  IN CASE m.actionInProgress -> KeepWatching(m, seen)
       [] ~m.actionInProgress /\ PlaysEffect(m) ->
            RunSleepTransition(still, [next |-> "logind", seen |-> seen])
       [] OTHER -> KeepWatching(AskLogind(still, ok), seen)

\* handleSleepButton and handlePowerButton: the effect comes first, for a shutdown too.
PressButton(m, ok) ==
  LET acts == ~m.actionInProgress /\ ~m.transitionInProgress
  IN CASE acts /\ m.config.button \in {"sleep", "shutdown"} /\ m.config.effect ->
            RunSleepTransition(m, [next |-> m.config.button, seen |-> -1])
       [] acts /\ m.config.button = "sleep" /\ ~m.config.effect -> SuspendSystem(m, -1, ok)
       [] acts /\ m.config.button = "shutdown" /\ ~m.config.effect -> AskDaemon(m, ok)
       [] OTHER -> m

\* onPrepareForSleep(true): others put the machine to sleep, or this client did.
PrepareForSleep(m) ==
  LET still == [m EXCEPT !.idleTimer = FALSE]
  IN CASE ~m.actionInProgress /\ m.config.intercept /\ PlaysEffect(m) ->
            RunSleepTransition(still, [next |-> "others", seen |-> -1])
       [] ~m.actionInProgress /\ m.config.intercept /\ ~PlaysEffect(m) ->
            [Blackout(still) EXCEPT !.delayLock = FALSE]
       [] OTHER -> [m EXCEPT !.delayLock = FALSE]

\* onPrepareForShutdown(true); a shutdown that is called off changes nothing any more.
PrepareForShutdown(m) ==
  IF m.actionInProgress THEN m ELSE Note([m EXCEPT !.idleTimer = FALSE], "called off")

\* What runSleepTransitionSync does after its loop, and its caller after that.
AfterTransition(m, ok) ==
  LET rest == m.waiting[Len(m.waiting)]
      woken == NoteIf(m.transitionTimer,
                      [m EXCEPT !.waiting = SubSeq(@, 1, Len(@) - 1),
                                !.glibTimer = TRUE, !.transitionInProgress = FALSE],
                      "cut")
  IN CASE rest.next = "logind" -> KeepWatching(AskLogind(woken, ok), rest.seen)
       [] rest.next = "others" -> [Blackout(woken) EXCEPT !.delayLock = FALSE]
       [] rest.next = "sleep" -> SuspendSystem(woken, -1, ok)
       [] rest.next = "shutdown" -> AskDaemon(woken, ok)

-----------------------------------------------------------------------------
(***************************************************************************)
(* checkIdle.  `x' is what it finds: settled, whether a wake-up is five    *)
(* seconds ago; inhibited, whether one of the processes that forbid sleep  *)
(* runs; mains, what the poll of the battery reads; fell, whether the      *)
(* charge has gone down; later, whether the next dimming is due; net, the  *)
(* Wi-Fi; ok, logind's answer.                                             *)
(***************************************************************************)
\* A slip for the mutation runs: the X server's idle time as it is.
IdleTimeUncapped(m) == m.idle

\* The idle time that is believed.
IdleTime(m) == IF m.since < WakeCap /\ m.idle > m.since THEN m.since ELSE m.idle

\* Warnings shorten the first two timeouts.
Timeouts(m) ==
  LET Short(t) == IF m.config.auto THEN Max({1, t \div (m.warning + 1)}) ELSE t
  IN [reduce |-> Short(m.config.reduce), sleep |-> Short(m.config.sleep),
      system |-> m.config.system]

\* The display is turned off, or covered; what it was before is remembered.
DisplaySleep(m) ==
  LET saved == IF m.backlightReduced THEN m ELSE Remembered(m)
      dark == [saved EXCEPT !.backlightReduced = TRUE]
  IN IF m.chargingState = 1 /\ m.config.saver # "none"
       THEN LaunchScreensaver(SetBrightnessImmediate(
              [dark EXCEPT !.screensaverActive = TRUE], dark.originalBrightness, FALSE))
       ELSE [dark EXCEPT !.screenSleeping = TRUE]

\* ... and lit again.  Under a screensaver its widget stays, for the user to dismiss.
DisplayWake(m, net) ==
  LET locked == IF m.config.lock_on_display_off /\ ~m.screensaverActive
                  THEN LockScreen(m, FALSE, net) ELSE m
  IN SetBrightnessImmediate(
       [locked EXCEPT !.screensaverActive = FALSE, !.backlightReduced = FALSE,
                      !.screenSleeping = FALSE],
       m.originalBrightness, TRUE)

Dim(m) ==
  [StartBrightnessTransition(Remembered(m), Max({1, m.backlight \div 5}))
     EXCEPT !.backlightReduced = TRUE, !.idleTimer = TRUE]

Undim(m, seen) ==
  [SetBrightnessImmediate(m, m.originalBrightness, FALSE)
     EXCEPT !.backlightReduced = FALSE, !.prevIdleTime = seen, !.idleTimer = TRUE]

\* Dimming an idle screen further, and a used one as the charge goes down.
Adapt(m, x) ==
  LET more == m.chargingState = 0 /\ m.backlightReduced /\ m.config.more
              /\ m.backlight > 5 * Step /\ ~m.transitionInProgress /\ x.later
      less == m.chargingState = 0 /\ ~m.backlightReduced /\ m.config.adapt
              /\ x.fell /\ m.backlight > 25 * Step /\ ~m.transitionInProgress
  IN CASE more -> SetBrightnessImmediate(m, m.backlight - Step, FALSE)
       [] less -> SetBrightnessImmediate([m EXCEPT !.wanted = Clamped(@ - Step)],
                                         m.backlight - Step, TRUE)
       [] OTHER -> m

-----------------------------------------------------------------------------
(***************************************************************************)
(* The poll of the battery, as far as the screen goes.                     *)
(***************************************************************************)
\* simulateUserActivity, when the charger comes or goes.
SimulateUserActivity(m) ==
  LET reset == [m EXCEPT !.idle = 0]
      seen == IF m.screensaverActive
                THEN WokeUp(SetBrightnessImmediate(
                       [reset EXCEPT !.screensaverActive = FALSE, !.backlightReduced = FALSE],
                       m.originalBrightness, TRUE))
                ELSE reset
  IN CASE m.justWokeUp -> m
       [] ~m.justWokeUp /\ m.screenSleeping ->
            SetBrightnessImmediate(
              [seen EXCEPT !.screenSleeping = FALSE, !.backlightReduced = FALSE],
              m.originalBrightness, TRUE)
       [] ~m.justWokeUp /\ ~m.screenSleeping /\ seen.backlightReduced ->
            SetBrightnessImmediate([seen EXCEPT !.backlightReduced = FALSE],
                                   m.originalBrightness, FALSE)
       [] OTHER -> seen

\* Brighter on mains, darker on battery, by 20 or 30 hundredths of the range,
\* from where the backlight is at this moment.
Followed(m) ==
  LET percent == (m.backlight * 100) \div Backlight
      by == CASE m.chargingState = 1 /\ percent <= 60 -> 30
              [] m.chargingState = 1 /\ percent \in 61..80 -> 20
              [] m.chargingState = 0 /\ percent >= 50 -> -30
              [] m.chargingState = 0 /\ percent \in 31..49 -> -20
              [] OTHER -> 0
  IN IF ~m.config.follow \/ m.justWokeUp \/ by = 0 THEN m
     ELSE NoteIf(m.transitionInProgress,
                 SetBrightnessImmediate([m EXCEPT !.wanted = Clamped(@ + by * Step)],
                                        m.backlight + by * Step, FALSE),
                 "overruled")

\* A lid that is closed: powernap, or what the configuration says.
LidClosed(m, net, ok) ==
  LET still == [Blackout(m) EXCEPT !.idleTimer = FALSE, !.mprisTimer = FALSE]
      nap == m.chargingState = 1 /\ m.config.powernap /\ ~m.inPowernap
      Running(n) == [n EXCEPT !.idleTimer = TRUE, !.mprisTimer = TRUE]
  IN CASE m.actionInProgress -> m
       [] ~m.actionInProgress /\ nap -> [still EXCEPT !.inPowernap = TRUE]
       [] ~m.actionInProgress /\ ~nap /\ m.config.lid = "lock" -> Running(LockScreen(still, FALSE, net))
       [] ~m.actionInProgress /\ ~nap /\ m.config.lid = "sleep" -> SuspendSystem(still, -1, ok)
       [] OTHER -> Running(still)

\* Charger connected or disconnected; this ends a powernap.
ReadCharger(m, x) ==
  LET active == SimulateUserActivity([m EXCEPT !.chargingState = x.mains])
      followed == Followed([active EXCEPT
        !.prevIdleTime = 0,
        !.idleTimer = IF ~m.presentationMode /\ ~m.mediaPlaying THEN TRUE ELSE @])
  IN CASE x.mains = m.chargingState -> m
       [] x.mains # m.chargingState /\ m.inPowernap /\ x.mains = 0 ->
            [LidClosed([followed EXCEPT !.inPowernap = FALSE], x.net, x.ok) EXCEPT !.justWokeUp = FALSE]
       [] OTHER -> [followed EXCEPT !.justWokeUp = FALSE]

\* A critical battery caps the brightness at 40 %.
ReadWarning(m, warning) ==
  LET cap == Clamped((40 * Backlight) \div 100)
      warned == [m EXCEPT !.warning = IF m.chargingState = 0 THEN warning ELSE 0]
  IN IF warned.warning = 2 /\ m.warning # 2 /\ (m.backlight * 100) \div Backlight > 40
       THEN NoteIf(Adjusted(m), SetBrightness([warned EXCEPT !.wanted = Min({@, cap})], cap),
                   "overruled")
       ELSE warned

\* A sleep at the end of a powernap comes before the warning is read: the next poll reads it.
CheckBatteryStatus(m, x) ==
  LET read == ReadCharger(m, x)
  IN IF m.inPowernap /\ ~read.inPowernap THEN read ELSE ReadWarning(read, x.warning)

-----------------------------------------------------------------------------
\* The three sections of checkIdle; the second one may end it.
Pipeline(m, x) ==
  LET seen == IdleTime(m)
      t == Timeouts(m)
      Due(n, timeout) == seen >= timeout /\ n.prevIdleTime >= timeout
      polled == IF ~m.inPowernap /\ (seen = 0 \/ m.prevIdleTime >= t.reduce)
                  THEN CheckBatteryStatus(m, x) ELSE m
      dark(n) == n.screenSleeping \/ n.screensaverActive
      Suspended(n) ==
        IF /\ ~n.presentationMode \/ n.warning = 2
           /\ ~x.inhibited /\ ~n.mediaPlaying /\ Due(n, t.system)
           /\ n.config.idle = "sleep"
          THEN SuspendSystem([n EXCEPT !.prevIdleTime = 0], seen, x.ok)
          ELSE KeepWatching(n, seen)
  IN IF Due(polled, t.sleep) /\ ~dark(polled) THEN
       Suspended(IF /\ ~polled.mediaPlaying \/ polled.mediaPlayingType = 1 \/ ~polled.presentationMode
                    /\ ~x.inhibited
                   THEN DisplaySleep(polled) ELSE polled)
     ELSE IF polled.prevIdleTime >= t.sleep /\ seen = 0 /\ (dark(polled) \/ polled.backlightReduced) THEN
       Suspended(DisplayWake(polled, x.net))
     ELSE IF ~dark(polled) /\ Due(polled, t.reduce) /\ ~polled.backlightReduced THEN
       Dim(polled)
     ELSE IF ~dark(polled) /\ polled.prevIdleTime >= t.reduce /\ seen = 0 /\ polled.backlightReduced THEN
       Undim(polled, seen)
     ELSE Suspended(IF dark(polled) THEN polled ELSE Adapt(polled, x))

CheckIdle(m, x) ==
  CASE m.actionInProgress -> m
    [] ~m.actionInProgress /\ m.justWokeUp /\ ~x.settled -> [m EXCEPT !.prevIdleTime = 0]
    [] OTHER -> Pipeline([m EXCEPT !.justWokeUp = FALSE], x)

\* onResume, whose check is too early to do anything.
OnResume(m) ==
  LET bright == IF m.backlightReduced \/ m.screensaverActive \/ m.screenSleeping
                  THEN SetBrightnessImmediate(m, m.originalBrightness, TRUE) ELSE m
  IN [Remembered(bright) EXCEPT
        !.justWokeUp = TRUE, !.since = 0, !.inPowernap = FALSE,
        !.idleTimer = TRUE, !.mprisTimer = TRUE, !.prevIdleTime = 0,
        !.backlightReduced = FALSE, !.screenSleeping = FALSE, !.screensaverActive = FALSE]
-----------------------------------------------------------------------------
(***************************************************************************)
(* Presentations and media.                                                *)
(***************************************************************************)
\* A presentation, or a video, stops the idle timer, and a fade with it.
SetPresentationMode(m, enable, x) ==
  LET set == [m EXCEPT !.presentationMode = enable]
  IN CASE enable = m.presentationMode -> m
       [] enable # m.presentationMode /\ enable /\ m.warning # 2 /\ m.mediaPlayingType # 1 ->
            NoteIf(m.transitionTimer, [set EXCEPT !.idleTimer = FALSE, !.transitionTimer = FALSE], "cut")
       [] enable # m.presentationMode /\ ~enable -> CheckIdle([set EXCEPT !.idleTimer = TRUE], x)
       [] OTHER -> set

\* mpris_poll: something plays if any player does; the first one from there on
\* that is a browser or has a sound file tells the type, playing or not.
MprisPlaying == \E i \in DOMAIN world.players : world.players[i].playing

MprisType ==
  LET players == world.players
      telling == {i \in DOMAIN players : /\ players[i].kind \in {"browser", "audio"}
                                         /\ \E j \in 1..i : players[j].playing}
  IN IF telling # {} /\ players[Min(telling)].kind = "audio" THEN 1 ELSE 0

PollMpris(m, x) ==
  LET typed == [m EXCEPT !.mediaPlayingType = MprisType]
  IN IF MprisPlaying = m.mediaPlaying THEN typed
     ELSE SetPresentationMode([typed EXCEPT !.mediaPlaying = MprisPlaying], MprisPlaying, x)

-----------------------------------------------------------------------------
(***************************************************************************)
(* Waking up.                                                              *)
(***************************************************************************)
\* A slip for the mutation runs: the action is still in progress when the lock comes.
WokenBusy(m) ==
  WokeUp([m EXCEPT !.justWokeUp = TRUE, !.since = 0, !.idle = 0,
                   !.lockDue = m.config.lock_on_sleep, !.reacquires = @ + 1])

\* The first half of afterWakeActions.
Woken(m) ==
  WokeUp([m EXCEPT !.justWokeUp = TRUE, !.since = 0, !.idle = 0, !.actionInProgress = FALSE,
                   !.lockDue = m.config.lock_on_sleep, !.reacquires = @ + 1])

\* afterWakeActions
AfterWakeActions(m, net) ==
  LET locked == IF m.config.lock_on_sleep THEN LockScreen(Woken(m), TRUE, net) ELSE Woken(m)
      bright == IF \/ m.backlightReduced \/ m.screensaverActive \/ m.screenSleeping
                   \/ m.backlight < m.originalBrightness
                  THEN NoteIf(~(m.backlightReduced \/ m.screensaverActive \/ m.screenSleeping)
                                /\ m.wanted # m.originalBrightness,
                              SetBrightnessImmediate(locked, m.originalBrightness, TRUE),
                              "overruled")
                  ELSE locked
  IN [bright EXCEPT
        !.screenSleeping = FALSE, !.screensaverActive = FALSE, !.backlightReduced = FALSE,
        !.presentationMode = FALSE, !.prevIdleTime = 0, !.idleTimer = TRUE, !.mprisTimer = TRUE]

-----------------------------------------------------------------------------
(***************************************************************************)
(* The handlers as steps, one at a time, and what happens around them.     *)
(***************************************************************************)
\* What a handler finds.
Findings ==
  [settled : IF gui.justWokeUp THEN BOOLEAN ELSE {TRUE},
   inhibited : IF gui.config.inhibitors THEN BOOLEAN ELSE {FALSE},
   mains : {world.mains}, warning : {IF world.mains = 1 THEN 0 ELSE world.warning},
   fell : IF gui.config.adapt THEN BOOLEAN ELSE {FALSE},
   later : IF gui.config.more THEN BOOLEAN ELSE {FALSE},
   net : IF gui.config.ssids THEN Networks ELSE {"off"},
   ok : IF machine = "awake" THEN BOOLEAN ELSE {FALSE}]

\* The handler leaves the members as m; what it asks for comes about.
Handle(m) ==
  /\ machine \in {"awake", "going"}
  /\ gui' = [m EXCEPT !.asked = "no"]
  /\ machine' = CASE m.asked = "sleep" -> "going"
                  [] m.asked = "shutdown" -> "off"
                  [] OTHER -> machine
  /\ signals' = IF m.asked = "sleep" THEN Append(signals, TRUE) ELSE signals

Unmoved == UNCHANGED <<world, events>>

\* Something that happens of its own accord, if the scenario has it.
Happens(kind) ==
  /\ kind \in world.kinds
  /\ events > 0
  /\ events' = events - 1

\* The idle timer's handler.
IdleTimer ==
  /\ gui.idleTimer
  /\ \E x \in Findings : Handle(CheckIdle(gui, x))
  /\ Unmoved

\* A fade's timer.
FadeStep ==
  /\ gui.transitionTimer
  /\ Handle(UpdateBrightnessTransition(gui))
  /\ Unmoved

MprisTimer ==
  /\ gui.mprisTimer
  /\ \E x \in Findings : Handle(PollMpris(gui, x))
  /\ Unmoved

\* The battery's timer, or udev's word that the charger has come or gone.
BatteryPoll ==
  /\ \/ world.mains # gui.chargingState
     \/ world.mains = 0 /\ world.warning # gui.warning
  /\ \E x \in Findings : Handle(CheckBatteryStatus(gui, x))
  /\ Unmoved

\* The lid's timer.
CheckLidState ==
  /\ gui.lidOpen # gui.lastLidState
  /\ \E x \in Findings :
       LET m == [gui EXCEPT !.lastLidState = gui.lidOpen]
       IN Handle(CASE gui.actionInProgress -> m
                   [] ~gui.actionInProgress /\ ~gui.lidOpen -> LidClosed(m, x.net, x.ok)
                   [] OTHER -> OnResume(m))
  /\ Unmoved

\* The single shots of the Wi-Fi check and of its overlay.
WifiRetry ==
  /\ gui.retries > 0
  /\ \E x \in Findings : Handle(CheckWifiAndLock([gui EXCEPT !.retries = @ - 1], x.net))
  /\ Unmoved

HideWifiOverlay ==
  /\ gui.hides > 0
  /\ Handle(WokeUp([gui EXCEPT !.hides = @ - 1, !.wifiOverlay = FALSE]))
  /\ Unmoved

\* ... and of the delay lock, 15 s after a wake-up: a loop that is over has returned.
ReacquireDelayInhibitor ==
  /\ gui.reacquires > 0
  /\ gui.waiting # <<>> => ~gui.sleepTransitionDone
  /\ Handle([gui EXCEPT !.reacquires = @ - 1, !.delayLock = @ \/ gui.config.intercept])
  /\ Unmoved

\* The effect's last frame.
AnimationEnds ==
  /\ gui.overlay = "playing"
  /\ Handle([gui EXCEPT !.overlay = "done", !.sleepTransitionDone = TRUE])
  /\ Unmoved

\* The innermost loop sees that the effect is over.
Continue ==
  /\ gui.waiting # <<>>
  /\ gui.sleepTransitionDone
  /\ \E x \in Findings : Handle(AfterTransition(gui, x.ok))
  /\ Unmoved

\* iterateGlib: a word from logind.
IterateGlib ==
  /\ machine \in {"awake", "going"}
  /\ gui.glibTimer
  /\ signals # <<>>
  /\ \E x \in Findings :
       gui' = IF Head(signals) THEN PrepareForSleep(gui) ELSE AfterWakeActions(gui, x.net)
  /\ signals' = Tail(signals)
  /\ UNCHANGED <<machine, world, events>>

\* ... that somebody else wants to shut down, and then does not.
ShutdownCalledOff ==
  /\ Happens("shutdown")
  /\ gui.glibTimer
  /\ Handle(PrepareForShutdown(gui))
  /\ UNCHANGED world

-----------------------------------------------------------------------------
(* What users and others do. *)

\* Real input: a screensaver takes it and goes.
Input ==
  /\ Happens("input")
  /\ LET used == [gui EXCEPT !.idle = 0]
     IN Handle(IF gui.saver = "none" THEN used ELSE OnResume(DismissScreensaver(used)))
  /\ UNCHANGED world

\* A move of the mouse by a pixel, which a screensaver does not take.
Nudge ==
  /\ Happens("nudge")
  /\ Handle([gui EXCEPT !.idle = 0])
  /\ UNCHANGED world

\* An external screensaver ends by itself: its watchdog takes it for input.
ChildExits ==
  /\ Happens("child")
  /\ gui.config.saver = "external" /\ gui.saver = "shown"
  /\ Handle(OnResume(DismissScreensaver(gui)))
  /\ UNCHANGED world

MoveLid ==
  /\ Happens("lid")
  /\ Handle([gui EXCEPT !.lidOpen = ~@])
  /\ UNCHANGED world

\* handleSleepButton and handlePowerButton, by x11EventFilter.
Button ==
  /\ Happens("button")
  /\ \E x \in Findings : Handle(PressButton(gui, x.ok))
  /\ UNCHANGED world

\* setBrightness, by the popup's slider or a remote call.
ChooseBrightness ==
  /\ Happens("brightness")
  /\ \E raw \in Levels :
       Handle(NoteIf(Adjusted(gui), SetBrightness([gui EXCEPT !.wanted = raw], raw), "overruled"))
  /\ UNCHANGED world

\* setPresentationMode, by the popup or a remote call.
ChoosePresentation ==
  /\ Happens("presentation")
  /\ \E enable \in BOOLEAN, x \in Findings : Handle(SetPresentationMode(gui, enable, x))
  /\ UNCHANGED world

\* The remote calls lockScreen() and suspend().
RemoteLock ==
  /\ Happens("lock")
  /\ Handle(LockScreenNow(gui))
  /\ UNCHANGED world

RemoteSuspend ==
  /\ Happens("suspend")
  /\ \E x \in Findings : Handle(SuspendSystem(gui, -1, x.ok))
  /\ UNCHANGED world

\* The world changes: the charger, the charge, the media players.
Change ==
  /\ machine \in {"awake", "going", "asleep"}
  /\ \/ Happens("charger") /\ world' = [world EXCEPT !.mains = 1 - @]
     \/ /\ Happens("warning")
        /\ \E warning \in (world.warning + 1)..2 : world' = [world EXCEPT !.warning = warning]
     \/ /\ Happens("media")
        /\ \E list \in Playlists \ {world.players} : world' = [world EXCEPT !.players = list]
  /\ UNCHANGED <<gui, machine, signals>>

\* Somebody else asks logind for a sleep.
OthersSleep ==
  /\ Happens("others")
  /\ machine = "awake"
  /\ machine' = "going"
  /\ signals' = Append(signals, TRUE)
  /\ UNCHANGED <<gui, world>>

\* logind waits five seconds for the delay lock, no longer.
FallAsleep ==
  /\ machine = "going"
  /\ machine' = "asleep"
  /\ UNCHANGED <<gui, world, signals, events>>

Wake ==
  /\ machine = "asleep"
  /\ machine' = "awake"
  /\ signals' = Append(signals, FALSE)
  /\ UNCHANGED <<gui, world, events>>

\* Time passes without input, once the handlers that are due have run: a fade and an
\* effect are over, and so are the five seconds after a wake-up and the single shots,
\* and the checks have seen the idle time there was.
Idles ==
  /\ machine = "awake"
  /\ signals = <<>> \/ ~gui.glibTimer
  /\ ~gui.transitionTimer /\ gui.overlay # "playing"
  /\ {gui.retries, gui.hides, gui.reacquires} = {0}
  /\ gui.waiting # <<>> => ~gui.sleepTransitionDone
  /\ gui.idleTimer /\ ~gui.actionInProgress =>
       ~gui.justWokeUp /\ gui.prevIdleTime = IdleTime(gui)
  /\ gui.idle < MaxIdle \/ gui.since < WakeCap
  /\ LET dark == gui.backlightReduced \/ gui.screensaverActive \/ gui.screenSleeping
         unchecked == ~gui.idleTimer \/ gui.actionInProgress \/ gui.waiting # <<>>
     IN gui' = NoteIf(gui.idle = 0 /\ dark /\ unchecked,
                      [gui EXCEPT !.idle = Min({@ + 1, MaxIdle}),
                                  !.since = Min({@ + 1, WakeCap})],
                      "unseen")
  /\ UNCHANGED <<world, machine, signals, events>>

Next ==
  \/ IdleTimer \/ FadeStep \/ MprisTimer \/ BatteryPoll \/ CheckLidState
  \/ WifiRetry \/ HideWifiOverlay \/ ReacquireDelayInhibitor
  \/ AnimationEnds \/ Continue \/ IterateGlib \/ ShutdownCalledOff
  \/ Input \/ Nudge \/ ChildExits \/ MoveLid \/ Button
  \/ ChooseBrightness \/ ChoosePresentation \/ RemoteLock \/ RemoteSuspend
  \/ Change \/ OthersSleep \/ FallAsleep \/ Wake \/ Idles

\* The client after start(), on mains.
Fresh(config) ==
  [config |-> config, chargingState |-> 1, warning |-> 0,
   idleTimer |-> TRUE, mprisTimer |-> TRUE, transitionTimer |-> FALSE, glibTimer |-> TRUE,
   backlight |-> Backlight, originalBrightness |-> Backlight,
   fade |-> [from |-> Backlight, to |-> Backlight, step |-> 0], transitionInProgress |-> FALSE,
   backlightReduced |-> FALSE, screenSleeping |-> FALSE, screensaverActive |-> FALSE,
   prevIdleTime |-> 0, justWokeUp |-> TRUE, presentationMode |-> FALSE,
   mediaPlaying |-> FALSE, mediaPlayingType |-> 0, actionInProgress |-> FALSE,
   lidOpen |-> TRUE, lastLidState |-> TRUE, inPowernap |-> FALSE,
   wifiCheckCounter |-> 0, useWifiOverlay |-> FALSE, wifiOverlay |-> FALSE,
   retries |-> 0, hides |-> 0, reacquires |-> 0, lockDue |-> FALSE,
   saver |-> "none", overlay |-> "none", sleepTransitionDone |-> FALSE, waiting |-> <<>>,
   delayLock |-> config.intercept, asked |-> "no",
   idle |-> 0, since |-> 0, wanted |-> Backlight, mishaps |-> {}]

Init ==
  /\ \E s \in Scenarios :
       /\ gui = Fresh(s.config)
       /\ world = [mains |-> 1, warning |-> 0, players |-> <<>>, kinds |-> s.kinds]
       /\ events = s.events
  /\ machine = "awake"
  /\ signals = <<>>

Spec == Init /\ [][Next]_vars

-----------------------------------------------------------------------------
(***************************************************************************)
(* Properties.                                                             *)
(***************************************************************************)
\* Types of all variables.
TypeOK ==
  /\ gui.chargingState \in {0, 1} /\ gui.warning \in 0..2
  /\ {gui.backlight, gui.originalBrightness, gui.wanted} \subseteq 1..Backlight
  /\ gui.fade.step \in 0..TRANSITION_STEPS
  /\ {gui.prevIdleTime, gui.idle, gui.since} \subseteq 0..Max({MaxIdle, WakeCap})
  /\ gui.mediaPlayingType \in {0, 1} /\ gui.wifiCheckCounter \in 0..2
  /\ {gui.retries, gui.hides, gui.reacquires} \subseteq Nat
  /\ gui.saver \in {"none", "shown", "black"} /\ gui.overlay \in {"none", "playing", "done"}
  /\ gui.asked = "no" /\ gui.mishaps \subseteq Mishaps
  /\ world.mains \in {0, 1} /\ world.warning \in 0..2
  /\ machine \in {"awake", "going", "asleep", "off"}
  /\ signals \in Seq(BOOLEAN) /\ events \in Nat

\* However often the screen is dimmed, turned off, covered or slept with, the brightness
\* comes back to what the user or the charge made it, unless a fade stops on its way or a
\* brightness is set while another one is remembered (see Mishaps).
BrightnessKept ==
  ~Adjusted(gui) /\ gui.mishaps \cap {"cut", "overruled"} = {} => gui.backlight = gui.wanted

\* logind has refused a sleep, or the daemon was not there to shut down.
Refused == gui.mishaps \cap {"refused", "dropped"} # {}

\* The last frame of an effect covers the screen around a sleep only, as nothing but wokeUp
\* takes it away; after a sleep that was refused or dropped it stays.
OverlayOnlyAroundSleep ==
  gui.overlay # "none" =>
    \/ gui.waiting # <<>> \/ machine # "awake" \/ signals # <<>>
    \/ Refused

\* The overlay of the Wi-Fi check has a timer that will take it away.
WifiOverlayGoes ==
  gui.wifiOverlay /\ gui.useWifiOverlay => gui.retries > 0 \/ gui.hides > 0

\* Neither overlay stays in the user's way.
OverlaysGo == OverlayOnlyAroundSleep /\ WifiOverlayGoes

\* A lock that is due after a sleep comes about, or a retry of the Wi-Fi check is under way.
LockedAfterWake == gui.lockDue => gui.retries > 0

\* The flag that makes the buttons deaf and fades impossible is never left behind: a fade
\* or an effect will clear it, unless the fade was stopped on its way.
ButtonsHeard ==
  gui.transitionInProgress =>
    gui.transitionTimer \/ gui.waiting # <<>> \/ "cut" \in gui.mishaps

\* No sleep is under way, and all of logind's words are heard.
Quiet == machine = "awake" /\ signals = <<>> /\ gui.waiting = <<>>

\* Idle time is watched whenever the client is at rest: only a presentation, a powernap
\* and a sleep that was refused or a shutdown that was called off leave the idle timer off.
IdleWatched ==
  Quiet /\ ~gui.presentationMode /\ ~gui.inPowernap =>
    gui.idleTimer \/ gui.mishaps \cap {"refused", "called off"} # {}

\* Sleeps that others ask for wait for this client: the delay lock is held or about to be
\* held again, unless the client gave it up for a sleep that was refused.
DelayLockHeld ==
  Quiet /\ gui.config.intercept =>
    gui.delayLock \/ gui.reacquires > 0 \/ Refused

\* A screen that is dimmed or dark comes back with the next input, as the last idle time
\* seen is past the timeout, whatever has become of that since; unless the user's last
\* input was never seen, as in a presentation, which stops the checks.
InputIsNoticed ==
  LET t == Timeouts(gui)
      dark == gui.screenSleeping \/ gui.screensaverActive
  IN Quiet /\ "unseen" \notin gui.mishaps =>
       /\ dark => gui.prevIdleTime >= t.sleep
       /\ gui.backlightReduced /\ ~dark => gui.prevIdleTime >= t.reduce

\* A client at rest has all that it needs to react to the user, to idle time and to others.
ClientAtRest == ButtonsHeard /\ IdleWatched /\ DelayLockHeld /\ InputIsNoticed

\* Idle time from before a wake-up does not turn the screen off soon after it.
NotRightAfterWaking ==
  [][ LET Dark(m) == m.screenSleeping \/ m.screensaverActive
      IN ~Dark(gui) /\ Dark(gui') =>
           gui.since >= Min({WakeCap, Timeouts(gui').sleep}) ]_vars

\* While an effect plays, its overlay is there to end it: wokeUp, which destroys it, comes
\* when the screen is off, as handleWakeUp says.  The code does not keep to it.
EffectEnds == gui.waiting # <<>> /\ ~gui.sleepTransitionDone => gui.overlay = "playing"

=============================================================================
