------------------------------- MODULE Settings -------------------------------
(***************************************************************************)
(* The settings: the file they are kept in (src/src/config_manager.cpp, in *)
(* the build that brings its own SimpleConfig), the one copy in memory     *)
(* that all of the client reads and writes, the dialog that edits it       *)
(* (config_dialog.cpp), how the popup and the tray open it                 *)
(* (yabatman_gui.cpp), and the daemon, which is told of some of them.      *)
(*                                                                         *)
(* Of the settings there is one of each kind: the timeouts, with their     *)
(* order; the charge limit and the slider, which depend on the machine;    *)
(* the screensaver, one of a list; a list of names; the frequency cap,     *)
(* which goes to the daemon; close_popup_animation; and last_calibration,  *)
(* which is written by the calibration alone.  Settings that are copied    *)
(* like these are left out, and so are theme, colours and layout.          *)
(***************************************************************************)
EXTENDS Integers, Sequences, SequencesExt, FiniteSets, FiniteSetsExt

CONSTANTS
  Files,      \* what yabatmanrc can contain when the client first starts
  Machines,   \* what machines have: [backlight, threshold : BOOLEAN]
  Savers,     \* the screensavers of the list, "random" the first
  Timeouts,   \* the numbers of minutes that users enter
  Lists,      \* the lists that users make
  EventBound  \* how often users, calibrations, sleeps and crashes act

Powers == {"bat", "ac"}
ReduceMax == 60
SleepMax == 180
IdleMax == 360

(***************************************************************************)
(* The keys in the order in which sync writes them: by group, then by key, *)
(* both sorted.                                                            *)
(***************************************************************************)
KeyOrder ==
  <<"ac_display_sleep_timeout", "ac_idle_timeout", "ac_backlight_reduce_timeout",
    "charge_limit_enabled", "charge_limit_value", "eco_freq_cap", "last_calibration",
    "ac_screensaver", "close_popup_animation",
    "bat_display_sleep_timeout", "bat_idle_timeout", "bat_backlight_reduce_timeout",
    "whitelist", "backlight_slider">>

Keys == Range(KeyOrder)

\* The keys that the three timeouts of either power source are kept under.
Numbers == {"ac_display_sleep_timeout", "ac_idle_timeout", "ac_backlight_reduce_timeout",
            "bat_display_sleep_timeout", "bat_idle_timeout", "bat_backlight_reduce_timeout"}

ASSUME SettingsAssumption ==
  /\ Machines \subseteq [backlight : BOOLEAN, threshold : BOOLEAN]
  /\ "random" \in Savers
  /\ Timeouts \subseteq Nat
  /\ Lists \subseteq Seq(Seq(STRING) \ {<<>>})
  /\ EventBound \in Nat
  /\ \A f \in Files : DOMAIN f \subseteq Keys
  \* readNumEntry makes a number of whatever is there.
  /\ \A f \in Files :
       \A key \in DOMAIN f \cap (Numbers \cup {"charge_limit_value", "eco_freq_cap"}) :
         f[key] \in Int
  \* readListEntry cuts whatever is there at its commas.
  /\ \A f \in Files : "whitelist" \in DOMAIN f => f["whitelist"] \in Seq(STRING)

VARIABLES
  machine, \* what this machine has
  file,    \* yabatmanrc: a function from the keys it holds to what is stored
  config,  \* the settings in memory; of no meaning while the client is down
  dialog,  \* the settings dialog with its widgets, and the tests it runs
  popup,   \* [visible, open]: the popup, and the tray's idea of it
  client,  \* whether the client runs
  daemon,  \* [up, eco, limit]: with what it was told last
  history, \* see Init
  events   \* how much of EventBound is used up

vars == <<machine, file, config, dialog, popup, client, daemon, history, events>>

-----------------------------------------------------------------------------
(* ConfigManager. *)

\* loadDefaults
Defaults ==
  [ac_display_sleep_timeout |-> 2, ac_idle_timeout |-> 50, ac_backlight_reduce_timeout |-> 1,
   charge_limit_enabled |-> FALSE, charge_limit_value |-> 100, eco_freq_cap |-> 40,
   last_calibration |-> 0, ac_screensaver |-> "random", close_popup_animation |-> TRUE,
   bat_display_sleep_timeout |-> 2, bat_idle_timeout |-> 20, bat_backlight_reduce_timeout |-> 1,
   whitelist |-> <<<<"colord">>>>, backlight_slider |-> 1]

\* A list is stored with commas between its entries.  An entry is a sequence of the
\* pieces between its own commas, so what is stored is the pieces of them all, ...
Stored(key, value) == IF key = "whitelist" THEN FlattenSeq(value) ELSE value

\* ... each of which is an entry when it is read.
Read(key, stored) == IF key = "whitelist" THEN [i \in DOMAIN stored |-> <<stored[i]>>] ELSE stored

\* load
Load(f) == [key \in Keys |-> IF key \in DOMAIN f THEN Read(key, f[key]) ELSE Defaults[key]]

\* save: the keys that the file held before are written again.
Save(c) == [key \in Keys |-> Stored(key, c[key])]

\* A crash while the file, cut to nothing first, is being written.
Torn(c) == {[key \in {KeyOrder[i] : i \in 1..n} |-> Stored(key, c[key])] : n \in 0..Len(KeyOrder) - 1}

-----------------------------------------------------------------------------
(* ConfigDialog: its widgets. *)

Clamp(v, low, high) == IF v < low THEN low ELSE IF v > high THEN high ELSE v

\* The three timeouts of a power source in a record of settings or widgets.
TimeoutsOf(c, power) ==
  IF power = "ac"
    THEN [reduce |-> c.ac_backlight_reduce_timeout, sleep |-> c.ac_display_sleep_timeout,
          idle |-> c.ac_idle_timeout]
    ELSE [reduce |-> c.bat_backlight_reduce_timeout, sleep |-> c.bat_display_sleep_timeout,
          idle |-> c.bat_idle_timeout]

WithTimeouts(c, power, t) ==
  IF power = "ac"
    THEN [c EXCEPT !.ac_backlight_reduce_timeout = t.reduce,
                   !.ac_display_sleep_timeout = t.sleep, !.ac_idle_timeout = t.idle]
    ELSE [c EXCEPT !.bat_backlight_reduce_timeout = t.reduce,
                   !.bat_display_sleep_timeout = t.sleep, !.bat_idle_timeout = t.idle]

\* The spin boxes clamp what they are given, and are put in order.
Shown(t) ==
  LET reduce == Clamp(t.reduce, 1, ReduceMax)
      sleep == Max({Clamp(t.sleep, 1, SleepMax), reduce + 1})
      idle == Max({Clamp(t.idle, 1, IdleMax), sleep + 1})
  IN [reduce |-> reduce, sleep |-> sleep, idle |-> idle]

\* A slip for the mutation runs: the spin boxes of mains take the values of the battery.
LoadTimeoutsCopied(c) ==
  WithTimeouts(WithTimeouts(c, "ac", Shown(TimeoutsOf(c, "bat"))), "bat", Shown(TimeoutsOf(c, "bat")))

LoadTimeouts(c) ==
  WithTimeouts(WithTimeouts(c, "ac", Shown(TimeoutsOf(c, "ac"))), "bat", Shown(TimeoutsOf(c, "bat")))

\* The first of the list stands for a screensaver that is gone.
Listed(saver) == IF saver \in Savers THEN saver ELSE "random"

\* loadConfigValues: the widgets for c, which were w before.  What is not loaded keeps
\* what it shows: close_popup_animation, and the charge limit where there is none.
LoadConfigValues(c, w) ==
  [LoadTimeouts(c) EXCEPT
     !.backlight_slider = IF machine.backlight THEN @ ELSE 0,
     !.charge_limit_enabled = IF machine.threshold THEN @ ELSE w.charge_limit_enabled,
     !.charge_limit_value = IF machine.threshold THEN Clamp(@, 60, 100) ELSE w.charge_limit_value,
     !.eco_freq_cap = Clamp(@, 20, 80),
     !.ac_screensaver = Listed(@),
     !.close_popup_animation = w.close_popup_animation]

\* setupUI: as the widgets are made.
NewWidgets == [Defaults EXCEPT !.charge_limit_enabled = FALSE, !.charge_limit_value = 60,
                               !.close_popup_animation = FALSE]

\* saveConfigValues: the settings c with what the widgets w say.
SaveConfigValues(c, w) == [w EXCEPT !.last_calibration = c.last_calibration]

\* onBatReduceChanged, onAcReduceChanged: the others move up.
ReduceChanged(t, val) ==
  LET sleep == IF val >= t.sleep THEN val + 1 ELSE t.sleep
  IN [reduce |-> val, sleep |-> sleep, idle |-> IF sleep >= t.idle THEN sleep + 1 ELSE t.idle]

\* A slip for the mutation runs: the idle timeout does not move up.
SleepChangedAlone(t, val) ==
  LET reduce == IF val <= t.reduce THEN Max({val - 1, 1}) ELSE t.reduce
      sleep == Max({val, reduce + 1})
  IN [reduce |-> reduce, sleep |-> sleep, idle |-> t.idle]

\* onBatSleepChanged, onAcSleepChanged: reduce moves down, no further than to 1.
SleepChanged(t, val) ==
  LET reduce == IF val <= t.reduce THEN Max({val - 1, 1}) ELSE t.reduce
      sleep == Max({val, reduce + 1})
  IN [reduce |-> reduce, sleep |-> sleep, idle |-> IF sleep >= t.idle THEN sleep + 1 ELSE t.idle]

\* onBatIdleChanged, onAcIdleChanged: both move down.
IdleChanged(t, val) ==
  CASE val > t.sleep -> [t EXCEPT !.idle = val]
    [] val <= t.sleep /\ val - 1 > t.reduce -> [t EXCEPT !.sleep = val - 1, !.idle = val]
    [] val <= t.sleep /\ val - 1 <= t.reduce ->
         LET reduce == Max({val - 2, 1})
         IN [reduce |-> reduce, sleep |-> reduce + 1, idle |-> reduce + 2]

-----------------------------------------------------------------------------
(* The dialog as a whole, and the daemon. *)

NoTest == [effect |-> "none", saver |-> FALSE, effectTimer |-> FALSE, saverTimer |-> FALSE,
           minimized |-> FALSE]

Closed == [open |-> FALSE, widgets |-> NewWidgets, test |-> NoTest]

\* What the daemon takes of syncDaemonAdvancedSettings.
Told(c) ==
  IF ~daemon.up THEN daemon
  ELSE [daemon EXCEPT
          !.eco = IF c.eco_freq_cap \in 20..80 THEN c.eco_freq_cap ELSE @,
          !.limit = IF c.charge_limit_enabled /\ c.charge_limit_value \in 60..100
                      /\ machine.threshold THEN c.charge_limit_value ELSE @]

\* One of the things that are bounded.
Acts == events < EventBound /\ events' = events + 1

OnlyDialog == UNCHANGED <<machine, file, config, popup, client, daemon, history>>

-----------------------------------------------------------------------------
(* The popup and the tray; a modal dialog keeps clicks from both. *)

\* onTrayClicked; losing the focus hides the popup as a second click does.
TrayClick ==
  /\ client /\ ~dialog.open
  /\ popup' = IF popup.open THEN [visible |-> FALSE, open |-> FALSE]
              ELSE [visible |-> TRUE, open |-> TRUE]
  /\ UNCHANGED <<machine, file, config, dialog, client, daemon, history, events>>

\* openConfig, up to the dialog's event loop.
OpenConfig ==
  /\ client /\ popup.visible /\ ~dialog.open
  /\ popup' = [visible |-> FALSE, open |-> FALSE]
  /\ dialog' = [Closed EXCEPT !.open = TRUE, !.widgets = LoadConfigValues(config, NewWidgets)]
  /\ history' = [history EXCEPT !.untouched = TRUE]
  /\ UNCHANGED <<machine, file, config, client, daemon, events>>

-----------------------------------------------------------------------------
(* The dialog's buttons and widgets. *)

Edit(widgets) ==
  /\ Acts
  /\ client /\ dialog.open
  /\ dialog' = [dialog EXCEPT !.widgets = widgets]
  /\ history' = [history EXCEPT !.untouched = FALSE]
  /\ UNCHANGED <<machine, file, config, popup, client, daemon>>

EditReduce(power) ==
  \E val \in Timeouts : val \in 1..ReduceMax /\
    Edit(WithTimeouts(dialog.widgets, power, ReduceChanged(TimeoutsOf(dialog.widgets, power), val)))

EditSleep(power) ==
  \E val \in Timeouts : val \in 1..SleepMax /\
    Edit(WithTimeouts(dialog.widgets, power, SleepChanged(TimeoutsOf(dialog.widgets, power), val)))

EditIdle(power) ==
  \E val \in Timeouts : val \in 1..IdleMax /\
    Edit(WithTimeouts(dialog.widgets, power, IdleChanged(TimeoutsOf(dialog.widgets, power), val)))

EditLimit ==
  /\ machine.threshold
  /\ \E enabled \in BOOLEAN :
       Edit([dialog.widgets EXCEPT !.charge_limit_enabled = enabled, !.charge_limit_value = 80])

EditSlider ==
  /\ machine.backlight
  /\ Edit([dialog.widgets EXCEPT !.backlight_slider = 1 - @])

EditOthers ==
  \/ Edit([dialog.widgets EXCEPT !.eco_freq_cap = 60])
  \/ Edit([dialog.widgets EXCEPT !.close_popup_animation = ~@])
  \/ \E saver \in Savers : Edit([dialog.widgets EXCEPT !.ac_screensaver = saver])

\* onAddServiceWhitelist, onRemoveServiceWhitelist
EditList == \E list \in Lists : Edit([dialog.widgets EXCEPT !.whitelist = list])

\* A slip for the mutation runs: the file is written before the widgets are read.
AcceptOld ==
  /\ client /\ dialog.open
  /\ config' = SaveConfigValues(config, dialog.widgets)
  /\ file' = Save(config)
  /\ daemon' = Told(config')
  /\ dialog' = Closed
  /\ history' = [history EXCEPT !.unsaved = FALSE, !.told = daemon.up]
  /\ UNCHANGED <<machine, popup, client, events>>

\* A slip for the mutation runs: what openConfig does on acceptance is forgotten.
AcceptQuietly ==
  /\ client /\ dialog.open
  /\ config' = SaveConfigValues(config, dialog.widgets)
  /\ file' = Save(config')
  /\ dialog' = Closed
  /\ history' = [history EXCEPT !.unsaved = FALSE, !.told = daemon.up]
  /\ UNCHANGED <<machine, popup, client, daemon, events>>

\* onAccept, and applyConfigSettings when the dialog is gone.
Accept ==
  /\ client /\ dialog.open
  /\ config' = SaveConfigValues(config, dialog.widgets)
  /\ file' = Save(config')
  /\ daemon' = Told(config')
  /\ dialog' = Closed
  /\ history' = [history EXCEPT !.unsaved = FALSE, !.told = daemon.up]
  /\ UNCHANGED <<machine, popup, client, events>>

\* By the button or Escape.
Reject ==
  /\ client /\ dialog.open
  /\ dialog' = Closed
  /\ UNCHANGED <<machine, file, config, popup, client, daemon, history, events>>

\* onResetDefaults: the settings in memory are reset at once, those in the file are not.
ResetDefaults ==
  /\ Acts
  /\ client /\ dialog.open
  /\ config' = Defaults
  /\ dialog' = [dialog EXCEPT !.widgets = LoadConfigValues(Defaults, @)]
  /\ history' = [history EXCEPT !.unsaved = TRUE, !.told = FALSE]
  /\ UNCHANGED <<machine, file, popup, client, daemon>>

-----------------------------------------------------------------------------
(* The tests of effects and screensavers, which hide the dialog. *)

Testing == client /\ dialog.open /\ OnlyDialog

\* onTestTransition: a timer of an earlier test is not stopped.
TestTransition ==
  /\ Acts
  /\ Testing /\ ~dialog.test.minimized
  /\ dialog' = [dialog EXCEPT !.test.effect = "playing", !.test.minimized = TRUE]

\* A slip for the mutation runs: the end of the effect starts no timer.
TestTransitionCompleteOnly ==
  /\ Testing /\ dialog.test.effect = "playing"
  /\ dialog' = [dialog EXCEPT !.test.effect = "complete"]
  /\ UNCHANGED events

\* onTestTransitionComplete
TestTransitionComplete ==
  /\ Testing /\ dialog.test.effect = "playing"
  /\ dialog' = [dialog EXCEPT !.test.effect = "complete", !.test.effectTimer = TRUE]
  /\ UNCHANGED events

\* onTestTransitionTimeout
TestTransitionTimeout ==
  /\ Testing /\ dialog.test.effectTimer
  /\ dialog' = [dialog EXCEPT !.test.effect = "none", !.test.effectTimer = FALSE,
                              !.test.minimized = FALSE]
  /\ UNCHANGED events

\* onTestScreensaver
TestScreensaver ==
  /\ Acts
  /\ Testing /\ ~dialog.test.minimized
  /\ dialog.widgets.ac_screensaver # "none"
  /\ dialog' = [dialog EXCEPT !.test.saver = TRUE, !.test.saverTimer = TRUE, !.test.minimized = TRUE]

SaverEnds ==
  dialog' = [dialog EXCEPT !.test.saver = FALSE, !.test.saverTimer = FALSE, !.test.minimized = FALSE]

\* onTestScreensaverTimeout
TestScreensaverTimeout == Testing /\ dialog.test.saverTimer /\ SaverEnds /\ UNCHANGED events

\* onTestScreensaverFinished, when the screensaver notices the user.
TestScreensaverFinished == Testing /\ dialog.test.saver /\ SaverEnds /\ UNCHANGED events

\* The dialog is brought back by its entry in the task bar.
Restore ==
  /\ Acts
  /\ Testing /\ dialog.test.minimized
  /\ dialog' = [dialog EXCEPT !.test.minimized = FALSE]

-----------------------------------------------------------------------------
(* What others do. *)

\* A slip for the mutation runs: the dialog is destroyed, its tests are not.
DismissWithTests ==
  /\ Acts
  /\ client
  /\ popup' = [visible |-> FALSE, open |-> FALSE]
  /\ dialog' = [Closed EXCEPT !.test = dialog.test]
  /\ UNCHANGED <<machine, file, config, client, daemon, history>>

\* dismissAllDialogs, for a sleep, a lock or a screensaver: as Escape would close it.
Dismiss ==
  /\ Acts
  /\ client
  /\ popup' = [visible |-> FALSE, open |-> FALSE]
  /\ dialog' = Closed
  /\ UNCHANGED <<machine, file, config, client, daemon, history>>

\* The end of a calibration saves the settings in memory, whatever they are.
Calibrated ==
  /\ Acts
  /\ client
  /\ config' = [config EXCEPT !.last_calibration = 1]
  /\ file' = Save(config')
  /\ history' = [history EXCEPT !.unsaved = FALSE]
  /\ UNCHANGED <<machine, dialog, popup, client, daemon>>

Leave ==
  /\ client' = FALSE
  /\ dialog' = Closed /\ popup' = [visible |-> FALSE, open |-> FALSE]

Quit ==
  /\ Acts
  /\ client /\ Leave
  /\ UNCHANGED <<machine, file, config, daemon, history>>

\* A crash in the middle of sync.
CrashInSave ==
  /\ Acts
  /\ client /\ dialog.open /\ Leave
  /\ file' \in Torn(SaveConfigValues(config, dialog.widgets))
  /\ history' = [history EXCEPT !.torn = TRUE]
  /\ UNCHANGED <<machine, config, daemon>>

\* The constructor's load, and start.
StartClient ==
  /\ ~client
  /\ client' = TRUE
  /\ config' = Load(file)
  /\ daemon' = Told(config')
  /\ history' = [history EXCEPT !.unsaved = FALSE, !.torn = FALSE, !.told = daemon.up]
  /\ UNCHANGED <<machine, file, dialog, popup, events>>

\* The limit is in the battery's controller and stays.
DaemonMoves ==
  /\ Acts
  /\ daemon' = [daemon EXCEPT !.up = ~@, !.eco = 40]
  /\ history' = [history EXCEPT !.told = FALSE]
  /\ UNCHANGED <<machine, file, config, dialog, popup, client>>

-----------------------------------------------------------------------------
Next ==
  \/ TrayClick \/ OpenConfig
  \/ \E power \in Powers : EditReduce(power) \/ EditSleep(power) \/ EditIdle(power)
  \/ EditLimit \/ EditSlider \/ EditOthers \/ EditList
  \/ Accept \/ Reject \/ ResetDefaults
  \/ TestTransition \/ TestTransitionComplete \/ TestTransitionTimeout
  \/ TestScreensaver \/ TestScreensaverTimeout \/ TestScreensaverFinished \/ Restore
  \/ Dismiss \/ Calibrated \/ Quit \/ CrashInSave \/ StartClient \/ DaemonMoves

Init ==
  /\ machine \in Machines
  /\ file \in Files
  /\ config = Load(file)
  /\ dialog = Closed
  /\ popup = [visible |-> FALSE, open |-> FALSE]
  /\ client = TRUE
  /\ daemon = [up |-> TRUE,
               eco |-> IF config.eco_freq_cap \in 20..80 THEN config.eco_freq_cap ELSE 40,
               limit |-> IF config.charge_limit_enabled /\ config.charge_limit_value \in 60..100
                           /\ machine.threshold THEN config.charge_limit_value ELSE 100]
  /\ history =
       [untouched |-> TRUE,  \* nobody has edited the dialog's widgets
        unsaved |-> FALSE,   \* a reset is in memory and not in the file
        torn |-> FALSE,      \* the last save was cut short
        told |-> TRUE]       \* the daemon was told what is in memory, and has been up since
  /\ events = 0

\* Timers fire and effects play to their end.
Fairness ==
  WF_vars(TestTransitionComplete) /\ WF_vars(TestTransitionTimeout) /\ WF_vars(TestScreensaverTimeout)

Spec == Init /\ [][Next]_vars /\ Fairness

-----------------------------------------------------------------------------
(***************************************************************************)
(* Properties.                                                             *)
(***************************************************************************)
\* Types: no widget shows what its range does not hold.
TypeOK ==
  /\ machine \in Machines /\ DOMAIN file \subseteq Keys
  /\ DOMAIN config = Keys /\ DOMAIN dialog.widgets = Keys
  /\ dialog.widgets.charge_limit_value \in 60..100
  /\ dialog.widgets.eco_freq_cap \in 20..80
  /\ dialog.widgets.ac_screensaver \in Savers
  /\ dialog.test.effect \in {"none", "playing", "complete"}
  /\ {dialog.open, dialog.test.saver, dialog.test.effectTimer, dialog.test.saverTimer,
      dialog.test.minimized, popup.visible, popup.open, client, daemon.up} \subseteq BOOLEAN
  /\ daemon.eco \in 20..80 /\ daemon.limit \in 60..100
  /\ events \in 0..EventBound

\* Whatever the file says and in whatever order the spin boxes are moved, the dialog
\* offers timeouts in order and in range: dim first, then switch off, then sleep.
TimeoutsOrdered ==
  dialog.open =>
    \A power \in Powers :
      LET t == TimeoutsOf(dialog.widgets, power)
      IN 1 <= t.reduce /\ t.reduce < t.sleep /\ t.sleep < t.idle
         /\ t.reduce <= ReduceMax /\ t.sleep <= SleepMax /\ t.idle <= IdleMax

\* The settings that the dialog changes without being asked to: what it never loads,
\* what this machine does not have, and what is out of order, of range or of the list.
Overwritten ==
  {"close_popup_animation"}
  \cup (IF machine.backlight THEN {} ELSE {"backlight_slider"})
  \cup (IF machine.threshold /\ config.charge_limit_value \in 60..100 THEN {}
        ELSE {"charge_limit_enabled", "charge_limit_value"})
  \cup (IF config.eco_freq_cap \in 20..80 THEN {} ELSE {"eco_freq_cap"})
  \cup (IF config.ac_screensaver \in Savers THEN {} ELSE {"ac_screensaver"})
  \cup (IF Shown(TimeoutsOf(config, "ac")) = TimeoutsOf(config, "ac") THEN {}
        ELSE {"ac_display_sleep_timeout", "ac_idle_timeout", "ac_backlight_reduce_timeout"})
  \cup (IF Shown(TimeoutsOf(config, "bat")) = TimeoutsOf(config, "bat") THEN {}
        ELSE {"bat_display_sleep_timeout", "bat_idle_timeout", "bat_backlight_reduce_timeout"})

\* A dialog that is opened and accepted with nothing edited in between changes no other
\* setting, although all of them go through widgets and back.
OkKeepsSettings ==
  [][ Accept /\ history.untouched => \A key \in Keys \ Overwritten : config'[key] = config[key] ]_vars

\* A client that is started has the settings that the one before had in memory, apart from
\* a reset that was never saved, a save that was cut short and entries with commas, which
\* come back in pieces.
SettingsSurviveRestart ==
  [][ ~client /\ client' /\ ~history.unsaved /\ ~history.torn =>
        \A key \in Keys : config'[key] = Read(key, Stored(key, config[key])) ]_vars

\* A daemon that was up when the settings in memory were last accepted or loaded, and since,
\* has their frequency cap and their charge limit, unless these are out of range.
DaemonFollows ==
  client /\ daemon.up /\ history.told =>
    /\ config.eco_freq_cap \in 20..80 => daemon.eco = config.eco_freq_cap
    /\ config.charge_limit_enabled /\ config.charge_limit_value \in 60..100 /\ machine.threshold =>
         daemon.limit = config.charge_limit_value

\* No test outlives its dialog: it would cover the screen with nobody to remove it.
NoTestOutlivesDialog == ~dialog.open => dialog.test = NoTest

\* A test that covers the screen ends without the user, also when another one is started
\* while its timer runs.
TestsEnd == (dialog.test.effect # "none" \/ dialog.test.saver) ~>
              (dialog.test.effect = "none" /\ ~dialog.test.saver)

\* What the dialog says of the slider: its setting is remembered on a machine that has no
\* backlight to control.
PreferenceRemembered ==
  [][ history.untouched /\ dialog.open /\ config' # config /\ ~history.unsaved =>
        config'.backlight_slider = config.backlight_slider ]_vars

=============================================================================
