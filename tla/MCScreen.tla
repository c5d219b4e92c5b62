------------------------------- MODULE MCScreen -------------------------------
(***************************************************************************)
(* Instances of Screen: five configurations, each with the events that     *)
(* matter to it.                                                           *)
(***************************************************************************)
EXTENDS Screen

Plain ==
  [reduce |-> 1, sleep |-> 2, system |-> 3, auto |-> FALSE, saver |-> "none", effect |-> FALSE,
   lock_on_display_off |-> FALSE, lock_on_sleep |-> FALSE, ssids |-> FALSE,
   button |-> "nothing", lid |-> "nothing", powernap |-> FALSE, idle |-> "nothing",
   intercept |-> FALSE, inhibitors |-> FALSE, more |-> FALSE, adapt |-> FALSE, follow |-> FALSE]

MCScenarios == {
  \* the display, on mains and on battery
  [config |-> [Plain EXCEPT !.saver = "own", !.more = TRUE, !.adapt = TRUE, !.follow = TRUE,
                            !.auto = TRUE],
   kinds |-> {"input", "nudge", "charger", "warning", "brightness"}, events |-> 3],
  \* sleeps, with an effect and a lock
  [config |-> [Plain EXCEPT !.effect = TRUE, !.lock_on_sleep = TRUE, !.ssids = TRUE,
                            !.button = "sleep", !.idle = "sleep", !.intercept = TRUE,
                            !.lid = "sleep"],
   kinds |-> {"input", "button", "suspend", "others", "charger", "lock", "lid", "shutdown"},
   events |-> 2],
  \* effects within effects, before the sleeps that others ask for
  [config |-> [Plain EXCEPT !.effect = TRUE, !.button = "shutdown", !.intercept = TRUE],
   kinds |-> {"button", "others", "charger"}, events |-> 4],
  \* the lid, powernap and a lock after the display was off
  [config |-> [Plain EXCEPT !.lock_on_display_off = TRUE, !.powernap = TRUE, !.lid = "lock",
                            !.ssids = TRUE, !.button = "shutdown"],
   kinds |-> {"input", "lid", "charger", "button", "suspend"}, events |-> 3],
  \* media, presentations, and programs that forbid sleep
  [config |-> [Plain EXCEPT !.reduce = 2, !.sleep = 3, !.saver = "external", !.idle = "sleep",
                            !.inhibitors = TRUE],
   kinds |-> {"input", "nudge", "child", "media", "presentation"}, events |-> 3]}

MCLevels == {10}
MCNetworks == {"off", "connecting", "trusted", "other"}
MCPlaylists == {<<>>, <<[playing |-> TRUE, kind |-> "other"]>>,
                <<[playing |-> TRUE, kind |-> "other"], [playing |-> FALSE, kind |-> "audio"]>>}
=============================================================================
