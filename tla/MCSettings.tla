------------------------------ MODULE MCSettings ------------------------------
(***************************************************************************)
(* An instance of Settings: a file of an earlier run, one that was edited  *)
(* by hand and none, on machines with and without the hardware.            *)
(***************************************************************************)
EXTENDS Settings

MCFiles ==
  {<<>>,
   [ac_display_sleep_timeout |-> 200, ac_idle_timeout |-> 4, ac_backlight_reduce_timeout |-> 70,
    eco_freq_cap |-> 90, charge_limit_value |-> 50, charge_limit_enabled |-> TRUE,
    ac_screensaver |-> "tde:gone", whitelist |-> <<"cups", "colord">>],
   [ac_display_sleep_timeout |-> 5, ac_idle_timeout |-> 6, ac_backlight_reduce_timeout |-> 3,
    eco_freq_cap |-> 20, charge_limit_value |-> 80, charge_limit_enabled |-> TRUE,
    bat_idle_timeout |-> 360, backlight_slider |-> 1, close_popup_animation |-> TRUE]}

MCMachines ==
  {[backlight |-> TRUE, threshold |-> TRUE], [backlight |-> FALSE, threshold |-> FALSE]}

MCSavers == {"random", "none"}
MCTimeouts == {1, 2, 60, 180, 360}
MCLists == {<<>>, <<<<"cron">>, <<"cups", "avahi">>>>}
=============================================================================
