------------------------ MODULE MCInactivityManager ------------------------
(***************************************************************************)
(* Two configurations that differ in every option the policy looks at, and *)
(* a charge in each of the ranges that the levels 5 and 10 tell apart.     *)
(***************************************************************************)
EXTENDS InactivityManager

Eager ==
  [bat_power_profile |-> 0, ac_power_profile |-> 1, ac_full_power_profile |-> 2,
   warn_level |-> 10, critical_level |-> 5, critical_action |-> 0, disable_eth |-> 2,
   lowbat_freeze_services |-> TRUE, critical_freeze_processes |-> TRUE,
   minimal_state_before_suspend |-> TRUE, intercept_external_sleep_requests |-> TRUE,
   ac_lid_enable_powernap |-> FALSE, ac_lid_powernap_mode_disable_bt |-> TRUE,
   ac_lid_powernap_mode_disable_wifi |-> FALSE, ac_lid_action |-> 5, bat_lid_action |-> 0,
   p_whitelist |-> {}, p_blacklist |-> {}, whitelist |-> {}, blacklist |-> {},
   eco_freq_cap |-> 20, balanced_usb_autosuspend |-> TRUE, ultra_performance_mode |-> TRUE,
   charge_limit_enabled |-> TRUE, charge_limit_value |-> 80]

Relaxed ==
  [Eager EXCEPT !.bat_power_profile = 2, !.critical_action = 2, !.disable_eth = 1,
                !.lowbat_freeze_services = FALSE, !.critical_freeze_processes = FALSE,
                !.minimal_state_before_suspend = FALSE,
                !.intercept_external_sleep_requests = FALSE,
                !.charge_limit_enabled = FALSE]

\* A client that freezes on both warnings, and one that never does.
Freezing ==
  LET lean == [Eager EXCEPT !.disable_eth = 0, !.minimal_state_before_suspend = FALSE,
                            !.charge_limit_enabled = FALSE]
  IN {lean, [lean EXCEPT !.lowbat_freeze_services = FALSE, !.critical_freeze_processes = FALSE]}

\* A client whose user works on mains with the lid closed, ...
Napper == [Relaxed EXCEPT !.ac_lid_enable_powernap = TRUE, !.ac_lid_action = 4]
Napping == {Napper}

\* ... and one that also puts the hardware to rest for every sleep.
Sleeping ==
  {Napper, [Napper EXCEPT !.minimal_state_before_suspend = TRUE,
                          !.intercept_external_sleep_requests = TRUE]}

\* For the question whether polling goes on, one configuration and one level.
Quiet == {Relaxed}
High == {12}

MCConfigs == {Eager, Relaxed}
MCPercents == {2, 5, 9, 12}
MCRadios == {[wifi |-> 1, bluetooth |-> 0]}
=============================================================================
