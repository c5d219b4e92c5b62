----------------------------- MODULE MCPowerSystem -----------------------------
(***************************************************************************)
(* One client, one daemon with one slot for waiting calls, and one chat    *)
(* program to freeze.  The charge is at the critical level or well above.  *)
(***************************************************************************)
EXTENDS PowerSystem

MCConfigs ==
  {[bat_power_profile |-> 0, ac_power_profile |-> 1, ac_full_power_profile |-> 1,
    warn_level |-> 10, critical_level |-> 5, critical_action |-> 2, disable_eth |-> 0,
    lowbat_freeze_services |-> FALSE, critical_freeze_processes |-> TRUE,
    minimal_state_before_suspend |-> FALSE, intercept_external_sleep_requests |-> FALSE,
    ac_lid_enable_powernap |-> FALSE, ac_lid_powernap_mode_disable_bt |-> FALSE,
    ac_lid_powernap_mode_disable_wifi |-> FALSE, ac_lid_action |-> 5, bat_lid_action |-> 0,
    p_whitelist |-> {}, p_blacklist |-> {}, whitelist |-> {}, blacklist |-> {},
    eco_freq_cap |-> 40, balanced_usb_autosuspend |-> TRUE, ultra_performance_mode |-> FALSE,
    charge_limit_enabled |-> FALSE, charge_limit_value |-> 80]}
MCRadios == {[wifi |-> -1, bluetooth |-> -1]}
Nothing == {}
=============================================================================
