----------------------------- MODULE MCBatteryLog -----------------------------
(***************************************************************************)
(* Rings of two slots, so that they wrap and events are evicted; a clean-up*)
(* every tick, of events older than one; logs of an earlier version that   *)
(* was left awake and asleep.                                              *)
(***************************************************************************)
EXTENDS BatteryLog

Legacy(type) ==
  [samples |-> Put(EmptyRing(HISTORY_SIZE), HISTORY_SIZE,
                   [timestamp |-> 0, capacity |-> 50, charging |-> 0]),
   events |-> Put(EmptyRing(EVENTS_SIZE), EVENTS_SIZE, [timestamp |-> 0, type |-> type]),
   last_cleanup |-> 0]

MCOldLogs == {Legacy("WAKE_UP"), Legacy("SUSPEND")}
=============================================================================
