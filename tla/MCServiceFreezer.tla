--------------------------- MODULE MCServiceFreezer ---------------------------
(* One hard-coded unit and three others; the arrays hold two names, so the *)
(* longest whitelist just fits and a freeze can meet a full array.         *)
EXTENDS ServiceFreezer

CONSTANTS dbus, cron, cups, tracker

MCServices == {dbus, cron, cups, tracker}
MCHardcoded == {dbus}
=============================================================================
