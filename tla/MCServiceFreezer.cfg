CONSTANTS
  dbus = dbus
  cron = cron
  cups = cups
  tracker = tracker
  Services <- MCServices
  Hardcoded <- MCHardcoded
  MaxEntries = 1
  MaxFreezable = 2
SPECIFICATION ServiceSpec
INVARIANT ServiceTypeOK
INVARIANT MergedWhitelistIsCurrent
PROPERTY ForgottenOnlyByLoss
