CONSTANTS
  chat = chat
  dbus = dbus
  cron = cron
  cpu1 = cpu1
  cpu2 = cpu2
  Procs <- Nothing
  Matching <- Nothing
  RegexCompiled = TRUE
  Services <- Nothing
  Hardcoded <- Nothing
  MaxEntries = 1
  MaxFreezable = 2
  Cores <- MCCores
  Backlog = 1
  Offered <- MCSettings
  HasEthernet = TRUE
  HasWebcam = TRUE
SPECIFICATION Spec
INVARIANT TypeOK
PROPERTY ExitRestores
PROPERTY LostOnlyByDoubleDisable
