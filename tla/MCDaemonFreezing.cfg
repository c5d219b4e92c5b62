CONSTANTS
  chat = chat
  dbus = dbus
  cron = cron
  cpu1 = cpu1
  cpu2 = cpu2
  Procs <- MCProcs
  Matching <- MCProcs
  RegexCompiled = TRUE
  Services <- MCServices
  Hardcoded <- MCHardcoded
  MaxEntries = 1
  MaxFreezable = 2
  Cores <- Nothing
  Backlog = 1
  Offered <- MCFreezing
  HasEthernet = FALSE
  HasWebcam = FALSE
SPECIFICATION Spec
PROPERTY ImplementsComponents
PROPERTY StrandedOnlyByLoss
PROPERTY LoopEnds
PROPERTY ExitRestores
