CONSTANTS
  Configs <- MCConfigs
  Percents = {4}
  Radios <- MCRadios
  Picks = {}
  Wishes = {}
  Procs <- Nothing
  Matching <- Nothing
  RegexCompiled = TRUE
  Services <- Nothing
  Hardcoded <- Nothing
  MaxEntries = 0
  MaxFreezable = 0
  Cores <- Nothing
  Backlog = 1
  Offered <- Nothing
  HasEthernet = FALSE
  HasWebcam = FALSE
  Others = FALSE
  HasLid = FALSE
SPECIFICATION Spec
INVARIANT BeliefIsRight
INVARIANT ExitThaws
PROPERTY HandlersEnd
