CONSTANTS
  Configs <- Sleeping
  Percents <- High
  Radios <- MCRadios
  Picks = {2}
  Wishes = {"suspend", "suspend_then_hibernate", "hibernate", "hybrid"}
  Others = TRUE
  HasLid = TRUE
SPECIFICATION Spec
INVARIANT PowernapOnlyOnMains
PROPERTY CoresComeBack
PROPERTY PollingComesBack
PROPERTY PowernapEndsWithLid
