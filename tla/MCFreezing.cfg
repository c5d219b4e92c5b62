CONSTANTS
  Configs <- Freezing
  Percents = {2, 5, 9, 12}
  Radios <- MCRadios
  Picks = {}
  Wishes = {}
  Others = TRUE
  HasLid = FALSE
SPECIFICATION Spec
PROPERTY FreezingEndsWithWarning
