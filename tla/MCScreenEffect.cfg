SPECIFICATION Spec
CONSTANTS
  Scenarios <- MCScenarios
  Backlight = 30
  Step = 1
  Levels <- MCLevels
  TRANSITION_STEPS = 2
  WakeCap = 4
  MaxIdle = 3
  Networks <- MCNetworks
  Playlists <- MCPlaylists
CHECK_DEADLOCK FALSE
INVARIANT EffectEnds
