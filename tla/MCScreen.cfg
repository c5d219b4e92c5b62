SPECIFICATION Spec
CONSTANTS
  Scenarios <- MCScenarios
  Backlight = 30
  Step = 1
  Levels <- MCLevels
  TRANSITION_STEPS = 2
  WakeCap = 4
  MaxIdle = 3
  Networks <- MCNetworks
  Playlists <- MCPlaylists
INVARIANT BrightnessKept
INVARIANT OverlaysGo
INVARIANT LockedAfterWake
INVARIANT ClientAtRest
PROPERTY NotRightAfterWaking
CHECK_DEADLOCK FALSE
