SPECIFICATION Spec
CONSTANTS
  Charges <- MCCharges
  Critical = 5
  Profile <- MCProfile
  Brightness <- MCBrightness
  minimal = TRUE
  EventBound = 4
INVARIANT BurnersOnlyToDischarge
 
INVARIANT FullPower
PROPERTY CompleteCycle
PROPERTY WaitEnds
CHECK_DEADLOCK FALSE
