SPECIFICATION Spec
CONSTANTS
  Files <- MCFiles
  Machines <- MCMachines
  Savers <- MCSavers
  Timeouts <- MCTimeouts
  Lists <- MCLists
  EventBound = 3
INVARIANT TimeoutsOrdered
INVARIANT DaemonFollows
INVARIANT NoTestOutlivesDialog
PROPERTY OkKeepsSettings
PROPERTY SettingsSurviveRestart
PROPERTY TestsEnd
CHECK_DEADLOCK FALSE
