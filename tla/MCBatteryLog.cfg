CONSTANTS
  HISTORY_SIZE = 2
  EVENTS_SIZE = 2
  CleanupPeriod = 1
  KeepPeriod = 1
  HibernateDelay = 1
  Capacities = {50, 60}
  States = {0, 1}
  OldLogs <- MCOldLogs
  WaysUsed = {"SUSPEND_THEN_HIBERNATE", "HYBRID_SUSPEND"}
  MishapBound = 1
  TimeBound = 2
  CallBound = 1
SPECIFICATION Spec
INVARIANT TimesReported
INVARIANT RatesMeasureActivity
PROPERTY IsRecentLog
CHECK_DEADLOCK FALSE
