SPECIFICATION FairSpec
CONSTANTS
  FrameHistory = 1
  HasFtp = TRUE
  EnableSliceFetch = TRUE
  NotifyOnStart = TRUE
  NotifyOnFinish = TRUE
  MaxPrints = 1
  MaxMishaps = 2
  MaxAlerts = 1
INVARIANTS
  RunningRowsAreLive
PROPERTIES
  RunningRowsSettle
  FetchTasksEnd
