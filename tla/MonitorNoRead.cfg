SPECIFICATION Spec
CONSTANTS
  FrameHistory = 2
  HasFtp = TRUE
  EnableSliceFetch = TRUE
  NotifyOnStart = TRUE
  NotifyOnFinish = TRUE
  MaxPrints = 1
  MaxMishaps = 0
  MaxAlerts = 1
INVARIANTS
  NoReadWhileRunning
