SPECIFICATION Spec
CONSTANTS
  FrameHistory = 2
  HasFtp = TRUE
  EnableSliceFetch = TRUE
  NotifyOnStart = TRUE
  NotifyOnFinish = TRUE
  MaxPrints = 2
  MaxMishaps = 1
  MaxAlerts = 2
INVARIANTS
  TypeOK
  RunningRowsAreLive
  OneSessionInHand
  SettledRowsAreAnnounced
  TaskMeansNoSlice
PROPERTIES
  KeepsLedger
  PostsInOrder
  TransfersBeginOffPrint
