SPECIFICATION StoreSpec
CONSTANTS
  MaxInterruptions = 0
  None = None
  Absent = Absent
  Endless = Endless
  FrameHistory = 2
  SaveFrames = TRUE
  StoreFinalFrame = TRUE
  MaxSessionFrames = 1
  MaxCaptures = 3
  Figures <- SomeFigures
  FinalStates = {"FINISH", "FAILED", "IDLE", "RUNNING"}
  FtpDirs <- SomeDirs
  MaxFetchBytes = 1
  FileNames <- SomeNames
  Cards <- SomeCards
  MaxSlot = 50
  MaxRows = 2
INVARIANTS
  PathIsOriginal
