SPECIFICATION Spec
CONSTANTS
  Absent = Absent
  None = None
  Moments <- SomeMoments
  MaxMoves = 3
  MaxBreaks = 2
  MaxIgnored = 1
INVARIANTS
  LinkTypeOK
  ViewIsAMoment
  NameFollows
  UnitsAreLoaded
  CurrentWhenQuiet
PROPERTIES
  HearsPrinter
CHECK_DEADLOCK FALSE
