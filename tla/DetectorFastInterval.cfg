SPECIFICATION FairSpec
CONSTANTS
  FailureTypes = {spaghetti, warping}
  Nothing = Nothing
  MaxConfidence = 2
  SuspicionThreshold = 1
  ConfirmationThreshold = 2
  SuspicionMaxChecks = 3
  AlertCooldown = 2
  NormalInterval = 45
  SuspiciousInterval = 10
  MaxSessions = 2
  MaxTime = 2
PROPERTIES
  FastIntervalEnds
