SPECIFICATION AutopilotSpec
CONSTANTS
  LockNames <- MCLockNames
  DesiredTs = 1
  Errors <- MCErrors
  Levels <- MCLevels
  MaxDelay = 2
  MaxByHand = 0
  MaxTime = 1
  Readings <- MCReadings
  Reference = 1
  Interval = 1
  u_min <- MCMin
  u_max = 4
  Steps <- MCSteps
  Positions <- MCPositions
  Samples = 2
  MaxRate = 1
  MaxTicks = 5
PROPERTY BeginsFromOutput
CHECK_DEADLOCK FALSE
