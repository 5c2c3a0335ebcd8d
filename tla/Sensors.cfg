SPECIFICATION SensorsSpec
CONSTANTS
  Messages <- MCMessages
  Room = 3
  MaxFrames = 3
  MaxLosses = 2
  MaxTick = 8
  MaxDt = 2
  GroundTime = 2
  FixAge <- MCFixAge
  GpsTimeout = 2
  LongAgo = 20
  BiasTime = 2
  Samples <- MCSamples
  Name <- MCName
  Fields <- MCFields
  MinLength = 5
  MaxLength = 8
  MaxSamples = 3
  MaxLost = 1
  Payloads <- MCPayloads
  SensorLength = 6
  FullLength = 8
  GpsAt = 5
  MaxPackets = 3
  MaxDropped = 1
  Deflections = {0, 8192, 32768}
  Modulus = 10007
  Given <- MCGiven
  RightSides <- MCRightSides
  Turns <- MCTurns
  Quaternions <- MCQuaternions
  Rates <- MCRates
  HalfSteps <- MCHalfSteps
  Noise <- MCNoise
  MaxUpdates = 3
  Angles <- MCAngles
  Curvatures <- MCCurvatures
  Intervals <- MCIntervals
  FixNoise <- MCFixNoise
  DriftNoise <- MCDriftNoise
  MaxRounds = 2
INVARIANTS
  FramesArrive
  AglFollows
  GroundFromStart
  BiasFromStart
  SamplesAsSent
  MnavAsSent
  MatricesAreRight
  CovarianceAsWritten
PROPERTIES
  ParsedInOrder
  FixesAreUsed
CHECK_DEADLOCK FALSE
