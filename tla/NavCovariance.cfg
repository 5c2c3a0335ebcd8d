SPECIFICATION FiltersSpec
CONSTANTS
    Modulus = 10007
    Given <- MCGiven
    RightSides <- MCRightSides
    Turns <- MCTurns
    Quaternions <- MCQuaternions
    Rates <- MCRates
    HalfSteps <- MCHalfSteps
    Noise <- MCNoise
    MaxUpdates = 3
    Angles <- MCAngles
    Curvatures <- MCCurvatures
    Intervals <- MCIntervals
    FixNoise <- MCFixNoise
    DriftNoise <- MCDriftNoise
    MaxRounds = 2
INVARIANTS
    PositionCovariance
CHECK_DEADLOCK FALSE
