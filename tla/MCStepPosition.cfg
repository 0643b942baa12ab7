SPECIFICATION Spec
CONSTANTS
    NumCars = 2
    NumCameras = 1
    CameraOffset <- MCCameraOffset
    PoolSize = 2
    MaxSteps = 2
    MaxMerged = 1
INVARIANTS QuietPositions CopyIsFresh InStepWithBelt HeadTimeLagsByOne
PROPERTIES PositionsReachLoop
