SPECIFICATION Spec
CONSTANTS
    M = 4
    N = 3
    MAX_UNITS = 2
    Kinds <- Types
    DUMMY = "dummy"
    SizeOf <- Sizes
    SpeedOf <- Speeds
    DetectOf <- Radii
    Approaches <- Distances
    Scenarios <- Maps
    Requests <- Asked
    MaxSpawns = 1
    Faults = {"late"}
INVARIANTS
    GridMatchesRegistry
    PatrolGetsCloser
PROPERTIES
    ObstaclesStay
    StepsWithinSpeed
CHECK_DEADLOCK FALSE
