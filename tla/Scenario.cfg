SPECIFICATION Spec
CONSTANTS
    M = 120
    N = 40
    MAX_OBSTACLES = 1
    MAX_INITIAL_UNITS = 9
    SizeOf <- PatternSizes
    MapLines <- Numbers
    ObstacleLines <- Rocks
    CountLines <- Fleets
    PlacementLines <- Modes
    UnitLines <- ByHand
    Draws <- RandomNumbers
    LEAKED = LEAKED
    MaxLines = 3
    MaxForkFailures = 1
INVARIANTS PlacedOnGrid FormationIntact BothSidesAppear
CHECK_DEADLOCK FALSE
