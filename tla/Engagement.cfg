SPECIFICATION Spec
CONSTANTS
    M = 120
    MAX_UNITS = 3
    Places <- Line
    Fleets <- Starts
    Recruits <- Newcomers
    MaxSpawns = 1
    MaxMail = 2
INVARIANTS
    NoFriendlyFire
    FireNeedsReach
    ArrivedCanFire
PROPERTY
    AttackOrdersSuit
CHECK_DEADLOCK FALSE
