SPECIFICATION FairSpec
CONSTANTS
    MAX_UNITS = 4
    MaxProcs = 4
    Fleet <- OneShip
    Wing <- Empty
    Hired <- Mixed
    Yard <- Second
    Faults = {}
INVARIANTS
    OneMaster
    KnownToCommander
    MasterlessPatrol
    WardsAreFriends
PROPERTY
    OrphansAdopted
