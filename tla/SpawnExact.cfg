SPECIFICATION FairSpec
CONSTANTS
    MAX_UNITS = 5
    MaxProcs = 4
    Fleet <- OneShip
    Capacity = 2
    Consoles = {c1}
    Hired = {2}
    RepMax = 3
    Faults = {}
INVARIANTS
    BayCountsSquadrons
PROPERTY
    ConsoleAnswered
