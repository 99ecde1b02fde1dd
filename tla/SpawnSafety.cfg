SPECIFICATION Spec
CONSTANTS
    MAX_UNITS = 3
    MaxProcs = 4
    Fleet <- TwoShips
    Capacity = 1
    Consoles = {c1}
    Hired = {1}
    RepMax = 2
    Faults = {"fork", "traffic"}
INVARIANTS
    OneOutstanding
    BayWithinCapacity
    InheritsFaction
PROPERTY
    ImplementsAccount
