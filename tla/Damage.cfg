SPECIFICATION FairSpec
CONSTANTS
    Units = {1, 2}
    Processes = {11, 12, 13}
    MaxHP = 2
    MaxVolley = 2
    MaxDamage = 1
    MaxQueued = 3
INVARIANTS NoLostWakeup OrphansExplained
PROPERTIES SettledBeforeActing FatalDamageKills KeepsAccount
CHECK_DEADLOCK FALSE
