\* Liveness under the fairness of the game's scheduling.
SPECIFICATION FairSpec
CONSTANTS
    Commands = {}
    MaxDepth = 2
    Reentrant <- MCReentrantToggle
    ScriptsSound = TRUE
PROPERTIES
    FlagConsumed
    ConfigEventually
    BootEventually
