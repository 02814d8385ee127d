\* The README's Right Alt key against what the slot keeps of a press.
SPECIFICATION FairSpec
CONSTANTS
    Commands = {}
    MaxDepth = 1
    Reentrant = {}
    ScriptsSound = TRUE
PROPERTIES
    TogglePressRuns
