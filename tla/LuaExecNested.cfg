\* Safety: one typed line, hook activations nested two deep, the line and a torn
\* chunk nest.
SPECIFICATION Spec
CONSTANTS
    Commands = {c1}
    MaxDepth = 2
    Reentrant <- MCReentrantTorn
    ScriptsSound = FALSE
INVARIANTS
    TypeOK
    HonestUnlessIntruded
    LoadOnce
    PrintFirst
PROPERTIES
    LoadNeverRestarts
    LinesNeverReplay
