\* Assignments, constructors, insertions, removals, traversals and collections
\* of one table whose keys collide in every way a node vector of four allows.
SPECIFICATION Spec
CONSTANTS
    Keys <- MCKeys
    Values <- MCValues
    Sizes <- MCSizes
    MaxKey = 3
    MAX_INT = 3
    MaxNodes = 4
INVARIANTS
    NodesSound
PROPERTIES
    IsDictionary
    ArrayHalfUsed
