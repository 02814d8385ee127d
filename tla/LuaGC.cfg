\* The collector against a program, on twelve heaps of up to five objects.
SPECIFICATION Spec
CONSTANTS
    Objs = {main, registry, a, b, c}
    Main = main
    Registry = registry
    nil = nil
    a = a
    b = b
    c = c
    Pools <- MCPools
    Slots = {1, 2}
    MaxSteps = 2
INVARIANTS
    TypeOK
    NothingInUseIsDead
    BlackNeverSeesWhite
    ListsDisjoint
    CycleCollects
    FinalizedOnce
PROPERTIES
    NotFinalizedInUse
