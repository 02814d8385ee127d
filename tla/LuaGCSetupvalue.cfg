\* The manual on what is collected against the barrier of lua_setupvalue.
SPECIFICATION Spec
CONSTANTS
    Objs = {main, registry, a, b, c}
    Main = main
    Registry = registry
    nil = nil
    a = a
    b = b
    c = c
    Pools <- Sharing
    Slots = {1, 2}
    MaxSteps = 2
INVARIANTS
    OnlyLostIsDead
