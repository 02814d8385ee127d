\* Every program of the pool, from its text to its result.
SPECIFICATION Spec
CONSTANTS
    Programs <- Pool
    Compile <- luaY_parser
    MAXINDEXRK = 2
    LFIELDS_PER_FLUSH = 2
    MAXARG_C = 2
    MAXSTACK = 250
    LUAI_MAXVARS = 12
    LUAI_MAXUPVALUES = 4
    LUAI_MAXCCALLS = 12
    LUAI_MAXCALLS = 16
    BASIC_CI_SIZE = 8
    STACKSIZE = 150
    MAXTAGLOOP = 3
    LUA_MAXCAPTURES = 3
INVARIANTS
    LimitsHold
    MeansWhatItSays
    AssertsHold
    OpenUpvaluesInFrames
    FramesAgree
