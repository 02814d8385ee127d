\* Safety, and liveness with a Present that may never return: two keys, two
\* texts, two devices.
SPECIFICATION FairSpec
CONSTANTS
    Indices <- MCIndices
    Texts = {t1, t2}
    NoText = NoText
    Devices = {d1, d2}
    NoFont = NoFont
    BadFont = BadFont
INVARIANTS
    TypeOK
    FontOfDevice
PROPERTIES
    FramesAreSnapshots
    LuaReturns
