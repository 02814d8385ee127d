\* Safety of the menu scripts over failing and repeated loads.
SPECIFICATION Spec
INVARIANTS
    TypeOK
    NoLockout
    OriginalsAreGames
    ActiveMenuExists
    NitroFollowsFlag
    LabelFresh
PROPERTIES
    ToggleFlips
