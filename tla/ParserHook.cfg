\* Safety of the parser hook over restarts, with three streams.
SPECIFICATION Spec
CONSTANTS
    hud = hud
    menu = menu
    ui = ui
    cameras = cameras
    sky = sky
    visuals = visuals
    Camera = camera_functions
    Scripts = {hud, menu, sky, camera_functions}
    DirOf <- MCDirOf
    Above <- MCAbove
    MaxStreams = 3
INVARIANTS
    TypeOK
    NoForeignCast
    NothingOnlyAtLimit
    DirsHoldDumps
PROPERTIES
    WholeDumpsStay
