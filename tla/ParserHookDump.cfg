\* The README on dumps against the streams of dump_luac.
SPECIFICATION Spec
CONSTANTS
    hud = hud
    menu = menu
    ui = ui
    cameras = cameras
    sky = sky
    visuals = visuals
    Camera = camera_functions
    Scripts = {hud, menu, sky, camera_functions}
    DirOf <- MCDirOf
    Above <- MCAbove
    MaxStreams = 3
INVARIANTS
    SeenIsDumped
