----------------------------- MODULE PauseMenu -----------------------------
(***************************************************************************)
(* The scripts that patch the game's pause menu (scripts/), loaded by the  *)
(* bootstrap until a load succeeds, and by the user from the console.      *)
(*                                                                         *)
(* The patches keep the functions they replace in GLOBAL variables, and    *)
(* the closures they install call whatever those globals hold at the time  *)
(* of the call.  A second load stores its predecessor's closure there, and *)
(* a closure that calls itself ends in a stack overflow.  So it matters    *)
(* how far a load gets before a script raises an error, and what is loaded *)
(* again after it.                                                         *)
(*                                                                         *)
(* Scripts run on the Lua thread in one piece: nothing of the game runs    *)
(* between the statements of a load.                                       *)
(***************************************************************************)

EXTENDS Integers

VARIABLES
    missing,      \* game globals the scripts need and the game has not made
    enable,       \* enableCustomMenus, as line 1 of load.lua sets it
    raises,       \* debugOpen passes on the error of the file it runs
    sound,        \* the user's own code in example_menu.lua runs
    unpaused,     \* the patched resume has run since the toggle was pressed
    loader, by_boot,             \* the load in progress, and who asked for it
    game_running_hook_complete,
    fun, orig,    \* the patched functions, and the globals original...
    globalDrawMenu, resume_patched, handler,
    menus, listed,               \* the game's menus; Custom lists the nitro menu
    pauseMenuShown, activeMenu, controls,
    display,      \* what the menu on the screen says of the boost
    InfiniteBoost, Original, nitro,  \* of the nitro menu loaded last
    captures, nitro_loads, cut   \* history: how often (up to 2) the patches
                                 \* and the nitro menu ran, and whether a load
                                 \* stopped short after the patches

world   == <<missing, enable, raises, sound, unpaused>>
load    == <<loader, by_boot, game_running_hook_complete>>
patches == <<fun, orig, globalDrawMenu, resume_patched, handler>>
screen  == <<pauseMenuShown, activeMenu, controls, display>>
boost   == <<InfiniteBoost, Original, nitro>>
hist    == <<captures, nitro_loads, cut>>
vars    == <<world, load, patches, menus, listed, screen, boost, hist>>

\* "menu" stands for clearPauseMenu, TriggerPauseMenu, addPauseMenu and
\* changePauseMenu, which share their upvalues.
GameGlobals == {"menu", "PauseMenu", "PauseMenuCallbacks", "controlHandler", "Network"}
Patched     == {"clear", "trigger", "select"}
Menus       == {"Pause", "Main", "Custom", "Nitro"}   \* "Nitro" is "Nitro Menu"
Stages      == {"idle", "upvalues", "capture", "resume", "select", "register",
                "custom", "custom_tail", "example", "done"}

TypeOK ==
    /\ missing \subseteq GameGlobals
    /\ enable \in BOOLEAN /\ raises \in BOOLEAN /\ sound \in BOOLEAN
    /\ unpaused \in BOOLEAN
    /\ loader \in Stages /\ by_boot \in BOOLEAN
    /\ game_running_hook_complete \in BOOLEAN
    /\ fun \in [Patched -> {"game", "patched"}]
    /\ orig \in [Patched -> {"nil", "game", "patched"}]
    /\ globalDrawMenu \in {"nil", "game"}
    /\ resume_patched \in BOOLEAN /\ handler \in {"game", "patched"}
    /\ menus \subseteq Menus /\ listed \in BOOLEAN
    /\ pauseMenuShown \in BOOLEAN /\ activeMenu \in Menus /\ controls \in BOOLEAN
    /\ display \in {"off", "on"}
    /\ InfiniteBoost \in BOOLEAN
    /\ Original \in {"nil", "stock", "zero"} /\ nitro \in {"stock", "zero"}
    /\ captures \in 0..2 /\ nitro_loads \in 0..2 /\ cut \in BOOLEAN

Init ==
    /\ missing \in SUBSET GameGlobals
    /\ enable \in BOOLEAN /\ raises \in BOOLEAN /\ sound \in BOOLEAN
    /\ unpaused = FALSE
    /\ loader = "idle" /\ by_boot = FALSE /\ game_running_hook_complete = FALSE
    /\ fun = [f \in Patched |-> "game"] /\ orig = [f \in Patched |-> "nil"]
    /\ globalDrawMenu = "nil" /\ resume_patched = FALSE /\ handler = "game"
    /\ menus = {"Pause"} /\ listed = FALSE
    /\ pauseMenuShown = FALSE /\ activeMenu = "Pause" /\ controls = TRUE
    /\ display = "off"
    /\ InfiniteBoost = FALSE /\ Original = "nil" /\ nitro = "stock"
    /\ captures = 0 /\ nitro_loads = 0 /\ cut = FALSE

-----------------------------------------------------------------------------
(* A load of load.lua *)

\* The bootstrap loads after every lua_pcall until a load has succeeded.
bootstrap_load ==
    /\ loader = "idle"
    /\ ~game_running_hook_complete
    /\ loader' = "upvalues" /\ by_boot' = TRUE
    /\ UNCHANGED <<world, game_running_hook_complete, patches, menus, listed,
                   screen, boost, hist>>

\* The user types debugOpen("..\\..\\scripts\\load.lua"), to see an edit.
console_load ==
    /\ loader = "idle"
    /\ loader' = "upvalues" /\ by_boot' = FALSE
    /\ UNCHANGED <<world, game_running_hook_complete, patches, menus, listed,
                   screen, boost, hist>>

Defined(g) == g \notin missing
Count(n)   == IF n < 2 THEN n + 1 ELSE n

\* An error: the file stops, and load.lua with it if debugOpen raises it.
stop(rest) ==
    /\ loader' = IF raises THEN "idle" ELSE rest
    /\ cut' = (cut \/ captures > 0)
    /\ UNCHANGED <<captures, nitro_loads>>

proceed(stage) == loader' = stage /\ UNCHANGED <<captures, nitro_loads, cut>>

\* What load.lua opens after pause_menu_patches.lua.
AfterPatches == IF enable THEN "custom" ELSE "done"

\* getUpvalueByName and setUpvalueByName find the upvalues of the game's own
\* functions; the closures of the patches use globals only and have none.
HasUpvalues(f) == f = "game"

\* The first lines of pause_menu_patches.lua
patch_upvalues ==
    /\ loader = "upvalues"
    /\ \/ /\ Defined("menu")
          /\ globalDrawMenu' = IF HasUpvalues(fun["trigger"]) THEN "game" ELSE "nil"
          /\ proceed("capture")
       \/ /\ ~Defined("menu")
          /\ UNCHANGED globalDrawMenu
          /\ stop(AfterPatches)
    /\ UNCHANGED <<world, by_boot, game_running_hook_complete, fun, orig,
                   resume_patched, handler, menus, listed, screen, boost>>

\* Mutant of capture: the closure is installed before the original is saved.
capture_late(fs) ==
    /\ fun'  = [f \in Patched |-> IF f \in fs THEN "patched" ELSE fun[f]]
    /\ orig' = [f \in Patched |-> IF f \in fs THEN fun'[f] ELSE orig[f]]

\* originalX = X, X = function ... end
capture(fs) ==
    /\ orig' = [f \in Patched |-> IF f \in fs THEN fun[f] ELSE orig[f]]
    /\ fun'  = [f \in Patched |-> IF f \in fs THEN "patched" ELSE fun[f]]

patch_clear_trigger ==
    /\ loader = "capture"
    /\ capture({"clear", "trigger"})
    /\ loader' = "resume" /\ captures' = Count(captures)
    /\ UNCHANGED <<world, by_boot, game_running_hook_complete, globalDrawMenu,
                   resume_patched, handler, menus, listed, screen, boost, nitro_loads, cut>>

\* The original resume is a local: wrappers nest, and call clearPauseMenu.
patch_resume ==
    /\ loader = "resume"
    /\ \/ Defined("PauseMenu") /\ resume_patched' = TRUE /\ proceed("select")
       \/ ~Defined("PauseMenu") /\ UNCHANGED resume_patched /\ stop(AfterPatches)
    /\ UNCHANGED <<world, by_boot, game_running_hook_complete, fun, orig,
                   globalDrawMenu, handler, menus, listed, screen, boost>>

patch_select ==
    /\ loader = "select"
    /\ \/ Defined("PauseMenuCallbacks") /\ capture({"select"}) /\ proceed("register")
       \/ ~Defined("PauseMenuCallbacks") /\ UNCHANGED <<fun, orig>> /\ stop(AfterPatches)
    /\ UNCHANGED <<world, by_boot, game_running_hook_complete, globalDrawMenu,
                   resume_patched, handler, menus, listed, screen, boost>>

\* Mutant of patch_register: the callbacks are not registered again.
patch_register_forgotten ==
    /\ loader = "register"
    /\ proceed(AfterPatches)
    /\ UNCHANGED <<world, by_boot, game_running_hook_complete, patches, menus, listed,
                   screen, boost>>

\* controlHandler:registerState takes the callbacks over.
patch_register ==
    /\ loader = "register"
    /\ \/ Defined("controlHandler") /\ handler' = "patched" /\ proceed(AfterPatches)
       \/ ~Defined("controlHandler") /\ UNCHANGED handler /\ stop(AfterPatches)
    /\ UNCHANGED <<world, by_boot, game_running_hook_complete, fun, orig,
                   globalDrawMenu, resume_patched, menus, listed, screen, boost>>

\* Mutant of custom_main: addPauseMenu("main", Main) misspells the menu.
custom_main_misspelled ==
    /\ loader = "custom"
    /\ \/ Defined("menu") /\ menus' = menus \cup {"main"} /\ proceed("custom_tail")
       \/ ~Defined("menu") /\ UNCHANGED menus /\ stop("example")
    /\ UNCHANGED <<world, by_boot, game_running_hook_complete, patches, listed,
                   screen, boost>>

\* Mutant of custom_main: addPauseMenu("Main", Main) is forgotten.
custom_main_unlisted ==
    /\ loader = "custom"
    /\ \/ Defined("menu") /\ UNCHANGED menus /\ proceed("custom_tail")
       \/ ~Defined("menu") /\ UNCHANGED menus /\ stop("example")
    /\ UNCHANGED <<world, by_boot, game_running_hook_complete, patches, listed,
                   screen, boost>>

\* enable_custom_menu.lua, up to addPauseMenu("Main", Main)
custom_main ==
    /\ loader = "custom"
    /\ \/ Defined("menu") /\ menus' = menus \cup {"Main"} /\ proceed("custom_tail")
       \/ ~Defined("menu") /\ UNCHANGED menus /\ stop("example")
    /\ UNCHANGED <<world, by_boot, game_running_hook_complete, patches, listed,
                   screen, boost>>

\* Network.getVersionString(), and a new CustomMenu
custom_tail ==
    /\ loader = "custom_tail"
    /\ \/ /\ Defined("Network")
          /\ menus' = menus \cup {"Custom"} /\ listed' = FALSE
          /\ proceed("example")
       \/ ~Defined("Network") /\ UNCHANGED <<menus, listed>> /\ stop("example")
    /\ UNCHANGED <<world, by_boot, game_running_hook_complete, patches, screen, boost>>

\* example_menu.lua: the user's code comes first, then the nitro menu with
\* new locals, which goes into CustomMenu last.
example_menu ==
    /\ loader = "example"
    /\ \/ /\ sound /\ Defined("menu")
          /\ menus' = menus \cup {"Nitro"}
          /\ InfiniteBoost' = FALSE /\ Original' = "nil"
          /\ nitro_loads' = Count(nitro_loads)
          /\ \/ /\ "Custom" \in menus
                /\ listed' = TRUE
                /\ loader' = "done"
                /\ UNCHANGED cut
             \/ /\ "Custom" \notin menus
                /\ UNCHANGED listed
                /\ loader' = IF raises THEN "idle" ELSE "done"
                /\ cut' = (cut \/ captures > 0)
          /\ UNCHANGED captures
       \/ /\ ~(sound /\ Defined("menu"))
          /\ UNCHANGED <<menus, listed, InfiniteBoost, Original>>
          /\ stop("done")
    /\ UNCHANGED <<world, by_boot, game_running_hook_complete, patches, screen, nitro>>

\* execute_lua returns true; the bootstrap records it.
load_done ==
    /\ loader = "done"
    /\ loader' = "idle"
    /\ game_running_hook_complete' = (game_running_hook_complete \/ by_boot)
    /\ UNCHANGED <<world, by_boot, patches, menus, listed, screen, boost, hist>>

load_lua ==
    \/ bootstrap_load \/ console_load \/ patch_upvalues \/ patch_clear_trigger
    \/ patch_resume \/ patch_select \/ patch_register \/ custom_main \/ custom_tail
    \/ example_menu \/ load_done

-----------------------------------------------------------------------------
(* The menus in use *)

Label(on) == IF on THEN "on" ELSE "off"

\* Mutant of clearPauseMenu: enableGameControls is forgotten.
clearPauseMenu_frozen ==
    IF orig["clear"] = "patched" THEN UNCHANGED screen
    ELSE /\ pauseMenuShown' = FALSE
         /\ activeMenu' = IF fun["clear"] = "patched" /\ enable THEN "Main" ELSE activeMenu
         /\ UNCHANGED <<controls, display>>

\* The patched function, or the game's own; a closure that finds itself in
\* originalClearPauseMenu overflows the stack before it does anything.
clearPauseMenu ==
    IF orig["clear"] = "patched" THEN UNCHANGED screen
    ELSE /\ pauseMenuShown' = FALSE
         /\ activeMenu' = IF fun["clear"] = "patched" /\ enable THEN "Main" ELSE activeMenu
         /\ controls' = (controls \/ fun["clear"] = "patched")
         /\ UNCHANGED display

\* The game draws activeMenu, and raises an error if there is no such menu.
TriggerPauseMenu ==
    IF orig["trigger"] = "patched" THEN UNCHANGED screen
    ELSE /\ activeMenu' = IF enable THEN "Main" ELSE activeMenu
         /\ \/ /\ activeMenu' \in menus
               /\ pauseMenuShown' = TRUE /\ controls' = FALSE
               /\ display' = Label(InfiniteBoost)
            \/ /\ activeMenu' \notin menus
               /\ pauseMenuShown' \in {pauseMenuShown, TRUE}
               /\ UNCHANGED <<controls, display>>

\* Mutant of toggle_menu: the two branches of the chunk are swapped.
toggle_menu_swapped ==
    /\ loader = "idle"
    /\ orig["clear"] # "nil"
    /\ IF HasUpvalues(orig["clear"]) /\ pauseMenuShown THEN TriggerPauseMenu ELSE clearPauseMenu
    /\ unpaused' = FALSE
    /\ UNCHANGED <<missing, enable, raises, sound, load, patches, menus, listed, boost, hist>>

\* The chunk of the Right Alt key; before the patches it is an error.
toggle_menu ==
    /\ loader = "idle"
    /\ orig["clear"] # "nil"
    /\ IF HasUpvalues(orig["clear"]) /\ pauseMenuShown THEN clearPauseMenu ELSE TriggerPauseMenu
    /\ unpaused' = FALSE
    /\ UNCHANGED <<missing, enable, raises, sound, load, patches, menus, listed, boost, hist>>

\* The game unpauses.
pause_menu_resume ==
    /\ loader = "idle"
    /\ Defined("PauseMenu")
    /\ IF resume_patched THEN clearPauseMenu ELSE UNCHANGED screen
    /\ unpaused' = resume_patched
    /\ UNCHANGED <<missing, enable, raises, sound, load, patches, menus, listed, boost, hist>>

\* What the player can select in a menu: another menu, or the boost.
Entries(m) ==
    IF m = "Main" THEN {"Pause", "Custom"}
    ELSE IF m = "Custom" THEN {"Main"} \cup (IF listed THEN {"Nitro"} ELSE {})
    ELSE IF m = "Nitro" THEN {"boost", "Custom"} ELSE {}

select_menu(m) ==
    /\ activeMenu' = m
    /\ display' = Label(InfiniteBoost)
    /\ UNCHANGED <<pauseMenuShown, controls, boost>>

\* customStepMenuSelect draws the menu again after the action.
Redraws == handler = "patched" /\ HasUpvalues(orig["clear"]) /\ globalDrawMenu = "game"

\* Mutant of select_boost: the originals are read after the zeroes are written.
select_boost_late ==
    /\ InfiniteBoost' = ~InfiniteBoost
    /\ Original' = IF Original = "nil" THEN "zero" ELSE Original
    /\ nitro' = IF InfiniteBoost THEN Original' ELSE "zero"
    /\ display' = IF Redraws THEN Label(InfiniteBoost') ELSE display
    /\ UNCHANGED <<pauseMenuShown, activeMenu, controls>>

\* The action "Toggle Infinite Boost"
select_boost ==
    /\ InfiniteBoost' = ~InfiniteBoost
    /\ Original' = IF Original = "nil" THEN nitro ELSE Original
    /\ nitro' = IF InfiniteBoost THEN Original' ELSE "zero"
    /\ display' = IF Redraws THEN Label(InfiniteBoost') ELSE display
    /\ UNCHANGED <<pauseMenuShown, activeMenu, controls>>

\* Menu_Select is pressed; a customStepMenuSelect that finds itself in
\* originalStepMenuSelect overflows the stack.
menu_select ==
    /\ loader = "idle"
    /\ pauseMenuShown /\ activeMenu \in menus
    /\ handler = "patched" => orig["select"] = "game"
    /\ \E e \in Entries(activeMenu) : IF e = "boost" THEN select_boost ELSE select_menu(e)
    /\ UNCHANGED <<world, load, patches, menus, listed, hist>>

-----------------------------------------------------------------------------
(* The game and the user *)

\* Another script of the game runs and makes some of the globals.
game_define ==
    /\ loader = "idle"
    /\ \E g \in missing : missing' = missing \ {g}
    /\ UNCHANGED <<enable, raises, sound, unpaused, load, patches, menus, listed,
                   screen, boost, hist>>

\* The user edits example_menu.lua, where it says "add custom menus here".
user_edits ==
    /\ loader = "idle"
    /\ sound' = ~sound
    /\ UNCHANGED <<missing, enable, raises, unpaused, load, patches, menus, listed,
                   screen, boost, hist>>

Next ==
    \/ load_lua
    \/ toggle_menu \/ pause_menu_resume \/ menu_select
    \/ game_define \/ user_edits

Spec == Init /\ [][Next]_vars

-----------------------------------------------------------------------------
(* Properties *)

\* Whatever part of a load has failed, and however often it is repeated, the
\* game's controls are never off while the menu is hidden.
NoLockout == ~pauseMenuShown => controls

\* When the patches have run once, every function they replaced calls the
\* game's own: loads that fail before them, and are repeated, do no harm.
OriginalsAreGames ==
    captures <= 1 => \A f \in Patched : fun[f] = "patched" => orig[f] = "game"

\* When the patches have run once and no load stopped short after them, Right
\* Alt flips the menu, and the controls with it.
ToggleFlips ==
    [][toggle_menu /\ captures = 1 /\ ~cut
          => pauseMenuShown' # pauseMenuShown /\ controls' = ~pauseMenuShown']_vars

\* Unless a load stopped short after the patches, the active menu exists, also
\* the one that the patches make active.
ActiveMenuExists == loader = "idle" /\ ~cut => activeMenu \in menus

\* One load of the nitro menu restores exactly what it replaced.
NitroFollowsFlag == nitro_loads <= 1 => (InfiniteBoost <=> nitro = "zero")

\* The nitro menu on the screen says whether the boost is on.
LabelFresh ==
    pauseMenuShown /\ activeMenu = "Nitro" /\ captures <= 1 /\ nitro_loads <= 1 /\ ~cut
        => display = Label(InfiniteBoost)

\* pause_menu_patches.lua: "patches: clear the menu on unpause"
UnpauseClears == unpaused => ~pauseMenuShown
=============================================================================
