-------------------------- MODULE PauseMenuProofs --------------------------
(***************************************************************************)
(* Proofs about the menu scripts.  The instance TLC checks is not smaller  *)
(* than the specification; the proofs say which facts the properties rest  *)
(* on: the order of the captures within a load, and who can call a patched *)
(* function before its original is kept.                                   *)
(***************************************************************************)
EXTENDS PauseMenu, TLAPS

-----------------------------------------------------------------------------
(* Types, in the groups of variables that the actions change *)

TWorld == /\ missing \subseteq GameGlobals
          /\ enable \in BOOLEAN /\ raises \in BOOLEAN /\ sound \in BOOLEAN
          /\ unpaused \in BOOLEAN
TLoad == loader \in Stages /\ by_boot \in BOOLEAN /\ game_running_hook_complete \in BOOLEAN
TPatches == /\ fun \in [Patched -> {"game", "patched"}]
            /\ orig \in [Patched -> {"nil", "game", "patched"}]
            /\ globalDrawMenu \in {"nil", "game"}
            /\ resume_patched \in BOOLEAN /\ handler \in {"game", "patched"}
TMenus == menus \subseteq Menus /\ listed \in BOOLEAN
TScreen == /\ pauseMenuShown \in BOOLEAN /\ activeMenu \in Menus /\ controls \in BOOLEAN
           /\ display \in {"off", "on"}
TBoost == /\ InfiniteBoost \in BOOLEAN
          /\ Original \in {"nil", "stock", "zero"} /\ nitro \in {"stock", "zero"}
THist == captures \in 0..2 /\ nitro_loads \in 0..2 /\ cut \in BOOLEAN

LEMMA Groups == TypeOK <=> TWorld /\ TLoad /\ TPatches /\ TMenus /\ TScreen /\ TBoost /\ THist
  BY DEF TypeOK, TWorld, TLoad, TPatches, TMenus, TScreen, TBoost, THist

\* A group of variables that stay the same keeps its type.
LEMMA Stay ==
    /\ TWorld /\ UNCHANGED world => TWorld'
    /\ TPatches /\ UNCHANGED patches => TPatches'
    /\ TMenus /\ UNCHANGED <<menus, listed>> => TMenus'
    /\ TScreen /\ UNCHANGED screen => TScreen'
    /\ TBoost /\ UNCHANGED boost => TBoost'
    /\ THist /\ UNCHANGED hist => THist'
  <1>1. TWorld /\ UNCHANGED world => TWorld'
    BY DEF TWorld, world
  <1>2. TPatches /\ UNCHANGED patches => TPatches'
    BY DEF TPatches, patches
  <1>3. TMenus /\ UNCHANGED <<menus, listed>> => TMenus'
    BY DEF TMenus
  <1>4. TScreen /\ UNCHANGED screen => TScreen'
    BY DEF TScreen, screen
  <1>5. TBoost /\ UNCHANGED boost => TBoost'
    BY DEF TBoost, boost
  <1>6. THist /\ UNCHANGED hist => THist'
    BY DEF THist, hist
  <1> QED
    BY <1>1, <1>2, <1>3, <1>4, <1>5, <1>6

LEMMA CaptureType ==
    ASSUME TypeOK, NEW fs, capture(fs)
    PROVE  /\ fun' \in [Patched -> {"game", "patched"}]
           /\ orig' \in [Patched -> {"nil", "game", "patched"}]
  BY DEF TypeOK, capture

LEMMA ClearType ==
    ASSUME TypeOK, clearPauseMenu
    PROVE  /\ pauseMenuShown' \in BOOLEAN /\ controls' \in BOOLEAN
           /\ activeMenu' \in Menus /\ display' \in {"off", "on"}
  <1>1. CASE orig["clear"] = "patched"
    BY <1>1 DEF clearPauseMenu, TypeOK, screen
  <1>2. CASE orig["clear"] # "patched"
    BY <1>2 DEF clearPauseMenu, TypeOK, Menus
  <1> QED
    BY <1>1, <1>2

LEMMA TriggerType ==
    ASSUME TypeOK, TriggerPauseMenu
    PROVE  /\ pauseMenuShown' \in BOOLEAN /\ controls' \in BOOLEAN
           /\ activeMenu' \in Menus /\ display' \in {"off", "on"}
  <1>1. CASE orig["trigger"] = "patched"
    BY <1>1 DEF TriggerPauseMenu, TypeOK, screen
  <1>2. CASE orig["trigger"] # "patched"
    BY <1>2 DEF TriggerPauseMenu, TypeOK, Menus, Label
  <1> QED
    BY <1>1, <1>2

\* How a step of the load goes on.
LEMMA OnwardType ==
    /\ TWorld /\ THist /\ TLoad
    /\ \/ \E s \in Stages : proceed(s)
       \/ \E s \in Stages : stop(s)
    => THist' /\ loader' \in Stages
  BY DEF TWorld, THist, TLoad, proceed, stop, Stages

LEMMA LoadType == TypeOK /\ load_lua => TypeOK'
  <1> SUFFICES ASSUME TypeOK, load_lua PROVE TypeOK'
    OBVIOUS
  <1>g. TWorld /\ TLoad /\ TPatches /\ TMenus /\ TScreen /\ TBoost /\ THist
    BY Groups
  <1>s. AfterPatches \in Stages
    BY DEF AfterPatches, Stages
  <1> SUFFICES TWorld' /\ TLoad' /\ TPatches' /\ TMenus' /\ TScreen' /\ TBoost' /\ THist'
    BY Groups DEF TypeOK, TWorld, TLoad, TPatches, TMenus, TScreen, TBoost, THist
  <1>1. CASE bootstrap_load \/ console_load \/ load_done
    <2>1. UNCHANGED <<world, patches, menus, listed, screen, boost, hist>>
      BY <1>1 DEF bootstrap_load, console_load, load_done
    <2>2. TLoad'
      BY <1>1, <1>g DEF bootstrap_load, console_load, load_done, TLoad, Stages
    <2> QED
      BY <2>1, <2>2, <1>g, Stay
  <1>2. CASE patch_upvalues
    <2>1. /\ UNCHANGED <<world, by_boot, game_running_hook_complete, menus, listed, screen, boost>>
          /\ UNCHANGED <<fun, orig, resume_patched, handler>> /\ globalDrawMenu' \in {"nil", "game"}
          /\ proceed("capture") \/ stop(AfterPatches)
      BY <1>2, <1>g DEF patch_upvalues, TPatches
    <2>2. THist' /\ loader' \in Stages
      BY <2>1, <1>g, <1>s, OnwardType DEF Stages
    <2>3. TPatches' /\ TLoad'
      BY <2>1, <2>2, <1>g DEF TPatches, TLoad
    <2> QED
      BY <2>1, <2>2, <2>3, <1>g, Stay
  <1>3. CASE patch_clear_trigger
    <2>1. THist'
      BY <1>3, <1>g DEF patch_clear_trigger, Count, THist
    <2>2. TPatches' /\ TLoad'
      BY <1>3, <1>g, CaptureType DEF patch_clear_trigger, TPatches, TLoad, Stages
    <2> QED
      BY <1>3, <2>1, <2>2, <1>g, Stay DEF patch_clear_trigger
  <1>4. CASE patch_resume
    <2>1. /\ UNCHANGED <<world, by_boot, game_running_hook_complete, menus, listed, screen, boost>>
          /\ UNCHANGED <<fun, orig, globalDrawMenu, handler>> /\ resume_patched' \in BOOLEAN
          /\ proceed("select") \/ stop(AfterPatches)
      BY <1>4, <1>g DEF patch_resume, TPatches
    <2>2. THist' /\ loader' \in Stages
      BY <2>1, <1>g, <1>s, OnwardType DEF Stages
    <2>3. TPatches' /\ TLoad'
      BY <2>1, <2>2, <1>g DEF TPatches, TLoad
    <2> QED
      BY <2>1, <2>2, <2>3, <1>g, Stay
  <1>5. CASE patch_select
    <2>1. /\ UNCHANGED <<world, by_boot, game_running_hook_complete, menus, listed, screen, boost>>
          /\ UNCHANGED <<globalDrawMenu, resume_patched, handler>>
          /\ proceed("register") \/ stop(AfterPatches)
          /\ capture({"select"}) \/ UNCHANGED <<fun, orig>>
      BY <1>5 DEF patch_select
    <2>2. THist' /\ loader' \in Stages
      BY <2>1, <1>g, <1>s, OnwardType DEF Stages
    <2>3. TPatches' /\ TLoad'
      BY <2>1, <2>2, <1>g, CaptureType DEF TPatches, TLoad
    <2> QED
      BY <2>1, <2>2, <2>3, <1>g, Stay
  <1>6. CASE patch_register
    <2>1. /\ UNCHANGED <<world, by_boot, game_running_hook_complete, menus, listed, screen, boost>>
          /\ UNCHANGED <<fun, orig, globalDrawMenu, resume_patched>>
          /\ handler' \in {"game", "patched"}
          /\ proceed(AfterPatches) \/ stop(AfterPatches)
      BY <1>6, <1>g DEF patch_register, TPatches
    <2>2. THist' /\ loader' \in Stages
      BY <2>1, <1>g, <1>s, OnwardType
    <2>3. TPatches' /\ TLoad'
      BY <2>1, <2>2, <1>g DEF TPatches, TLoad
    <2> QED
      BY <2>1, <2>2, <2>3, <1>g, Stay
  <1>7. CASE custom_main \/ custom_tail
    <2>1. /\ UNCHANGED <<world, by_boot, game_running_hook_complete, patches, screen, boost>>
          /\ proceed("custom_tail") \/ proceed("example") \/ stop("example")
      BY <1>7 DEF custom_main, custom_tail
    <2>2. THist' /\ loader' \in Stages
      BY <2>1, <1>g, OnwardType DEF Stages
    <2>3. TMenus'
      BY <1>7, <1>g DEF custom_main, custom_tail, TMenus, Menus
    <2>4. TLoad'
      BY <2>1, <2>2, <1>g DEF TLoad
    <2> QED
      BY <2>1, <2>2, <2>3, <2>4, <1>g, Stay
  <1>8. CASE example_menu
    <2>1. UNCHANGED <<world, by_boot, game_running_hook_complete, patches, screen, nitro>>
      BY <1>8 DEF example_menu
    <2>2. TMenus'
      BY <1>8, <1>g DEF example_menu, TMenus, Menus
    <2>3. THist' /\ TLoad'
      <3>1. captures' = captures /\ nitro_loads' \in {nitro_loads, Count(nitro_loads)}
        BY <1>8 DEF example_menu, stop
      <3>2. cut' \in {cut, cut \/ captures > 0} /\ loader' \in {"idle", "done"}
        BY <1>8 DEF example_menu, stop
      <3>3. Count(nitro_loads) \in 0..2
        BY <1>g DEF THist, Count
      <3>4. THist'
        BY <3>1, <3>2, <3>3, <1>g DEF THist
      <3> QED
        BY <3>2, <3>4, <1>8, <1>g DEF example_menu, TLoad, Stages
    <2>4. TBoost'
      BY <1>8, <1>g DEF example_menu, TBoost
    <2> QED
      BY <2>1, <2>2, <2>3, <2>4, <1>g, Stay
  <1> QED
    BY <1>1, <1>2, <1>3, <1>4, <1>5, <1>6, <1>7, <1>8 DEF load_lua

LEMMA SelectType ==
    ASSUME TypeOK, NEW e \in Entries(activeMenu),
           IF e = "boost" THEN select_boost ELSE select_menu(e)
    PROVE  /\ UNCHANGED <<pauseMenuShown, controls>>
           /\ activeMenu' \in Menus /\ display' \in {"off", "on"}
           /\ InfiniteBoost' \in BOOLEAN
           /\ Original' \in {"nil", "stock", "zero"} /\ nitro' \in {"stock", "zero"}
  <1>1. CASE e = "boost"
    <2>1. InfiniteBoost' \in BOOLEAN /\ display' \in {"off", "on"}
      BY <1>1 DEF TypeOK, select_boost, Label
    <2>2. Original' \in {"stock", "zero"}
      BY <1>1 DEF TypeOK, select_boost
    <2> QED
      BY <1>1, <2>1, <2>2 DEF TypeOK, select_boost
  <1>2. CASE e # "boost"
    <2>1. e \in Menus
      BY <1>2 DEF Entries, Menus
    <2> QED
      BY <1>2, <2>1 DEF TypeOK, select_menu, Label, boost
  <1> QED
    BY <1>1, <1>2

LEMMA TypeStep == TypeOK /\ [Next]_vars => TypeOK'
  <1> SUFFICES ASSUME TypeOK, [Next]_vars PROVE TypeOK'
    OBVIOUS
  <1>g. TWorld /\ TLoad /\ TPatches /\ TMenus /\ TScreen /\ TBoost /\ THist
    BY Groups
  <1>q. TWorld' /\ TLoad' /\ TPatches' /\ TMenus' /\ TScreen' /\ TBoost' /\ THist' => TypeOK'
    BY DEF TypeOK, TWorld, TLoad, TPatches, TMenus, TScreen, TBoost, THist
  <1>l. TLoad /\ UNCHANGED load => TLoad'
    BY DEF TLoad, load
  <1>1. CASE load_lua
    BY <1>1, LoadType
  <1>2. CASE toggle_menu \/ pause_menu_resume
    <2>1. UNCHANGED <<load, patches, menus, listed, boost, hist>>
      BY <1>2 DEF toggle_menu, pause_menu_resume
    <2>2. TWorld'
      BY <1>2, <1>g DEF toggle_menu, pause_menu_resume, TWorld, TPatches
    <2>3. clearPauseMenu \/ TriggerPauseMenu \/ UNCHANGED screen
      BY <1>2 DEF toggle_menu, pause_menu_resume
    <2>4. TScreen'
      BY <2>3, <1>g, ClearType, TriggerType, Stay DEF TScreen
    <2> QED
      BY <2>1, <2>2, <2>4, <1>g, <1>q, <1>l, Stay
  <1>3. CASE menu_select
    <2>1. UNCHANGED <<world, load, patches, menus, listed, hist>>
      BY <1>3 DEF menu_select
    <2>2. PICK e \in Entries(activeMenu) : IF e = "boost" THEN select_boost ELSE select_menu(e)
      BY <1>3 DEF menu_select
    <2>3. TScreen' /\ TBoost'
      BY <2>2, <1>g, SelectType DEF TScreen, TBoost
    <2> QED
      BY <2>1, <2>3, <1>g, <1>q, <1>l, Stay
  <1>4. CASE game_define \/ user_edits
    <2>1. UNCHANGED <<load, patches, menus, listed, screen, boost, hist>>
      BY <1>4 DEF game_define, user_edits
    <2>2. TWorld'
      BY <1>4, <1>g DEF game_define, user_edits, TWorld
    <2> QED
      BY <2>1, <2>2, <1>g, <1>q, <1>l, Stay
  <1>5. CASE UNCHANGED vars
    BY <1>5, <1>g, <1>q, <1>l, Stay DEF vars
  <1> QED
    BY <1>1, <1>2, <1>3, <1>4, <1>5 DEF Next

LEMMA TypeInit == Init => TypeOK
  <1> SUFFICES ASSUME Init PROVE TypeOK
    OBVIOUS
  <1>1. fun \in [Patched -> {"game", "patched"}] /\ orig \in [Patched -> {"nil", "game", "patched"}]
    BY DEF Init
  <1>2. menus \subseteq Menus /\ activeMenu \in Menus
    BY DEF Init, Menus
  <1>3. loader \in Stages /\ captures \in 0..2 /\ nitro_loads \in 0..2
    BY DEF Init, Stages
  <1>4. /\ missing \subseteq GameGlobals
        /\ enable \in BOOLEAN /\ raises \in BOOLEAN /\ sound \in BOOLEAN
    BY DEF Init
  <1> QED
    BY <1>1, <1>2, <1>3, <1>4 DEF Init, TypeOK

\* Type correctness of the scripts' globals, the menus and the screen.
THEOREM TypeCorrect == Spec => []TypeOK
  BY TypeInit, TypeStep, PTL DEF Spec

-----------------------------------------------------------------------------
(* The originals are the game's own functions *)

\* How often each function was captured, at each stage of a load.
Captured ==
    /\ captures = 0 => /\ loader \notin {"resume", "select", "register"}
                       /\ \A f \in Patched : fun[f] = "game" /\ orig[f] = "nil"
    /\ captures = 1 => \A f \in {"clear", "trigger"} : orig[f] = "game"
    /\ captures = 1 /\ loader \in {"resume", "select"} => fun["select"] = "game"
    /\ captures = 1 /\ fun["select"] = "patched" => orig["select"] = "game"

LEMMA CapturedStep == TypeOK /\ Captured /\ [Next]_vars => Captured'
  <1> SUFFICES ASSUME TypeOK, Captured, [Next]_vars PROVE Captured'
    OBVIOUS
  <1>n. captures \in {0, 1, 2}
    BY DEF TypeOK
  <1>f. \A f \in Patched : fun[f] \in {"game", "patched"}
    BY DEF TypeOK
  <1>1. CASE patch_clear_trigger
    <2>1. captures' = Count(captures) /\ loader' = "resume" /\ capture({"clear", "trigger"})
      BY <1>1 DEF patch_clear_trigger
    <2>2. /\ orig'["clear"] = fun["clear"] /\ orig'["trigger"] = fun["trigger"]
          /\ fun'["select"] = fun["select"] /\ orig'["select"] = orig["select"]
      BY <2>1 DEF capture, Patched
    <2>3. captures' = 1 => captures = 0
      BY <2>1, <1>n DEF Count
    <2>4. captures' # 0
      BY <2>1, <1>n DEF Count
    <2> QED
      BY <2>1, <2>2, <2>3, <2>4 DEF Captured, Patched
  <1>2. CASE patch_select
    <2>1. captures' = captures /\ loader = "select"
      BY <1>2 DEF patch_select, proceed, stop
    <2>2. /\ loader' \in {"register", "idle", AfterPatches}
          /\ capture({"select"}) \/ UNCHANGED <<fun, orig>>
      BY <1>2 DEF patch_select, proceed, stop
    <2>3. loader' \notin {"resume", "select"}
      BY <2>2 DEF AfterPatches
    <2>4. captures # 0
      BY <2>1 DEF Captured
    <2>5. CASE capture({"select"})
      <3>1. /\ orig'["select"] = fun["select"]
            /\ orig'["clear"] = orig["clear"] /\ orig'["trigger"] = orig["trigger"]
        BY <2>5 DEF capture, Patched
      <3> QED
        BY <3>1, <2>1, <2>3, <2>4 DEF Captured
    <2>6. CASE UNCHANGED <<fun, orig>>
      BY <2>6, <2>1, <2>3, <2>4 DEF Captured
    <2> QED
      BY <2>2, <2>5, <2>6
  <1>3. CASE patch_upvalues \/ custom_main \/ custom_tail \/ example_menu \/ bootstrap_load
             \/ console_load \/ load_done
    <2>1. UNCHANGED <<captures, fun, orig>>
      BY <1>3 DEF patch_upvalues, custom_main, custom_tail, example_menu, bootstrap_load,
         console_load, load_done, proceed, stop, patches, hist
    <2>2. loader' \notin {"resume", "select", "register"}
      BY <1>3 DEF patch_upvalues, custom_main, custom_tail, example_menu, bootstrap_load,
         console_load, load_done, proceed, stop, AfterPatches
    <2> QED
      BY <2>1, <2>2 DEF Captured
  <1>4. CASE patch_resume \/ patch_register
    <2>1. UNCHANGED <<captures, fun, orig>>
      BY <1>4 DEF patch_resume, patch_register, proceed, stop
    <2>2. loader \in {"resume", "register"} /\ (loader' \in {"resume", "select"} => loader = "resume")
      BY <1>4 DEF patch_resume, patch_register, proceed, stop, AfterPatches
    <2> QED
      BY <2>1, <2>2 DEF Captured
  <1>5. CASE toggle_menu \/ pause_menu_resume \/ menu_select \/ game_define \/ user_edits
             \/ UNCHANGED vars
    <2>1. UNCHANGED <<captures, fun, orig, loader>>
      BY <1>5 DEF toggle_menu, pause_menu_resume, menu_select, game_define, user_edits,
         vars, patches, hist, load
    <2> QED
      BY <2>1 DEF Captured
  <1> QED
    BY <1>1, <1>2, <1>3, <1>4, <1>5 DEF Next, load_lua

\* When the patches have run once, what they replaced calls the game's own
\* functions, however many loads failed before them.
THEOREM OriginalsKept == Spec => []OriginalsAreGames
  <1>1. Init => Captured
    BY DEF Init, Captured, Patched
  <1>2. TypeOK /\ Captured => OriginalsAreGames
    <2> SUFFICES ASSUME TypeOK, Captured, captures <= 1, NEW f \in Patched, fun[f] = "patched"
                 PROVE  orig[f] = "game"
      BY DEF OriginalsAreGames
    <2>1. captures \in {0, 1}
      BY DEF TypeOK
    <2>2. f \in {"clear", "trigger", "select"}
      BY DEF Patched
    <2> QED
      BY <2>1, <2>2 DEF Captured
  <1> QED
    BY <1>1, <1>2, CapturedStep, TypeCorrect, PTL DEF Spec

-----------------------------------------------------------------------------
(* The controls are on while the menu is hidden *)

\* Whoever can call clearPauseMenu finds the patched one.
Reached ==
    /\ loader = "resume" \/ resume_patched \/ orig["clear"] # "nil" => fun["clear"] = "patched"
    /\ ~pauseMenuShown => controls

LEMMA ReachedStep == TypeOK /\ Reached /\ [Next]_vars => Reached'
  <1> SUFFICES ASSUME TypeOK, Reached, [Next]_vars PROVE Reached'
    OBVIOUS
  <1>1. CASE patch_clear_trigger
    <2>1. fun'["clear"] = "patched" /\ UNCHANGED <<pauseMenuShown, controls>>
      BY <1>1 DEF patch_clear_trigger, capture, Patched, screen
    <2> QED
      BY <2>1 DEF Reached
  <1>2. CASE patch_select
    <2>1. UNCHANGED <<pauseMenuShown, controls, resume_patched>>
      BY <1>2 DEF patch_select, screen
    <2>2. loader' # "resume"
      BY <1>2 DEF patch_select, proceed, stop, AfterPatches
    <2>3. orig'["clear"] = orig["clear"] /\ fun'["clear"] = fun["clear"]
      BY <1>2 DEF patch_select, capture, Patched
    <2> QED
      BY <2>1, <2>2, <2>3 DEF Reached
  <1>3. CASE patch_resume
    <2>1. loader = "resume" /\ UNCHANGED <<fun, orig, pauseMenuShown, controls>>
      BY <1>3 DEF patch_resume, screen
    <2> QED
      BY <2>1 DEF Reached
  <1>4. CASE patch_upvalues \/ patch_register \/ custom_main \/ custom_tail \/ example_menu
             \/ bootstrap_load \/ console_load \/ load_done
    <2>1. UNCHANGED <<fun, orig, resume_patched, pauseMenuShown, controls>>
      BY <1>4 DEF patch_upvalues, patch_register, custom_main, custom_tail, example_menu,
         bootstrap_load, console_load, load_done, patches, screen
    <2>2. loader' # "resume"
      BY <1>4 DEF patch_upvalues, patch_register, custom_main, custom_tail, example_menu,
         bootstrap_load, console_load, load_done, proceed, stop, AfterPatches
    <2> QED
      BY <2>1, <2>2 DEF Reached
  <1>5. CASE toggle_menu \/ pause_menu_resume
    <2>1. UNCHANGED <<loader, fun, orig, resume_patched>>
      BY <1>5 DEF toggle_menu, pause_menu_resume, load, patches
    <2>2. \/ UNCHANGED screen
          \/ clearPauseMenu /\ fun["clear"] = "patched"
          \/ TriggerPauseMenu
      BY <1>5 DEF toggle_menu, pause_menu_resume, Reached
    <2>3. ~pauseMenuShown' => controls'
      <3>1. CASE UNCHANGED screen
        BY <3>1 DEF Reached, screen
      <3>2. CASE clearPauseMenu /\ fun["clear"] = "patched"
        BY <3>2 DEF clearPauseMenu, Reached, screen
      <3>3. CASE TriggerPauseMenu
        BY <3>3 DEF TriggerPauseMenu, Reached, screen, TypeOK
      <3> QED
        BY <2>2, <3>1, <3>2, <3>3
    <2> QED
      BY <2>1, <2>3 DEF Reached
  <1>6. CASE menu_select
    <2>1. UNCHANGED <<loader, fun, orig, resume_patched>>
      BY <1>6 DEF menu_select, load, patches
    <2>2. UNCHANGED <<pauseMenuShown, controls>>
      BY <1>6 DEF menu_select, select_boost, select_menu
    <2> QED
      BY <2>1, <2>2 DEF Reached
  <1>7. CASE game_define \/ user_edits \/ UNCHANGED vars
    <2>1. UNCHANGED <<loader, fun, orig, resume_patched, pauseMenuShown, controls>>
      BY <1>7 DEF game_define, user_edits, vars, load, patches, screen
    <2> QED
      BY <2>1 DEF Reached
  <1> QED
    BY <1>1, <1>2, <1>3, <1>4, <1>5, <1>6, <1>7 DEF Next, load_lua

\* Over every partial, failing and repeated load the player keeps the controls
\* whenever the menu is hidden.
THEOREM ControlsKept == Spec => []NoLockout
  <1>1. Init => Reached
    BY DEF Init, Reached, Patched
  <1>2. Reached => NoLockout
    BY DEF Reached, NoLockout
  <1> QED
    BY <1>1, <1>2, ReachedStep, TypeCorrect, PTL DEF Spec

-----------------------------------------------------------------------------
(* The nitro menu restores what it replaced *)

\* The boost can be selected only after the nitro menu was loaded, and what it
\* captured in its first load are the game's constants.
Restores ==
    /\ listed \/ activeMenu = "Nitro" => nitro_loads > 0
    /\ nitro_loads = 0 => ~InfiniteBoost /\ Original = "nil" /\ nitro = "stock"
    /\ nitro_loads = 1 => /\ Original \in {"nil", "stock"}
                          /\ InfiniteBoost <=> nitro = "zero"
                          /\ InfiniteBoost => Original = "stock"

LEMMA RestoresStep == TypeOK /\ Restores /\ [Next]_vars => Restores'
  <1> SUFFICES ASSUME TypeOK, Restores, [Next]_vars PROVE Restores'
    OBVIOUS
  <1>n. nitro_loads \in {0, 1, 2}
    BY DEF TypeOK
  <1>1. CASE example_menu
    <2>1. UNCHANGED <<activeMenu, nitro>>
      BY <1>1 DEF example_menu, screen
    <2>2. CASE nitro_loads' = Count(nitro_loads) /\ InfiniteBoost' = FALSE /\ Original' = "nil"
      <3>1. nitro_loads' > 0 /\ (nitro_loads' = 1 => nitro_loads = 0)
        BY <2>2, <1>n DEF Count
      <3>2. nitro_loads' = 1 => nitro' = "stock"
        BY <3>1, <2>1 DEF Restores
      <3>3. nitro_loads' # 0
        BY <3>1
      <3> QED
        BY <3>1, <3>2, <3>3, <2>2 DEF Restores
    <2>3. CASE UNCHANGED <<listed, InfiniteBoost, Original, nitro_loads>>
      BY <2>3, <2>1 DEF Restores
    <2> QED
      BY <1>1, <2>2, <2>3 DEF example_menu, stop
  <1>2. CASE load_lua /\ ~example_menu
    <2>1. UNCHANGED <<activeMenu, InfiniteBoost, Original, nitro, nitro_loads>>
      BY <1>2 DEF load_lua, bootstrap_load, console_load, patch_upvalues, patch_clear_trigger,
         patch_resume, patch_select, patch_register, custom_main, custom_tail, load_done,
         proceed, stop, screen, boost, hist
    <2>2. listed' => listed
      BY <1>2 DEF load_lua, bootstrap_load, console_load, patch_upvalues, patch_clear_trigger,
         patch_resume, patch_select, patch_register, custom_main, custom_tail, load_done
    <2> QED
      BY <2>1, <2>2 DEF Restores
  <1>3. CASE toggle_menu \/ pause_menu_resume
    <2>1. UNCHANGED <<listed, InfiniteBoost, Original, nitro, nitro_loads>>
      BY <1>3 DEF toggle_menu, pause_menu_resume, boost, hist
    <2>2. activeMenu' \in {activeMenu, "Main"}
      BY <1>3 DEF toggle_menu, pause_menu_resume, clearPauseMenu, TriggerPauseMenu, screen
    <2> QED
      BY <2>1, <2>2 DEF Restores
  <1>4. CASE menu_select
    <2>1. UNCHANGED <<listed, nitro_loads>>
      BY <1>4 DEF menu_select, hist
    <2>2. PICK e \in Entries(activeMenu) : IF e = "boost" THEN select_boost ELSE select_menu(e)
      BY <1>4 DEF menu_select
    <2>3. CASE e = "boost"
      <3>1. activeMenu = "Nitro" /\ select_boost
        BY <2>2, <2>3 DEF Entries
      <3>2. nitro_loads > 0 /\ UNCHANGED activeMenu
        BY <3>1 DEF Restores, select_boost
      <3>3. /\ InfiniteBoost' = ~InfiniteBoost
            /\ Original' = IF Original = "nil" THEN nitro ELSE Original
            /\ nitro' = IF InfiniteBoost THEN Original' ELSE "zero"
        BY <3>1 DEF select_boost
      <3>4. ASSUME nitro_loads = 1
            PROVE  /\ Original' = "stock"
                   /\ nitro' = IF InfiniteBoost THEN "stock" ELSE "zero"
        <4>1. CASE InfiniteBoost
          BY <3>3, <3>4, <4>1 DEF Restores
        <4>2. CASE ~InfiniteBoost
          <5>1. nitro = "stock"
            BY <3>4, <4>2 DEF Restores, TypeOK
          <5> QED
            BY <3>3, <3>4, <4>2, <5>1 DEF Restores
        <4> QED
          BY <4>1, <4>2 DEF TypeOK
      <3>5. nitro_loads = 1 => (InfiniteBoost' <=> nitro' = "zero")
        <4>1. CASE InfiniteBoost
          BY <3>3, <3>4, <4>1
        <4>2. CASE ~InfiniteBoost
          BY <3>3, <3>4, <4>2
        <4> QED
          BY <4>1, <4>2 DEF TypeOK
      <3>6. nitro_loads' > 0 /\ nitro_loads' # 0
        BY <2>1, <3>2
      <3>7. nitro_loads = 1 => (InfiniteBoost' => Original' = "stock") /\ Original' \in {"nil", "stock"}
        BY <3>4
      <3> QED
        BY <2>1, <3>5, <3>6, <3>7 DEF Restores
    <2>4. CASE e # "boost"
      <3>1. select_menu(e)
        BY <2>2, <2>4
      <3>2. UNCHANGED <<InfiniteBoost, Original, nitro>> /\ activeMenu' = e
        BY <3>1 DEF select_menu, boost
      <3>3. e = "Nitro" => listed
        BY DEF Entries
      <3> QED
        BY <2>1, <3>2, <3>3 DEF Restores
    <2> QED
      BY <2>3, <2>4
  <1>5. CASE game_define \/ user_edits \/ UNCHANGED vars
    <2>1. UNCHANGED <<listed, activeMenu, InfiniteBoost, Original, nitro, nitro_loads>>
      BY <1>5 DEF game_define, user_edits, vars, screen, boost, hist
    <2> QED
      BY <2>1 DEF Restores
  <1> QED
    BY <1>1, <1>2, <1>3, <1>4, <1>5 DEF Next

\* As long as the nitro menu was loaded at most once, its flag says exactly
\* whether the game's constants are replaced.
THEOREM FlagIsHonest == Spec => []NitroFollowsFlag
  <1>1. Init => Restores
    BY DEF Init, Restores
  <1>2. TypeOK /\ Restores => NitroFollowsFlag
    <2> SUFFICES ASSUME TypeOK, Restores, nitro_loads <= 1
                 PROVE  InfiniteBoost <=> nitro = "zero"
      BY DEF NitroFollowsFlag
    <2>1. nitro_loads \in {0, 1}
      BY DEF TypeOK
    <2> QED
      BY <2>1 DEF Restores
  <1> QED
    BY <1>1, <1>2, RestoresStep, TypeCorrect, PTL DEF Spec

-----------------------------------------------------------------------------
(* The active menu exists                                                  *)

\* A load that went all the way from the patches to the menus has made those
\* that the patched functions make active; before the patches, and without
\* the custom menus, nothing but the game's own menu is ever active.
Ready ==
    /\ "Pause" \in menus
    /\ ~enable => activeMenu = "Pause"
    /\ captures = 0 => activeMenu = "Pause" /\ ~resume_patched
    /\ listed \/ activeMenu = "Nitro" => "Nitro" \in menus
    /\ enable /\ ~cut /\ captures > 0 =>
           /\ loader = "custom_tail" => "Main" \in menus
           /\ loader \in {"idle", "upvalues", "capture", "example", "done"}
                 => {"Main", "Custom"} \subseteq menus

\* The files of a load, and what the game does between two loads.
LEMMA ReadyStep == TypeOK /\ Captured /\ Ready /\ [Next]_vars => Ready'
  <1> SUFFICES ASSUME TypeOK, Captured, Ready, [Next]_vars PROVE Ready'
    OBVIOUS
  <1>n. captures \in {0, 1, 2} /\ cut \in BOOLEAN /\ enable \in BOOLEAN
    BY DEF TypeOK
  \* A step that leaves the screen alone.
  <1>a. ASSUME UNCHANGED <<activeMenu, enable, resume_patched, captures>>, menus \subseteq menus',
               listed' => "Nitro" \in menus', cut => cut',
               enable /\ ~cut' /\ captures > 0 =>
                   /\ loader' = "custom_tail" => "Main" \in menus'
                   /\ loader' \in {"idle", "upvalues", "capture", "example", "done"}
                         => {"Main", "Custom"} \subseteq menus'
        PROVE  Ready'
    BY <1>a DEF Ready
  <1>1. CASE bootstrap_load \/ console_load \/ load_done
    <2>1. /\ UNCHANGED <<activeMenu, enable, resume_patched, captures, menus, listed, cut>>
          /\ loader \in {"idle", "done"} /\ loader' \in {"idle", "upvalues"}
      BY <1>1 DEF bootstrap_load, console_load, load_done, screen, world, patches, hist
    <2> QED
      BY <2>1, <1>a DEF Ready
  <1>2. CASE patch_upvalues
    <2>1. /\ UNCHANGED <<activeMenu, enable, resume_patched, captures, menus, listed>>
          /\ loader = "upvalues"
          /\ (loader' = "capture" /\ cut' = cut) \/ cut' = (cut \/ captures > 0)
      BY <1>2 DEF patch_upvalues, proceed, stop, screen, world
    <2> QED
      BY <2>1, <1>a DEF Ready
  <1>3. CASE patch_clear_trigger
    <2>1. /\ UNCHANGED <<activeMenu, enable, resume_patched, menus, listed>>
          /\ captures' = Count(captures) /\ loader' = "resume"
      BY <1>3 DEF patch_clear_trigger, screen, world
    <2>2. captures' # 0
      BY <2>1, <1>n DEF Count
    <2> QED
      BY <2>1, <2>2 DEF Ready
  <1>4. CASE patch_resume
    <2>1. /\ UNCHANGED <<activeMenu, enable, captures, menus, listed>> /\ captures # 0
          /\ (loader' = "select" /\ cut' = cut) \/ cut' = (cut \/ captures > 0)
      BY <1>4 DEF patch_resume, proceed, stop, screen, world, Captured
    <2> QED
      BY <2>1, <1>n DEF Ready
  <1>5. CASE patch_select \/ patch_register
    <2>1. /\ UNCHANGED <<activeMenu, enable, resume_patched, captures, menus, listed>> /\ captures # 0
          /\ \/ loader' = "register" /\ cut' = cut
             \/ loader' = AfterPatches /\ cut' = cut
             \/ cut' = (cut \/ captures > 0)
      BY <1>5 DEF patch_select, patch_register, proceed, stop, screen, world, patches, Captured
    <2>2. enable => AfterPatches = "custom"
      BY DEF AfterPatches
    <2> QED
      BY <2>1, <2>2, <1>n, <1>a DEF Ready
  <1>6. CASE custom_main
    <2>1. /\ UNCHANGED <<activeMenu, enable, resume_patched, captures, listed>>
          /\ \/ loader' = "custom_tail" /\ menus' = menus \cup {"Main"} /\ cut' = cut
             \/ menus' = menus /\ cut' = (cut \/ captures > 0)
      BY <1>6 DEF custom_main, proceed, stop, screen, world, patches
    <2> QED
      BY <2>1, <1>n, <1>a DEF Ready
  <1>7. CASE custom_tail
    <2>1. /\ UNCHANGED <<activeMenu, enable, resume_patched, captures>> /\ loader = "custom_tail"
          /\ \/ loader' = "example" /\ menus' = menus \cup {"Custom"} /\ listed' = FALSE /\ cut' = cut
             \/ UNCHANGED <<menus, listed>> /\ cut' = (cut \/ captures > 0)
      BY <1>7 DEF custom_tail, proceed, stop, screen, world, patches
    <2>2. CASE loader' = "example" /\ menus' = menus \cup {"Custom"} /\ listed' = FALSE /\ cut' = cut
      BY <2>1, <2>2, <1>n, <1>a DEF Ready
    <2>3. CASE UNCHANGED <<menus, listed>> /\ cut' = (cut \/ captures > 0)
      BY <2>1, <2>3, <1>n, <1>a DEF Ready
    <2> QED
      BY <2>1, <2>2, <2>3
  <1>8. CASE example_menu
    <2>1. /\ UNCHANGED <<activeMenu, enable, resume_patched, captures>> /\ loader = "example"
          /\ loader' \in {"idle", "done"}
          /\ \/ menus' = menus \cup {"Nitro"}
             \/ UNCHANGED <<menus, listed>>
          /\ cut' \in {cut, cut \/ captures > 0}
      BY <1>8 DEF example_menu, stop, screen, world, patches
    <2>2. cut => cut'
      BY <2>1
    <2>3. menus \subseteq menus'
      BY <2>1
    <2>4. listed' => "Nitro" \in menus'
      <3>1. CASE menus' = menus \cup {"Nitro"}
        BY <3>1
      <3>2. CASE UNCHANGED <<menus, listed>>
        BY <3>2 DEF Ready
      <3> QED
        BY <2>1, <3>1, <3>2
    <2> QED
      BY <2>1, <2>2, <2>3, <2>4, <1>n, <1>a DEF Ready
  <1>9. CASE toggle_menu \/ pause_menu_resume
    <2>1. /\ UNCHANGED <<enable, resume_patched, captures, menus, listed, cut>>
          /\ loader = "idle" /\ loader' = "idle"
      BY <1>9 DEF toggle_menu, pause_menu_resume, load, patches, hist
    <2>2. captures = 0 => activeMenu' = activeMenu
      BY <1>9 DEF toggle_menu, pause_menu_resume, Captured, Ready, Patched, screen
    <2>3. activeMenu' \in {activeMenu, "Main"} /\ (~enable => activeMenu' = activeMenu)
      BY <1>9, <1>n DEF toggle_menu, pause_menu_resume, clearPauseMenu, TriggerPauseMenu, screen
    <2> QED
      BY <2>1, <2>2, <2>3 DEF Ready
  <1>10. CASE menu_select
    <2>1. UNCHANGED <<enable, resume_patched, captures, menus, listed, cut, loader>>
      BY <1>10 DEF menu_select, world, load, patches, hist
    <2>2. PICK e \in Entries(activeMenu) : IF e = "boost" THEN select_boost ELSE select_menu(e)
      BY <1>10 DEF menu_select
    <2>3. activeMenu # "Pause"
      BY <2>2 DEF Entries
    <2>4. activeMenu' = activeMenu \/ activeMenu' = e
      BY <2>2 DEF select_boost, select_menu
    <2>5. e = "Nitro" => listed
      BY <2>2 DEF Entries
    <2> QED
      BY <2>1, <2>3, <2>4, <2>5 DEF Ready
  <1>11. CASE game_define \/ user_edits \/ UNCHANGED vars
    <2>1. UNCHANGED <<enable, activeMenu, resume_patched, captures, menus, listed, cut, loader>>
      BY <1>11 DEF game_define, user_edits, vars, world, load, patches, screen, hist
    <2> QED
      BY <2>1 DEF Ready
  <1> QED
    BY <1>1, <1>2, <1>3, <1>4, <1>5, <1>6, <1>7, <1>8, <1>9, <1>10, <1>11 DEF Next, load_lua

\* The menu that the scripts make active is there, whatever was loaded how
\* often, unless a load stopped short after the patches.
THEOREM MenusAreThere == Spec => []ActiveMenuExists
  <1>1. Init => Captured /\ Ready
    BY DEF Init, Captured, Patched, Ready
  <1>2. TypeOK /\ Ready => ActiveMenuExists
    <2> SUFFICES ASSUME TypeOK, Ready, loader = "idle", ~cut PROVE activeMenu \in menus
      BY DEF ActiveMenuExists
    <2>1. captures \in {0, 1, 2} /\ activeMenu \in Menus
      BY DEF TypeOK
    <2>2. CASE activeMenu \in {"Pause", "Nitro"}
      BY <2>2 DEF Ready
    <2>3. CASE activeMenu \in {"Main", "Custom"}
      <3>1. captures # 0 /\ enable
        BY <2>3 DEF Ready
      <3>2. captures > 0
        BY <2>1, <3>1
      <3> QED
        BY <2>3, <3>1, <3>2 DEF Ready
    <2> QED
      BY <2>1, <2>2, <2>3, Zenon DEF Menus
  <1> QED
    BY <1>1, <1>2, CapturedStep, ReadyStep, TypeCorrect, PTL DEF Spec

-----------------------------------------------------------------------------
(* The nitro menu says whether the boost is on                             *)

\* One load of the patches that did not stop short has found the function that
\* draws the menu and has registered the callbacks, so a selection redraws.
Drawn ==
    /\ captures = 0 /\ loader = "capture" => globalDrawMenu = "game"
    /\ captures = 1 /\ ~cut /\ loader # "capture" => globalDrawMenu = "game"
    /\ captures = 1 /\ ~cut /\ loader \notin {"resume", "select", "register"} => handler = "patched"

LEMMA DrawnStep == TypeOK /\ Captured /\ Drawn /\ [Next]_vars => Drawn'
  <1> SUFFICES ASSUME TypeOK, Captured, Drawn, [Next]_vars PROVE Drawn'
    OBVIOUS
  <1>n. captures \in {0, 1, 2} /\ cut \in BOOLEAN
    BY DEF TypeOK
  <1>1. CASE bootstrap_load \/ console_load \/ load_done \/ custom_main \/ custom_tail \/ example_menu
    <2>1. /\ UNCHANGED <<globalDrawMenu, handler, captures>>
          /\ loader \notin {"capture", "resume", "select", "register"}
          /\ loader' \notin {"capture", "resume", "select", "register"}
      BY <1>1 DEF bootstrap_load, console_load, load_done, custom_main, custom_tail,
         example_menu, proceed, stop, patches, hist
    <2>2. cut => cut'
      BY <1>1 DEF bootstrap_load, console_load, load_done, custom_main, custom_tail,
         example_menu, proceed, stop, patches, hist
    <2> QED
      BY <2>1, <2>2 DEF Drawn
  <1>2. CASE patch_upvalues
    <2>1. /\ loader = "upvalues" /\ UNCHANGED <<handler, captures>>
          /\ \/ /\ loader' = "capture" /\ cut' = cut
                /\ globalDrawMenu' = IF HasUpvalues(fun["trigger"]) THEN "game" ELSE "nil"
             \/ /\ loader' # "capture" /\ cut' = (cut \/ captures > 0)
                /\ UNCHANGED globalDrawMenu
      BY <1>2 DEF patch_upvalues, proceed, stop, AfterPatches
    <2>2. captures = 0 => HasUpvalues(fun["trigger"])
      BY DEF Captured, HasUpvalues, Patched
    <2> QED
      BY <2>1, <2>2, <1>n DEF Drawn
  <1>3. CASE patch_clear_trigger
    <2>1. /\ loader = "capture" /\ loader' = "resume" /\ captures' = Count(captures)
          /\ UNCHANGED <<globalDrawMenu, handler, cut>>
      BY <1>3 DEF patch_clear_trigger
    <2>2. captures' # 0 /\ (captures' = 1 => captures = 0)
      BY <2>1, <1>n DEF Count
    <2> QED
      BY <2>1, <2>2 DEF Drawn
  <1>4. CASE patch_resume \/ patch_select \/ patch_register
    <2>1. /\ loader \in {"resume", "select", "register"} /\ loader' # "capture"
          /\ UNCHANGED <<globalDrawMenu, captures>> /\ captures # 0
      BY <1>4 DEF patch_resume, patch_select, patch_register, proceed, stop, AfterPatches, Captured
    <2>2. \/ UNCHANGED <<cut, handler>> /\ loader' \in {"select", "register"}
          \/ UNCHANGED cut /\ handler' = "patched"
          \/ stop(AfterPatches)
      BY <1>4 DEF patch_resume, patch_select, patch_register, proceed
    <2>3. stop(AfterPatches) => cut'
      <3>1. captures > 0
        BY <2>1, <1>n
      <3> QED
        BY <3>1 DEF stop
    <2> QED
      BY <2>1, <2>2, <2>3, <1>n DEF Drawn
  <1>5. CASE toggle_menu \/ pause_menu_resume \/ menu_select \/ game_define \/ user_edits
             \/ UNCHANGED vars
    <2>1. UNCHANGED <<globalDrawMenu, handler, captures, cut, loader>>
      BY <1>5 DEF toggle_menu, pause_menu_resume, menu_select, game_define, user_edits,
         vars, patches, hist, load
    <2> QED
      BY <2>1 DEF Drawn
  <1> QED
    BY <1>1, <1>2, <1>3, <1>4, <1>5 DEF Next, load_lua

LEMMA LabelStep ==
    TypeOK /\ Captured /\ Restores /\ Ready /\ Drawn /\ LabelFresh /\ [Next]_vars => LabelFresh'
  <1> SUFFICES ASSUME TypeOK, Captured, Restores, Ready, Drawn, LabelFresh, [Next]_vars,
                      pauseMenuShown', (activeMenu = "Nitro")', (captures <= 1)',
                      (nitro_loads <= 1)', ~cut'
               PROVE  display' = Label(InfiniteBoost')
    BY DEF LabelFresh
  <1>n. captures \in {0, 1, 2} /\ nitro_loads \in {0, 1, 2} /\ cut \in BOOLEAN
    BY DEF TypeOK
  <1>m. captures <= 1 /\ nitro_loads <= 1 /\ ~cut
    <2>1. captures' \in {captures, Count(captures)} /\ nitro_loads' \in {nitro_loads, Count(nitro_loads)}
      BY DEF Next, load_lua, bootstrap_load, console_load, load_done, patch_upvalues,
         patch_clear_trigger, patch_resume, patch_select, patch_register, custom_main,
         custom_tail, example_menu, toggle_menu, pause_menu_resume, menu_select, game_define,
         user_edits, vars, hist, proceed, stop
    <2>2. cut => cut'
      BY DEF Next, load_lua, bootstrap_load, console_load, load_done, patch_upvalues,
         patch_clear_trigger, patch_resume, patch_select, patch_register, custom_main,
         custom_tail, example_menu, toggle_menu, pause_menu_resume, menu_select, game_define,
         user_edits, vars, hist, proceed, stop
    <2>3. (captures <= 1)' /\ (nitro_loads <= 1)' => captures <= 1 /\ nitro_loads <= 1
      BY <2>1, <1>n DEF Count
    <2> QED
      BY <2>2, <2>3
  \* A step that changes nothing the player sees.
  <1>u. UNCHANGED <<screen, InfiniteBoost>> => display' = Label(InfiniteBoost')
    BY <1>m DEF LabelFresh, screen
  <1>1. CASE example_menu
    <2>1. UNCHANGED screen
      BY <1>1 DEF example_menu
    <2>2. CASE UNCHANGED InfiniteBoost
      BY <2>1, <2>2, <1>u
    <2>3. CASE nitro_loads' = Count(nitro_loads)
      <3>1. nitro_loads = 0
        BY <2>3, <1>n DEF Count
      <3>2. activeMenu # "Nitro"
        BY <3>1, <1>m DEF Restores
      <3> QED
        BY <3>2, <2>1 DEF screen
    <2> QED
      BY <1>1, <2>2, <2>3 DEF example_menu
  <1>2. CASE load_lua /\ ~example_menu
    BY <1>2, <1>u DEF load_lua, bootstrap_load, console_load, patch_upvalues,
       patch_clear_trigger, patch_resume, patch_select, patch_register, custom_main,
       custom_tail, load_done, boost
  <1>3. CASE toggle_menu \/ pause_menu_resume
    <2>1. UNCHANGED InfiniteBoost /\ (UNCHANGED screen \/ clearPauseMenu \/ TriggerPauseMenu)
      BY <1>3 DEF toggle_menu, pause_menu_resume, boost
    <2>2. CASE clearPauseMenu
      BY <2>1, <2>2, <1>u DEF clearPauseMenu
    <2>3. CASE TriggerPauseMenu
      <3>1. CASE UNCHANGED screen
        BY <2>1, <3>1, <1>u
      <3>2. CASE activeMenu' = IF enable THEN "Main" ELSE activeMenu
        <4>1. ~enable /\ activeMenu = "Nitro"
          BY <3>2
        <4> QED
          BY <4>1 DEF Ready
      <3> QED
        BY <2>3, <3>1, <3>2 DEF TriggerPauseMenu
    <2> QED
      BY <2>1, <2>2, <2>3, <1>u
  <1>4. CASE menu_select
    <2>1. UNCHANGED <<loader, captures, cut, orig, handler, globalDrawMenu>> /\ loader = "idle"
      BY <1>4 DEF menu_select, load, patches, hist
    <2>2. PICK e \in Entries(activeMenu) : IF e = "boost" THEN select_boost ELSE select_menu(e)
      BY <1>4 DEF menu_select
    <2>3. CASE e = "boost"
      <3>1. activeMenu = "Nitro" /\ select_boost
        BY <2>2, <2>3 DEF Entries
      <3>2. captures # 0
        BY <3>1 DEF Ready
      <3>3. captures = 1
        BY <3>2, <1>m, <1>n
      <3>4. Redraws
        BY <3>3, <2>1, <1>m DEF Redraws, HasUpvalues, Captured, Drawn
      <3> QED
        BY <3>1, <3>4 DEF select_boost
    <2>4. CASE e # "boost"
      BY <2>2, <2>4 DEF select_menu, boost
    <2> QED
      BY <2>3, <2>4
  <1>5. CASE game_define \/ user_edits \/ UNCHANGED vars
    BY <1>5, <1>u DEF game_define, user_edits, vars, boost
  <1> QED
    BY <1>1, <1>2, <1>3, <1>4, <1>5 DEF Next

\* What the player reads in the nitro menu is true, until something was loaded
\* a second time or stopped short.
THEOREM LabelsAreFresh == Spec => []LabelFresh
  <1>1. Init => Captured /\ Restores /\ Ready /\ Drawn /\ LabelFresh
    BY DEF Init, Captured, Patched, Restores, Ready, Drawn, LabelFresh
  <1> QED
    BY <1>1, CapturedStep, RestoresStep, ReadyStep, DrawnStep, LabelStep, TypeCorrect, PTL DEF Spec

-----------------------------------------------------------------------------
(* Right Alt flips the menu                                                *)

LEMMA ToggleStep ==
    TypeOK /\ Captured /\ Reached /\ Ready /\ toggle_menu /\ captures = 1 /\ ~cut
        => pauseMenuShown' # pauseMenuShown /\ controls' = ~pauseMenuShown'
  <1> SUFFICES ASSUME TypeOK, Captured, Reached, Ready, toggle_menu, captures = 1, ~cut
               PROVE  pauseMenuShown' # pauseMenuShown /\ controls' = ~pauseMenuShown'
    OBVIOUS
  <1>1. orig["clear"] = "game" /\ orig["trigger"] = "game"
    BY DEF Captured
  <1>2. IF pauseMenuShown THEN clearPauseMenu ELSE TriggerPauseMenu
    BY <1>1 DEF toggle_menu, HasUpvalues
  <1>3. CASE pauseMenuShown
    <2>1. fun["clear"] = "patched"
      BY <1>1 DEF Reached
    <2>2. pauseMenuShown' = FALSE /\ controls' = TRUE
      BY <1>1, <1>2, <1>3, <2>1 DEF clearPauseMenu
    <2> QED
      BY <1>3, <2>2
  <1>4. CASE ~pauseMenuShown
    <2>1. activeMenu' = IF enable THEN "Main" ELSE activeMenu
      BY <1>1, <1>2, <1>4 DEF TriggerPauseMenu
    <2>2. loader = "idle" /\ captures > 0
      BY DEF toggle_menu
    <2>3. activeMenu' \in menus
      BY <2>1, <2>2 DEF Ready
    <2>4. pauseMenuShown' = TRUE /\ controls' = FALSE
      BY <1>1, <1>2, <1>4, <2>3 DEF TriggerPauseMenu
    <2> QED
      BY <1>4, <2>4
  <1> QED
    BY <1>3, <1>4

\* After one load that did not stop short, a press of Right Alt opens the menu
\* that is closed and closes the one that is open, and the controls follow.
THEOREM TogglesFlip == Spec => ToggleFlips
  <1>1. Init => Captured /\ Reached /\ Ready
    BY DEF Init, Captured, Patched, Reached, Ready
  <1>2. TypeOK /\ Captured /\ Reached /\ Ready
          => (toggle_menu /\ captures = 1 /\ ~cut
                => pauseMenuShown' # pauseMenuShown /\ controls' = ~pauseMenuShown')
    BY ToggleStep
  <1>3. Spec => [](TypeOK /\ Captured /\ Reached /\ Ready)
    BY <1>1, CapturedStep, ReachedStep, ReadyStep, TypeCorrect, PTL DEF Spec
  <1> QED
    BY <1>2, <1>3, PTL DEF ToggleFlips
=============================================================================
