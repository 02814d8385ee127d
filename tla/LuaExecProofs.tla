--------------------------- MODULE LuaExecProofs ---------------------------
(***************************************************************************)
(* Proofs about the command slot: the type invariant, and that the slot    *)
(* implements CommandLife, so that no typed line is ever replayed.         *)
(***************************************************************************)
EXTENDS LuaExec, TLAPS

-----------------------------------------------------------------------------
(* The type invariant *)

LEMMA TypeInit == Init => TypeOK
  <1> SUFFICES ASSUME Init PROVE TypeOK
    OBVIOUS
  <1>1. Empty \in Chunks /\ depth \in 0..MaxDepth
    BY DepthAssumption DEF Init, Chunks, OwnChunks
  <1>2. /\ pc \in [Frames -> HookPCs] /\ site \in [Frames -> Sites]
        /\ chunk \in [Frames -> Chunks] /\ ok \in [Frames -> BOOLEAN]
    BY <1>1 DEF Init, Sites, HookPCs
  <1>3. console \in [pc : PostPCs, text : Commands \cup {Empty}] /\ input \in PostPCs
    BY DEF Init, PostPCs
  <1>4. world \in [running : BOOLEAN, flagDefined : BOOLEAN]
    BY DEF Init
  <1>5. /\ config_menu_enable \in BOOLEAN /\ game_running_hook_complete \in BOOLEAN
        /\ print_overridden \in BOOLEAN /\ p_game_state \in BOOLEAN /\ execute \in BOOLEAN
    BY DEF Init
  <1> QED
    BY <1>1, <1>2, <1>3, <1>4, <1>5 DEF Init, TypeOK

LEMMA TypeStep == TypeOK /\ [Next]_vars => TypeOK'
  <1> SUFFICES ASSUME TypeOK, [Next]_vars PROVE TypeOK'
    OBVIOUS
  <1> USE DepthAssumption DEF TypeOK, Frames, goto, Top
  <1> DEFINE Own == {FlagChunk, LoadChunk, ToggleChunk, Empty, Torn}
  <1>a. Own \subseteq Chunks /\ Commands \subseteq Chunks /\ depth \in Int
    BY DEF Chunks, OwnChunks
  <1>b. \A t, text : end_assign(t, text) /\ text \in Chunks
                       => buffer' \in Chunks /\ clash' \subseteq Chunks /\ writers' \subseteq writers
    BY <1>a DEF end_assign
  <1>c. \A t \in {"lua", "console", "input"} : begin_assign(t)
                       => buffer' \in Chunks /\ clash' \subseteq Chunks
                          /\ writers' \subseteq {"lua", "console", "input"}
    BY <1>a DEF begin_assign
  <1>d. Disturb => /\ chunk' \in [Frames -> Chunks] /\ intruded' \subseteq {"config", "boot", "load"}
                   /\ UNCHANGED <<depth, pc, site, ok>>
    <2> SUFFICES ASSUME Disturb
                 PROVE  /\ chunk' \in [Frames -> Chunks] /\ intruded' \subseteq {"config", "boot", "load"}
                        /\ UNCHANGED <<depth, pc, site, ok>>
      OBVIOUS
    <2>1. chunk' \in {chunk, [chunk EXCEPT ![depth] = Torn]}
      BY DEF Disturb
    <2>2. Torn \in Chunks
      BY <1>a
    <2>3. chunk' \in [Frames -> Chunks]
      BY <2>1, <2>2
    <2>4. InWindow => site[depth] \in {"config", "boot", "load"}
      BY DEF InWindow, Sites
    <2> QED
      BY <2>3, <2>4 DEF Disturb
  <1>1. CASE game_step
    BY <1>1 DEF game_step, slot, flags, frame, hist
  <1>2. CASE pcall_enter
    BY <1>2 DEF pcall_enter, slot, hist, HookPCs
  <1>3. CASE pcall_return
    BY <1>3 DEF pcall_return, slot, flags, hist, HookPCs
  <1>4. CASE override_print
    BY <1>4 DEF override_print, slot, hist, HookPCs
  <1>5. CASE override_config_menu
    BY <1>5, <1>c DEF override_config_menu, post_own, flags, hist, HookPCs, Sites
  <1>6. CASE lua_game_running_hook_bootstrap
    <2>1. pc' \in [Frames -> HookPCs] /\ site' \in [Frames -> Sites]
      BY <1>6 DEF lua_game_running_hook_bootstrap, post_own, HookPCs, Sites
    <2>2. /\ buffer' \in Chunks /\ clash' \subseteq Chunks
          /\ writers' \subseteq {"lua", "console", "input"}
      BY <1>6, <1>c DEF lua_game_running_hook_bootstrap, post_own
    <2>3. UNCHANGED <<typed, retired, completed, loads>> /\ intruded' \subseteq {"config", "boot", "load"}
      BY <1>6 DEF lua_game_running_hook_bootstrap, post_own, hist
    <2> QED
      BY <1>6, <2>1, <2>2, <2>3 DEF lua_game_running_hook_bootstrap, flags
  <1>7. CASE own_assigned
    BY <1>7, <1>a, <1>b DEF own_assigned, flags, hist, HookPCs
  <1>8. CASE own_flag
    BY <1>8 DEF own_flag, flags, hist, HookPCs
  <1>9. CASE execute_lua_test
    BY <1>9 DEF execute_lua_test, execute_lua_return, flags, hist, HookPCs, Sites
  <1>10. CASE execute_lua_load
    BY <1>10 DEF execute_lua_load, slot, flags, hist, HookPCs
  <1>11. CASE execute_lua_parsed
    BY <1>11 DEF execute_lua_parsed, slot, flags, hist, HookPCs
  <1>12. CASE execute_lua_ran
    <2>1. PICK res \in Outcomes(chunk[depth]) :
              /\ ok' = [ok EXCEPT ![depth] = res]
              /\ completed' = completed \cup
                    (IF res THEN {chunk[depth]} \cap {FlagChunk, LoadChunk} ELSE {})
              /\ loads' = IF res /\ chunk[depth] = LoadChunk /\ loads < 2
                          THEN loads + 1 ELSE loads
      BY <1>12 DEF execute_lua_ran
    <2>2. res \in BOOLEAN
      BY DEF Outcomes
    <2>3. ok' \in [Frames -> BOOLEAN]
      BY <2>1, <2>2
    <2>4. completed' \subseteq {FlagChunk, LoadChunk} /\ loads' \in 0..2
      BY <2>1
    <2>5. pc' \in [Frames -> HookPCs]
      BY <1>12 DEF execute_lua_ran, HookPCs
    <2> QED
      BY <1>12, <2>3, <2>4, <2>5 DEF execute_lua_ran, slot, flags
  <1>13. CASE execute_lua_clear
    BY <1>13, <1>c DEF execute_lua_clear, flags, hist, HookPCs
  <1>14. CASE execute_lua_cleared
    BY <1>14, <1>a, <1>b DEF execute_lua_cleared, execute_lua_return, HookPCs, Sites
  <1>15. CASE hook_return
    BY <1>15 DEF hook_return, slot, flags, hist, HookPCs
  <1>16. CASE console_getline
    BY <1>16, <1>c, <1>d DEF console_getline, flags, PostPCs
  <1>17. CASE console_assigned
    <2>1. console.text \in Commands \cup {Empty}
      OBVIOUS
    <2>2. /\ buffer' \in Chunks /\ clash' \subseteq Chunks /\ writers' \subseteq writers
      BY <1>17, <1>a, <1>b, <2>1 DEF console_assigned
    <2>3. console' \in [pc : PostPCs, text : Commands \cup {Empty}]
      BY <1>17, <2>1 DEF console_assigned, PostPCs
    <2> QED
      BY <1>17, <2>2, <2>3 DEF console_assigned, flags, frame, hist
  <1>18. CASE console_flag
    BY <1>18 DEF console_flag, flags, frame, hist, PostPCs
  <1>19. CASE input_press
    BY <1>19 DEF input_press, slot, flags, frame, hist, PostPCs
  <1>20. CASE input_assign
    BY <1>20, <1>c, <1>d DEF input_assign, flags, PostPCs
  <1>21. CASE input_assigned
    BY <1>21, <1>a, <1>b DEF input_assigned, flags, frame, hist, PostPCs
  <1>22. CASE input_flag
    BY <1>22 DEF input_flag, flags, frame, hist, PostPCs
  <1>23. CASE UNCHANGED vars
    BY <1>23 DEF vars, slot, flags, frame, hist
  <1> QED
    BY <1>1, <1>2, <1>3, <1>4, <1>5, <1>6, <1>7, <1>8, <1>9, <1>10, <1>11, <1>12,
       <1>13, <1>14, <1>15, <1>16, <1>17, <1>18, <1>19, <1>20, <1>21, <1>22, <1>23
    DEF Next, lua_pcall_hook, hook_body, hack_main, get_device_data_hook

\* Type correctness of the command slot and of the frames of lua_pcall_hook.
THEOREM TypeCorrect == Spec => []TypeOK
  BY TypeInit, TypeStep, PTL DEF Spec

-----------------------------------------------------------------------------
(* The inductive invariant behind LinesNeverReplay                         *)

\* A frame below the top has a call in progress, a frame above it is unused,
\* and a frame holds a chunk only from its load to its clear.
Shape ==
    \A l \in Frames :
        /\ l > depth => pc[l] = "off"
        /\ l < depth => pc[l] \in {"orig", "run"}
        /\ chunk[l] # Empty => pc[l] \in {"parse", "run", "clear", "clearing"}

\* The buffer is torn while somebody assigns to it, and who does.
Races ==
    /\ writers # {} => buffer = Torn
    /\ writers = {} => clash = {}
    /\ depth > 0 /\ pc[depth] = "clearing" => "lua" \in writers
    /\ console.pc = "assign" => "console" \in writers

\* Every line that is anywhere was typed.
Known ==
    /\ retired \subseteq typed
    /\ clash \cap Commands \subseteq typed
    /\ {buffer, console.text} \cap Commands \subseteq typed
    /\ \A l \in Frames : {chunk[l]} \cap Commands \subseteq typed

\* A line that may still become the content of the buffer is not retired, and
\* one that is only being assigned is in no frame.
Fresh ==
    /\ \A c \in clash \cap Commands : c \notin retired /\ \A l \in Frames : chunk[l] # c
    /\ console.pc = "assign" => /\ console.text \in Commands \ (retired \cup clash \cup {buffer})
                                /\ \A l \in Frames : chunk[l] # console.text
    /\ buffer \notin retired
    /\ \A l \in Frames : chunk[l] \in retired => pc[l] \in {"run", "clear", "clearing"}

IInv == TypeOK /\ Shape /\ Races /\ Known /\ Fresh

\* The texts of the DLL are no typed lines.
LEMMA OwnTexts == {FlagChunk, LoadChunk, ToggleChunk, Empty, Torn} \cap Commands = {}
  BY CommandsAssumption DEF OwnChunks

LEMMA IInvInit == Init => IInv
  <1> SUFFICES ASSUME Init PROVE IInv
    OBVIOUS
  <1>1. TypeOK
    BY TypeInit
  <1>2. Shape /\ Races
    BY DepthAssumption DEF Init, Shape, Races, Frames
  <1>3. Known /\ Fresh
    BY OwnTexts DEF Init, Known, Fresh
  <1> QED
    BY <1>1, <1>2, <1>3 DEF IInv

LEMMA ShapeStep == TypeOK /\ Shape /\ [Next]_vars => Shape'
  <1> SUFFICES ASSUME TypeOK, Shape, [Next]_vars, NEW l \in Frames
               PROVE  /\ l > depth' => pc'[l] = "off"
                      /\ l < depth' => pc'[l] \in {"orig", "run"}
                      /\ chunk'[l] # Empty => pc'[l] \in {"parse", "run", "clear", "clearing"}
    BY DEF Shape
  <1>a. /\ depth \in 0..MaxDepth /\ l \in 1..MaxDepth /\ MaxDepth \in Nat
        /\ DOMAIN pc = 1..MaxDepth /\ DOMAIN chunk = 1..MaxDepth
    BY DepthAssumption DEF TypeOK, Frames
  <1>b. /\ l > depth => pc[l] = "off"
        /\ l < depth => pc[l] \in {"orig", "run"}
        /\ chunk[l] # Empty => pc[l] \in {"parse", "run", "clear", "clearing"}
    BY DEF Shape
  <1> USE <1>a, <1>b DEF goto, Top
  <1>1. CASE UNCHANGED frame
    BY <1>1 DEF frame
  <1>2. CASE pcall_enter
    BY <1>2 DEF pcall_enter
  <1>3. CASE pcall_return \/ override_print
    BY <1>3 DEF pcall_return, override_print
  <1>4. CASE override_config_menu \/ lua_game_running_hook_bootstrap
    BY <1>4 DEF override_config_menu, lua_game_running_hook_bootstrap, post_own
  <1>5. CASE own_assigned \/ own_flag
    BY <1>5 DEF own_assigned, own_flag
  <1>6. CASE execute_lua_test
    BY <1>6 DEF execute_lua_test, execute_lua_return
  <1>7. CASE execute_lua_load \/ execute_lua_parsed
    BY <1>7 DEF execute_lua_load, execute_lua_parsed
  <1>8. CASE execute_lua_ran \/ execute_lua_clear
    BY <1>8 DEF execute_lua_ran, execute_lua_clear
  <1>9. CASE execute_lua_cleared
    BY <1>9 DEF execute_lua_cleared, execute_lua_return
  <1>10. CASE hook_return
    BY <1>10 DEF hook_return
  <1>11. CASE console_getline \/ input_assign
    BY <1>11 DEF console_getline, input_assign, Disturb
  <1>12. game_step \/ console_assigned \/ console_flag \/ input_press \/ input_assigned
           \/ input_flag \/ UNCHANGED vars => UNCHANGED frame
    BY DEF game_step, console_assigned, console_flag, input_press, input_assigned,
           input_flag, vars
  <1> QED
    BY <1>1, <1>2, <1>3, <1>4, <1>5, <1>6, <1>7, <1>8, <1>9, <1>10, <1>11, <1>12
    DEF Next, lua_pcall_hook, hook_body, hack_main, get_device_data_hook

\* Beginning and ending an assignment keep the buffer and the clash together.
LEMMA AssignRaces ==
    ASSUME Races, NEW t, NEW text, begin_assign(t) \/ end_assign(t, text)
    PROVE  (writers' # {} => buffer' = Torn) /\ (writers' = {} => clash' = {})
  BY DEF Races, begin_assign, end_assign

LEMMA RacesStep == TypeOK /\ Shape /\ Races /\ [Next]_vars => Races'
  <1> SUFFICES ASSUME TypeOK, Shape, Races, [Next]_vars PROVE Races'
    OBVIOUS
  <1> DEFINE Together == (writers' # {} => buffer' = Torn) /\ (writers' = {} => clash' = {})
             Clearing == depth' > 0 /\ pc'[depth'] = "clearing" => "lua" \in writers'
             Typing   == console'.pc = "assign" => "console" \in writers'
  <1>a. /\ depth \in 0..MaxDepth /\ MaxDepth \in Nat /\ DOMAIN pc = 1..MaxDepth
        /\ \A l \in 1..MaxDepth : l < depth => pc[l] \in {"orig", "run"}
    BY DepthAssumption DEF TypeOK, Shape, Frames
  <1>b. /\ writers # {} => buffer = Torn
        /\ writers = {} => clash = {}
        /\ depth > 0 /\ pc[depth] = "clearing" => "lua" \in writers
        /\ console.pc = "assign" => "console" \in writers
    BY DEF Races
  <1>c. \A t, text : begin_assign(t) \/ end_assign(t, text) => Together
    BY AssignRaces
  <1> HIDE DEF Together
  <1> SUFFICES Together /\ Clearing /\ Typing
    BY DEF Together, Races
  <1> USE <1>a DEF goto, Top
  <1>3. pcall_enter \/ pcall_return \/ override_print \/ own_flag \/ execute_lua_load
          \/ execute_lua_parsed \/ execute_lua_ran \/ hook_return
          => UNCHANGED <<buffer, writers, clash, console>>
             /\ (depth' > 0 => pc'[depth'] # "clearing")
    BY DEF pcall_enter, pcall_return, override_print, own_flag, execute_lua_load,
           execute_lua_parsed, execute_lua_ran, hook_return, slot
  <1>4. pcall_enter \/ pcall_return \/ override_print \/ own_flag \/ execute_lua_load
          \/ execute_lua_parsed \/ execute_lua_ran \/ hook_return
          => Together /\ Clearing /\ Typing
    BY <1>3, <1>b DEF Together
  <1>5. game_step \/ input_press \/ UNCHANGED vars => Together /\ Clearing /\ Typing
    BY <1>b DEF game_step, input_press, vars, slot, frame, Together
  <1>6. CASE override_config_menu \/ lua_game_running_hook_bootstrap
    <2>1. /\ UNCHANGED console /\ pc'[depth'] # "clearing"
          /\ begin_assign("lua") \/ UNCHANGED <<buffer, writers, clash>>
      BY <1>6 DEF override_config_menu, lua_game_running_hook_bootstrap, post_own
    <2>2. Together
      BY <2>1, <1>b, <1>c DEF Together
    <2> QED
      BY <2>1, <2>2, <1>b DEF begin_assign
  <1>7. CASE own_assigned
    <2>1. UNCHANGED <<console, depth>> /\ pc'[depth'] = "flag"
      BY <1>7 DEF own_assigned
    <2>2. PICK text : end_assign("lua", text)
      BY <1>7 DEF own_assigned
    <2>3. Together
      BY <2>2, <1>c
    <2>4. writers' = writers \ {"lua"}
      BY <2>2 DEF end_assign
    <2> QED
      BY <2>1, <2>3, <2>4, <1>b
  <1>8. CASE execute_lua_test
    BY <1>8, <1>b DEF execute_lua_test, execute_lua_return, Together
  <1>9. CASE execute_lua_clear
    BY <1>9, <1>b, <1>c DEF execute_lua_clear, begin_assign
  <1>10. CASE execute_lua_cleared
    <2>1. UNCHANGED <<console, depth>> /\ pc'[depth'] # "clearing"
      BY <1>10 DEF execute_lua_cleared, execute_lua_return
    <2>2. end_assign("lua", Empty)
      BY <1>10 DEF execute_lua_cleared
    <2>3. Together
      BY <2>2, <1>c
    <2>4. writers' = writers \ {"lua"}
      BY <2>2 DEF end_assign
    <2> QED
      BY <2>1, <2>3, <2>4, <1>b
  <1>11. CASE console_getline
    <2>1. UNCHANGED <<depth, pc>> /\ begin_assign("console")
      BY <1>11 DEF console_getline, Disturb
    <2> QED
      BY <2>1, <1>b, <1>c DEF begin_assign
  <1>12. CASE console_assigned
    BY <1>12, <1>b, <1>c DEF console_assigned, end_assign, frame
  <1>13. CASE console_flag
    BY <1>13, <1>b DEF console_flag, frame, Together
  <1>14. CASE input_assign
    <2>1. UNCHANGED <<depth, pc, console>> /\ begin_assign("input")
      BY <1>14 DEF input_assign, Disturb
    <2> QED
      BY <2>1, <1>b, <1>c DEF begin_assign
  <1>15. CASE input_assigned
    BY <1>15, <1>b, <1>c DEF input_assigned, end_assign, frame
  <1>16. CASE input_flag
    BY <1>16, <1>b DEF input_flag, frame, Together
  <1> QED
    BY <1>4, <1>5, <1>6, <1>7, <1>8, <1>9, <1>10, <1>11, <1>12, <1>13, <1>14,
       <1>15, <1>16
    DEF Next, lua_pcall_hook, hook_body, hack_main, get_device_data_hook

Own == {FlagChunk, LoadChunk, ToggleChunk, Empty, Torn}

\* Where a step may take the texts it leaves in the slot and in the frames.
LEMMA Moves ==
    ASSUME TypeOK, [Next]_vars
    PROVE  /\ typed \subseteq typed'
           /\ retired' \subseteq retired \cup {chunk[l] : l \in Frames}
           /\ \A l \in Frames : chunk'[l] \in {chunk[l], buffer, Torn, Empty}
           /\ buffer' \in clash \cup Own \cup {buffer, console.text}
           /\ clash' \subseteq clash \cup Own \cup {console.text}
           /\ console'.text \in {console.text, Empty} \cup typed'
  <1> DEFINE LinesOk  == typed \subseteq typed' /\ retired' \subseteq retired \cup {chunk[l] : l \in Frames}
             FramesOk  == \A l \in Frames : chunk'[l] \in {chunk[l], buffer, Torn, Empty}
             SlotOk  == /\ buffer' \in clash \cup Own \cup {buffer, console.text}
                       /\ clash' \subseteq clash \cup Own \cup {console.text}
             TextOk  == console'.text \in {console.text, Empty} \cup typed'
  <1> SUFFICES LinesOk /\ FramesOk /\ SlotOk /\ TextOk
    OBVIOUS
  <1>a. depth \in 0..MaxDepth /\ chunk \in [Frames -> Chunks] /\ Frames = 1..MaxDepth /\ MaxDepth \in Nat
    BY DepthAssumption DEF TypeOK, Frames
  <1>b. UNCHANGED <<buffer, writers, clash>> => SlotOk
    OBVIOUS
  <1>c. \A t : begin_assign(t) => SlotOk
    BY DEF begin_assign, Own
  <1>d. \A t : \A text \in Own \cup {console.text} : end_assign(t, text) => SlotOk
    BY DEF end_assign, Own
  <1>e. UNCHANGED chunk => FramesOk
    OBVIOUS
  <1>f. ASSUME Disturb PROVE FramesOk
    <2>1. chunk' \in {chunk, [chunk EXCEPT ![depth] = Torn]}
      BY <1>f DEF Disturb
    <2> QED
      BY <2>1, <1>a
  <1> HIDE DEF SlotOk, FramesOk
  <1>1. CASE game_step \/ UNCHANGED vars
    BY <1>1, <1>b, <1>e DEF game_step, vars, slot, frame, hist
  <1>2. CASE pcall_enter \/ pcall_return \/ override_print
    BY <1>2, <1>b, <1>e DEF pcall_enter, pcall_return, override_print, slot, hist
  <1>3. CASE override_config_menu \/ lua_game_running_hook_bootstrap
    BY <1>3, <1>b, <1>c, <1>e
    DEF override_config_menu, lua_game_running_hook_bootstrap, post_own, hist
  <1>4. CASE own_assigned
    BY <1>4, <1>d, <1>e DEF own_assigned, hist, Own
  <1>5. CASE own_flag \/ execute_lua_test
    BY <1>5, <1>b, <1>e DEF own_flag, execute_lua_test, hist
  <1>6. CASE execute_lua_load
    <2>1. FramesOk
      BY <1>6, <1>a DEF execute_lua_load, FramesOk
    <2> QED
      BY <1>6, <2>1, <1>b DEF execute_lua_load, slot, hist
  <1>7. CASE execute_lua_parsed \/ execute_lua_ran \/ hook_return
    BY <1>7, <1>b, <1>e DEF execute_lua_parsed, execute_lua_ran, hook_return, slot, hist
  <1>8. CASE execute_lua_clear
    BY <1>8, <1>c, <1>e DEF execute_lua_clear, hist
  <1>9. CASE execute_lua_cleared
    <2>1. FramesOk
      BY <1>9, <1>a DEF execute_lua_cleared, FramesOk
    <2>2. depth \in Frames
      BY <1>9, <1>a DEF execute_lua_cleared, Top
    <2>3. LinesOk
      BY <1>9, <2>2 DEF execute_lua_cleared
    <2>4. SlotOk
      BY <1>9, <1>d DEF execute_lua_cleared, Own
    <2> QED
      BY <1>9, <2>1, <2>3, <2>4 DEF execute_lua_cleared
  <1>10. CASE console_getline
    <2>1. PICK c \in Commands \ typed : /\ console' = [pc |-> "assign", text |-> c]
                                        /\ typed' = typed \cup {c}
      BY <1>10 DEF console_getline
    <2>2. LinesOk /\ TextOk
      BY <1>10, <2>1 DEF console_getline
    <2> QED
      BY <1>10, <2>2, <1>c, <1>f DEF console_getline
  <1>11. CASE console_assigned
    BY <1>11, <1>d, <1>e DEF console_assigned, frame, hist
  <1>12. CASE console_flag
    BY <1>12, <1>b, <1>e DEF console_flag, frame, hist
  <1>13. CASE input_press \/ input_flag
    BY <1>13, <1>b, <1>e DEF input_press, input_flag, slot, frame, hist
  <1>14. CASE input_assign
    BY <1>14, <1>c, <1>f DEF input_assign
  <1>15. CASE input_assigned
    BY <1>15, <1>d, <1>e DEF input_assigned, frame, hist, Own
  <1> QED
    BY <1>1, <1>2, <1>3, <1>4, <1>5, <1>6, <1>7, <1>8, <1>9, <1>10, <1>11, <1>12,
       <1>13, <1>14, <1>15
    DEF Next, lua_pcall_hook, hook_body, hack_main, get_device_data_hook

LEMMA KnownStep == TypeOK /\ TypeOK' /\ Known /\ [Next]_vars => Known'
  <1> SUFFICES ASSUME TypeOK, TypeOK', Known, [Next]_vars PROVE Known'
    OBVIOUS
  <1>1. /\ typed \subseteq typed'
        /\ retired' \subseteq retired \cup {chunk[l] : l \in Frames}
        /\ \A l \in Frames : chunk'[l] \in {chunk[l], buffer, Torn, Empty}
        /\ buffer' \in clash \cup Own \cup {buffer, console.text}
        /\ clash' \subseteq clash \cup Own \cup {console.text}
        /\ console'.text \in {console.text, Empty} \cup typed'
    BY Moves
  <1>2. Own \cap Commands = {} /\ Torn \in Own /\ Empty \in Own
    BY OwnTexts DEF Own
  <1>3. retired' \subseteq Commands
    BY DEF TypeOK
  <1>4. (clash \cup {buffer, console.text}) \cap Commands \subseteq typed'
    BY <1>1 DEF Known
  <1>5. \A l \in Frames : {chunk[l]} \cap Commands \subseteq typed'
    BY <1>1 DEF Known
  <1>6. retired' \subseteq typed'
    BY <1>1, <1>3, <1>5 DEF Known
  <1>7. clash' \cap Commands \subseteq typed'
    BY <1>1, <1>2, <1>4
  <1>8. {buffer', console'.text} \cap Commands \subseteq typed'
    BY <1>1, <1>2, <1>4
  <1>9. \A l \in Frames : {chunk'[l]} \cap Commands \subseteq typed'
    BY <1>1, <1>2, <1>4, <1>5
  <1> QED
    BY <1>6, <1>7, <1>8, <1>9 DEF Known

\* What begin_assign, and end_assign of a text of the DLL, do to the typed
\* lines in the slot: none that was not in the clash gets in.
LEMMA OwnAssign ==
    ASSUME TypeOK, NEW t, NEW text \in Own, begin_assign(t) \/ end_assign(t, text)
    PROVE  /\ clash' \cap Commands \subseteq clash
           /\ buffer' \in Commands => buffer' \in clash
  <1>1. Own \cap Commands = {} /\ Torn \in Own /\ Empty \in Own
    BY OwnTexts DEF Own
  <1>2. CASE begin_assign(t)
    BY <1>1, <1>2 DEF begin_assign
  <1>3. CASE end_assign(t, text)
    BY <1>1, <1>3 DEF end_assign
  <1> QED
    BY <1>2, <1>3

LEMMA FreshStep == TypeOK /\ TypeOK' /\ Shape /\ Races /\ Known /\ Fresh /\ [Next]_vars => Fresh'
  <1> SUFFICES ASSUME TypeOK, TypeOK', Shape, Races, Known, Fresh, [Next]_vars PROVE Fresh'
    OBVIOUS
  <1> DEFINE Clash == \A c \in clash \cap Commands : c \notin retired /\ \A l \in Frames : chunk[l] # c
             Line  == console.pc = "assign" =>
                        /\ console.text \in Commands \ (retired \cup clash \cup {buffer})
                        /\ \A l \in Frames : chunk[l] # console.text
             Buf   == buffer \notin retired
             Busy  == \A l \in Frames : chunk[l] \in retired => pc[l] \in {"run", "clear", "clearing"}
             InClash == /\ clash' \cap Commands \subseteq clash
                        /\ buffer' \in Commands => buffer' \in clash
  <1>f. Clash /\ Line /\ Buf /\ Busy
    BY DEF Fresh
  <1>t. /\ depth \in 0..MaxDepth /\ Frames = 1..MaxDepth /\ MaxDepth \in Nat
        /\ DOMAIN pc = Frames /\ DOMAIN chunk = Frames
        /\ retired \subseteq Commands /\ retired' \subseteq Commands
    BY DepthAssumption DEF TypeOK, Frames
  <1>o. /\ Own \cap Commands = {} /\ Torn \in Own /\ Empty \in Own
        /\ FlagChunk \in Own /\ LoadChunk \in Own /\ ToggleChunk \in Own
    BY OwnTexts DEF Own
  <1>s. \A l \in Frames :
            /\ l > depth => pc[l] = "off"
            /\ l < depth => pc[l] \in {"orig", "run"}
            /\ chunk[l] \in Commands => pc[l] \in {"parse", "run", "clear", "clearing"}
    BY <1>o DEF Shape
  <1>i. ASSUME NEW t, NEW text \in Own, begin_assign(t) \/ end_assign(t, text) PROVE InClash
    BY <1>i, OwnAssign
  \* The slot's part, when frames, history and the console stay.
  <1>u. ASSUME InClash, UNCHANGED <<chunk, retired, console>> PROVE (Clash /\ Line /\ Buf)'
    <2>1. Clash'
      BY <1>u, <1>f
    <2>2. Line'
      BY <1>u, <1>f
    <2>3. Buf'
      BY <1>u, <1>f, <1>t
    <2> QED
      BY <2>1, <2>2, <2>3
  <1>w. UNCHANGED <<buffer, clash, chunk, retired, console>> => (Clash /\ Line /\ Buf)'
    BY <1>f
  \* The frames' part, when history and chunks stay: a line leaves its frame
  \* at the clear.
  <1>b. ASSUME UNCHANGED <<chunk, retired>>,
               \A l \in Frames : pc[l] \in {"run", "clear", "clearing"} =>
                                 pc'[l] \in {"run", "clear", "clearing"}
        PROVE  Busy'
    BY <1>b, <1>f
  <1> HIDE DEF Clash, Line, Buf, Busy, InClash
  <1> SUFFICES (Clash /\ Line /\ Buf /\ Busy)'
    BY DEF Fresh, Clash, Line, Buf, Busy
  <1> USE DEF goto, Top
  <1>1. CASE game_step \/ input_press \/ UNCHANGED vars
    BY <1>1, <1>w, <1>b DEF game_step, input_press, vars, slot, frame, hist
  <1>2. CASE pcall_enter
    <2>1. \A l \in Frames : pc[l] \in {"run", "clear", "clearing"} => pc'[l] = pc[l]
      BY <1>2, <1>t, <1>s DEF pcall_enter
    <2>2. UNCHANGED <<buffer, clash, chunk, retired, console>>
      BY <1>2 DEF pcall_enter, slot, hist
    <2> QED
      BY <2>1, <2>2, <1>w, <1>b
  <1>3. CASE pcall_return \/ override_print \/ own_flag \/ execute_lua_test
               \/ execute_lua_parsed \/ execute_lua_ran \/ hook_return
    <2>1. \A l \in Frames : pc[l] \in {"run", "clear", "clearing"} =>
                            pc'[l] \in {"run", "clear", "clearing"}
      BY <1>3, <1>t DEF pcall_return, override_print, own_flag, execute_lua_test,
             execute_lua_return, execute_lua_parsed, execute_lua_ran, hook_return
    <2>2. UNCHANGED <<buffer, clash, chunk, retired, console>>
      BY <1>3 DEF pcall_return, override_print, own_flag, execute_lua_test,
             execute_lua_parsed, execute_lua_ran, hook_return, slot, hist
    <2> QED
      BY <2>1, <2>2, <1>w, <1>b
  <1>4. CASE override_config_menu \/ lua_game_running_hook_bootstrap
    <2>1. /\ UNCHANGED <<chunk, retired, console>>
          /\ begin_assign("lua") \/ UNCHANGED <<buffer, clash>>
      BY <1>4 DEF override_config_menu, lua_game_running_hook_bootstrap, post_own, hist
    <2>2. (Clash /\ Line /\ Buf)'
      BY <2>1, <1>i, <1>o, <1>u, <1>w
    <2>3. \A l \in Frames : pc[l] \in {"run", "clear", "clearing"} => pc'[l] = pc[l]
      BY <1>4, <1>t DEF override_config_menu, lua_game_running_hook_bootstrap, post_own
    <2> QED
      BY <2>1, <2>2, <2>3, <1>b
  <1>5. CASE own_assigned
    <2>1. UNCHANGED <<chunk, retired, console>>
      BY <1>5 DEF own_assigned, hist
    <2>2. InClash
      BY <1>5, <1>i, <1>o DEF own_assigned
    <2>3. \A l \in Frames : pc[l] \in {"run", "clear", "clearing"} => pc'[l] = pc[l]
      BY <1>5, <1>t DEF own_assigned
    <2> QED
      BY <2>1, <2>2, <2>3, <1>u, <1>b
  <1>6. CASE execute_lua_load
    <2>1. /\ UNCHANGED <<buffer, clash, retired, console>>
          /\ depth \in Frames /\ pc' = [pc EXCEPT ![depth] = "parse"]
          /\ chunk' = [chunk EXCEPT ![depth] = buffer]
      BY <1>6, <1>t DEF execute_lua_load, slot, hist
    <2>2. buffer = Torn \/ clash = {}
      BY DEF Races
    <2>3. Clash'
      BY <2>1, <2>2, <1>f, <1>t, <1>o DEF Clash
    <2>4. Line'
      BY <2>1, <1>f, <1>t DEF Line
    <2>5. Buf'
      BY <2>1, <1>f DEF Buf
    <2>6. Busy'
      BY <2>1, <1>f, <1>t DEF Busy, Buf
    <2> QED
      BY <2>3, <2>4, <2>5, <2>6
  <1>7. CASE execute_lua_clear
    <2>1. UNCHANGED <<chunk, retired, console>>
      BY <1>7 DEF execute_lua_clear, hist
    <2>2. InClash
      BY <1>7, <1>i, <1>o DEF execute_lua_clear
    <2>3. \A l \in Frames : pc[l] \in {"run", "clear", "clearing"} =>
                            pc'[l] \in {"run", "clear", "clearing"}
      BY <1>7, <1>t DEF execute_lua_clear
    <2> QED
      BY <2>1, <2>2, <2>3, <1>u, <1>b
  <1>8. CASE execute_lua_cleared
    <2>1. /\ retired' = retired \cup ({chunk[depth]} \cap Commands)
          /\ chunk' = [chunk EXCEPT ![depth] = Empty]
          /\ UNCHANGED console
          /\ depth \in Frames
          /\ \A l \in Frames \ {depth} : pc'[l] = pc[l]
      BY <1>8, <1>t DEF execute_lua_cleared, execute_lua_return
    <2>2. InClash
      BY <1>8, <1>i, <1>o DEF execute_lua_cleared
    <2>3. Clash'
      BY <2>1, <2>2, <1>f, <1>t, <1>o DEF Clash, InClash
    <2>4. Line'
      BY <2>1, <2>2, <1>f, <1>t, <1>o DEF Line, InClash
    <2>5. Buf'
      BY <2>1, <2>2, <1>f, <1>t DEF Buf, InClash, Clash
    <2>6. Busy'
      <3> SUFFICES ASSUME NEW l \in Frames, chunk'[l] \in retired'
                   PROVE  pc'[l] \in {"run", "clear", "clearing"}
        BY DEF Busy
      <3>1. l # depth /\ chunk'[l] = chunk[l] /\ pc'[l] = pc[l] /\ chunk[l] \in Commands
        BY <2>1, <1>t, <1>o
      <3>2. pc[l] = "run"
        BY <3>1, <1>s, <1>t
      <3> QED
        BY <3>1, <3>2
    <2> QED
      BY <2>3, <2>4, <2>5, <2>6
  <1>9. CASE console_getline
    <2>1. PICK c \in Commands \ typed : /\ console' = [pc |-> "assign", text |-> c]
                                        /\ typed' = typed \cup {c}
      BY <1>9 DEF console_getline
    <2>2. /\ UNCHANGED <<pc, retired>> /\ begin_assign("console")
          /\ chunk' \in {chunk, [chunk EXCEPT ![depth] = Torn]}
      BY <1>9 DEF console_getline, Disturb
    <2>3. \A l \in Frames : chunk'[l] \in {chunk[l], Torn}
      BY <2>2, <1>t
    <2>4. InClash /\ buffer' = Torn
      BY <2>2, <1>i, <1>o DEF begin_assign
    <2>5. c \notin clash \cup retired /\ \A l \in Frames : chunk[l] # c
      BY DEF Known
    <2>6. Clash'
      BY <2>2, <2>3, <2>4, <1>f, <1>o DEF Clash, InClash
    <2>7. Line'
      BY <2>1, <2>2, <2>3, <2>4, <2>5, <1>o DEF Line, InClash
    <2>8. Buf'
      BY <2>2, <2>4, <1>t, <1>o DEF Buf
    <2>9. Busy'
      BY <2>2, <2>3, <1>f, <1>t, <1>o DEF Busy
    <2> QED
      BY <2>6, <2>7, <2>8, <2>9
  <1>10. CASE console_assigned
    <2>1. /\ end_assign("console", console.text) /\ console.pc = "assign"
          /\ console'.pc = "flag" /\ UNCHANGED <<chunk, pc, retired>>
      BY <1>10 DEF console_assigned, frame, hist
    <2>2. /\ clash' \subseteq clash \cup {console.text}
          /\ buffer' \in clash \cup {console.text, Torn}
      BY <2>1 DEF end_assign
    <2>3. Clash'
      BY <2>1, <2>2, <1>f DEF Clash, Line
    <2>4. Line'
      BY <2>1 DEF Line
    <2>5. Buf'
      BY <2>1, <2>2, <1>f, <1>t, <1>o DEF Buf, Clash, Line
    <2>6. Busy'
      BY <2>1, <1>b
    <2> QED
      BY <2>3, <2>4, <2>5, <2>6
  <1>11. CASE console_flag \/ input_flag
    <2>1. UNCHANGED <<buffer, clash, chunk, pc, retired>> /\ console' \in {console, [pc |-> "idle", text |-> Empty]}
      BY <1>11 DEF console_flag, input_flag, frame, hist
    <2>2. (Clash /\ Line /\ Buf)'
      BY <2>1, <1>f DEF Clash, Line, Buf
    <2> QED
      BY <2>1, <2>2, <1>b
  <1>12. CASE input_assign
    <2>1. /\ UNCHANGED <<pc, retired, console>> /\ begin_assign("input")
          /\ chunk' \in {chunk, [chunk EXCEPT ![depth] = Torn]}
      BY <1>12 DEF input_assign, Disturb
    <2>2. \A l \in Frames : chunk'[l] \in {chunk[l], Torn}
      BY <2>1, <1>t
    <2>3. InClash /\ buffer' = Torn
      BY <2>1, <1>i, <1>o DEF begin_assign
    <2>4. Clash'
      BY <2>1, <2>2, <2>3, <1>f, <1>o DEF Clash, InClash
    <2>5. Line'
      BY <2>1, <2>2, <2>3, <1>f, <1>o DEF Line, InClash
    <2>6. Buf'
      BY <2>1, <2>3, <1>t, <1>o DEF Buf
    <2>7. Busy'
      BY <2>1, <2>2, <1>f, <1>t, <1>o DEF Busy
    <2> QED
      BY <2>4, <2>5, <2>6, <2>7
  <1>13. CASE input_assigned
    <2>1. UNCHANGED <<chunk, pc, retired, console>>
      BY <1>13 DEF input_assigned, frame, hist
    <2>2. InClash
      BY <1>13, <1>i, <1>o DEF input_assigned
    <2> QED
      BY <2>1, <2>2, <1>u, <1>b
  <1> QED
    BY <1>1, <1>2, <1>3, <1>4, <1>5, <1>6, <1>7, <1>8, <1>9, <1>10, <1>11, <1>12,
       <1>13
    DEF Next, lua_pcall_hook, hook_body, hack_main, get_device_data_hook

LEMMA IInvStep == IInv /\ [Next]_vars => IInv'
  BY TypeStep, ShapeStep, RacesStep, KnownStep, FreshStep DEF IInv

LEMMA IInvAlways == Spec => []IInv
  BY IInvInit, IInvStep, PTL DEF Spec

-----------------------------------------------------------------------------
(* The slot implements CommandLife *)

life == [c \in Commands |-> Stage(c)]

\* The stage of a line when nothing that is dealt with can be parsed again.
Progress(c) == IF c \in retired THEN "retired"
               ELSE IF Held(c) THEN "taken" ELSE IF c \in typed THEN "sent" ELSE "unsent"

NoComeback == \A c \in Commands : Stage(c) = Progress(c)

LEMMA RetiredForGood == IInv => NoComeback
  <1> SUFFICES ASSUME IInv, NEW c \in Commands PROVE Stage(c) = Progress(c)
    BY DEF NoComeback
  <1>1. c \in retired => ~Pending(c)
    BY DEF IInv, Fresh, Pending
  <1> QED
    BY <1>1 DEF Stage, Progress

\* Only the parser takes a line and only the clear retires it.
LEMMA StageSame ==
    ASSUME NEW c, UNCHANGED <<typed, retired>>,
           \A l \in Frames : pc[l] \in {"run", "clear", "clearing"} =>
                             pc'[l] \in {"run", "clear", "clearing"} /\ chunk'[l] = chunk[l],
           \A l \in Frames : pc'[l] \in {"run", "clear", "clearing"} =>
                             pc[l] \in {"run", "clear", "clearing"} /\ chunk'[l] = chunk[l]
    PROVE  Progress(c)' = Progress(c)
  <1>1. Held(c)' <=> Held(c)
    BY DEF Held
  <1> QED
    BY <1>1 DEF Progress

LEMMA LifeInit == Init => Life!Init
  <1> SUFFICES ASSUME Init, NEW c \in Commands PROVE Stage(c) = "unsent"
    BY DEF Life!Init
  <1>1. ~Held(c)
    BY DEF Init, Held
  <1> QED
    BY <1>1 DEF Init, Stage

\* A step that changes the stage of one line, and that to the next one.
LEMMA OneAdvance ==
    ASSUME NEW c \in Commands,
           \A d \in Commands \ {c} : Stage(d)' = Stage(d),
           \/ Stage(c)' = Stage(c)
           \/ Stage(c) = "unsent" /\ Stage(c)' = "sent"
           \/ Stage(c) = "sent" /\ Stage(c)' = "taken"
           \/ Stage(c) = "taken" /\ Stage(c)' = "retired"
    PROVE  [Life!Next]_life
  <1>1. life' = [life EXCEPT ![c] = Stage(c)']
    BY DEF life
  <1>2. CASE Stage(c)' = Stage(c)
    BY <1>2 DEF life
  <1>3. CASE Stage(c) = "unsent" /\ Stage(c)' = "sent"
    BY <1>1, <1>3 DEF Life!Next, Life!Send, Life!Advance, life
  <1>4. CASE Stage(c) = "sent" /\ Stage(c)' = "taken"
    BY <1>1, <1>4 DEF Life!Next, Life!Take, Life!Advance, life
  <1>5. CASE Stage(c) = "taken" /\ Stage(c)' = "retired"
    BY <1>1, <1>5 DEF Life!Next, Life!Retire, Life!Advance, life
  <1> QED
    BY <1>2, <1>3, <1>4, <1>5

LEMMA LifeStep == IInv /\ NoComeback /\ NoComeback' /\ [Next]_vars => [Life!Next]_life
  <1> SUFFICES ASSUME IInv, NoComeback, NoComeback', [Next]_vars PROVE [Life!Next]_life
    OBVIOUS
  <1>p. \A c \in Commands : Stage(c) = Progress(c) /\ Stage(c)' = Progress(c)'
    BY DEF NoComeback
  <1> DEFINE Taken == {"run", "clear", "clearing"}
             Same  == /\ UNCHANGED <<typed, retired>>
                      /\ \A l \in Frames : pc[l] \in Taken => pc'[l] \in Taken /\ chunk'[l] = chunk[l]
                      /\ \A l \in Frames : pc'[l] \in Taken => pc[l] \in Taken /\ chunk'[l] = chunk[l]
  <1>t. /\ depth \in 0..MaxDepth /\ Frames = 1..MaxDepth /\ MaxDepth \in Nat
        /\ DOMAIN pc = Frames /\ DOMAIN chunk = Frames
    BY DepthAssumption DEF IInv, TypeOK, Frames
  <1>o. Empty \notin Commands /\ Torn \notin Commands
    BY OwnTexts
  <1>s. \A l \in Frames :
            /\ l > depth => pc[l] = "off"
            /\ l < depth => pc[l] \in {"orig", "run"}
            /\ chunk[l] # Empty => pc[l] \in {"parse", "run", "clear", "clearing"}
            /\ chunk[l] \in retired => pc[l] \in Taken
    BY DEF IInv, Shape, Fresh
  <1>a. ASSUME Same PROVE [Life!Next]_life
    <2>1. \A c \in Commands : Progress(c)' = Progress(c)
      BY <1>a, StageSame
    <2> QED
      BY <2>1, <1>p DEF life
  <1>d. Disturb => /\ UNCHANGED <<pc, depth>>
                   /\ \A l \in Frames : pc[l] \in Taken => chunk'[l] = chunk[l]
    BY <1>t DEF Disturb, Top
  <1> HIDE DEF Taken
  <1> USE DEF goto, Top
  <1>1. CASE game_step \/ console_assigned \/ console_flag \/ input_press
               \/ input_assigned \/ input_flag \/ UNCHANGED vars
    BY <1>1, <1>a DEF game_step, console_assigned, console_flag, input_press,
       input_assigned, input_flag, vars, frame, hist
  <1>2. CASE pcall_enter \/ pcall_return \/ override_print \/ override_config_menu
               \/ lua_game_running_hook_bootstrap
    BY <1>2, <1>a, <1>t, <1>s DEF pcall_enter, pcall_return, override_print,
       override_config_menu, lua_game_running_hook_bootstrap, post_own, hist, Taken
  <1>3. CASE own_assigned \/ own_flag \/ execute_lua_test \/ execute_lua_load \/ hook_return
    BY <1>3, <1>a, <1>t DEF own_assigned, own_flag, execute_lua_test, execute_lua_return,
       execute_lua_load, hook_return, hist, Taken
  <1>4. CASE execute_lua_ran \/ execute_lua_clear
    BY <1>4, <1>a, <1>t DEF execute_lua_ran, execute_lua_clear, hist, Taken
  <1>5. CASE input_assign
    BY <1>5, <1>a, <1>d DEF input_assign
  <1>6. CASE console_getline
    <2>1. PICK c \in Commands \ typed : typed' = typed \cup {c}
      BY <1>6 DEF console_getline
    <2>2. /\ UNCHANGED <<pc, retired>>
          /\ \A l \in Frames : pc[l] \in Taken => chunk'[l] = chunk[l]
      BY <1>6, <1>d DEF console_getline
    <2>3. \A d \in Commands : Held(d)' <=> Held(d)
      BY <2>2 DEF Held, Taken
    <2>4. ~Held(c) /\ c \notin retired
      BY DEF IInv, Known, Held
    <2>5. Progress(c) = "unsent" /\ Progress(c)' = "sent"
      BY <2>1, <2>2, <2>3, <2>4 DEF Progress
    <2>6. \A d \in Commands \ {c} : Progress(d)' = Progress(d)
      BY <2>1, <2>2, <2>3 DEF Progress
    <2> QED
      BY <2>1, <2>5, <2>6, <1>p, OneAdvance
  <1>7. CASE execute_lua_parsed
    <2>1. /\ UNCHANGED <<chunk, typed, retired>> /\ depth \in Frames /\ pc[depth] = "parse"
          /\ pc' \in {[pc EXCEPT ![depth] = "run"], [pc EXCEPT ![depth] = "clear"]}
      BY <1>7, <1>t DEF execute_lua_parsed, slot, hist
    <2>2. \A d \in Commands : Held(d)' <=> Held(d) \/ d = chunk[depth]
      BY <2>1, <1>t DEF Held
    <2>3. CASE chunk[depth] \notin Commands
      BY <2>1, <2>2, <2>3, <1>p DEF Progress, life
    <2>4. CASE chunk[depth] \in Commands
      <3>1. PICK c \in Commands : c = chunk[depth]
        BY <2>4
      <3>2. c \in typed \ retired
        BY <2>1, <3>1, <1>s DEF IInv, Known, Taken
      <3>3. \A d \in Commands \ {c} : Progress(d)' = Progress(d)
        BY <2>1, <2>2, <3>1 DEF Progress
      <3>4. Progress(c) \in {"taken", "sent"}
        BY <3>2 DEF Progress
      <3>5. Progress(c)' \in {"taken", "sent"} /\ (Progress(c) = "taken" => Progress(c)' = "taken")
        BY <2>1, <2>2, <3>2 DEF Progress
      <3> QED
        BY <3>3, <3>4, <3>5, <1>p, OneAdvance
    <2> QED
      BY <2>3, <2>4
  <1>8. CASE execute_lua_cleared
    <2>1. /\ retired' = retired \cup ({chunk[depth]} \cap Commands)
          /\ chunk' = [chunk EXCEPT ![depth] = Empty]
          /\ UNCHANGED typed /\ depth \in Frames /\ pc[depth] = "clearing"
          /\ \A l \in Frames \ {depth} : pc'[l] = pc[l]
          /\ pc'[depth] \in {"boot", "test", "return"}
      BY <1>8, <1>t DEF execute_lua_cleared, execute_lua_return
    <2> DEFINE c == chunk[depth]
    <2>2. \A d \in Commands \ {c} : Held(d)' <=> Held(d)
      BY <2>1, <1>t, <1>o DEF Held
    <2>3. \A d \in Commands \ {c} : Progress(d)' = Progress(d)
      BY <2>1, <2>2 DEF Progress
    <2>4. CASE c \notin Commands
      BY <2>3, <2>4, <1>p DEF life
    <2>5. CASE c \in Commands
      <3>1. PICK e \in Commands : e = c
        BY <2>5
      <3>2. Held(e)
        BY <2>1, <3>1 DEF Held
      <3>3. Progress(e) \in {"taken", "retired"} /\ Progress(e)' = "retired"
        BY <2>1, <3>1, <3>2 DEF Progress
      <3> QED
        BY <2>3, <3>1, <3>3, <1>p, OneAdvance
    <2> QED
      BY <2>4, <2>5
  <1> QED
    BY <1>1, <1>2, <1>3, <1>4, <1>5, <1>6, <1>7, <1>8
    DEF Next, lua_pcall_hook, hook_body, hack_main, get_device_data_hook

\* A line is executed only after it was typed and never comes back once the
\* hook is done with it, whatever the lines, the depth of the nesting and the
\* chunks that nest.
THEOREM NeverReplay == Spec => LinesNeverReplay
  <1>1. Init => Life!Init
    BY LifeInit
  <1>2. IInv => NoComeback
    BY RetiredForGood
  <1>3. IInv /\ NoComeback /\ NoComeback' /\ [Next]_vars => [Life!Next]_life
    BY LifeStep
  <1>4. Spec => Life!Init /\ [][Life!Next]_life
    BY <1>1, <1>2, <1>3, IInvAlways, PTL DEF Spec
  <1> QED
    BY <1>4, PTL DEF LinesNeverReplay, Life!Spec, life

-----------------------------------------------------------------------------
(* load.lua never starts again once its success is recorded *)

\* After the success record no copy of load.lua is left to parse, and no
\* activation is about to post one.
LoadDone ==
    game_running_hook_complete =>
        /\ LoadChunk \notin clash \cup {buffer}
        /\ ~(Top("assign") /\ site[depth] # "config")
        /\ \A l \in Frames : chunk[l] = LoadChunk => pc[l] \in {"run", "clear", "clearing"}

LEMMA LoadDoneInit == Init => LoadDone
  BY DEF Init, LoadDone

LEMMA LoadDoneStep == TypeOK /\ Shape /\ LoadDone /\ [Next]_vars => LoadDone'
  <1> SUFFICES ASSUME TypeOK, Shape, LoadDone, [Next]_vars, game_running_hook_complete'
               PROVE  /\ LoadChunk \notin clash' \cup {buffer'}
                      /\ ~(Top("assign") /\ site[depth] # "config")'
                      /\ \A l \in Frames : chunk'[l] = LoadChunk =>
                                           pc'[l] \in {"run", "clear", "clearing"}
    BY DEF LoadDone
  <1> DEFINE Slot   == LoadChunk \notin clash \cup {buffer}
             Quietly == ~(Top("assign") /\ site[depth] # "config")
             Busy   == \A l \in Frames : chunk[l] = LoadChunk => pc[l] \in {"run", "clear", "clearing"}
  <1>t. /\ depth \in 0..MaxDepth /\ Frames = 1..MaxDepth /\ MaxDepth \in Nat
        /\ DOMAIN pc = Frames /\ DOMAIN chunk = Frames /\ DOMAIN site = Frames
    BY DepthAssumption DEF TypeOK, Frames
  <1>s. \A l \in Frames :
            /\ l > depth => pc[l] = "off"
            /\ l < depth => pc[l] \in {"orig", "run"}
            /\ chunk[l] # Empty => pc[l] \in {"parse", "run", "clear", "clearing"}
    BY DEF Shape
  <1>o. /\ LoadChunk \notin {Empty, Torn, FlagChunk, ToggleChunk}
        /\ \A c \in Commands \cup {Empty} : c # LoadChunk
    BY OwnTexts DEF Empty, Torn, FlagChunk, ToggleChunk, LoadChunk
  <1>f. game_running_hook_complete => Slot /\ Quietly /\ Busy
    BY DEF LoadDone
  <1>b. \A t : Slot /\ begin_assign(t) => Slot'
    BY <1>o DEF begin_assign
  <1>e. \A t, text : Slot /\ text # LoadChunk /\ end_assign(t, text) => Slot'
    BY <1>o DEF end_assign
  <1>k. UNCHANGED <<buffer, clash>> /\ Slot => Slot'
    OBVIOUS
  <1>q. Disturb /\ Quietly /\ Busy => Quietly' /\ Busy'
    <2> SUFFICES ASSUME Disturb, Quietly, Busy PROVE Quietly' /\ Busy'
      OBVIOUS
    <2>1. chunk' \in {chunk, [chunk EXCEPT ![depth] = Torn]} /\ UNCHANGED <<pc, site, depth>>
      BY DEF Disturb
    <2>2. \A l \in Frames : chunk'[l] \in {chunk[l], Torn}
      BY <2>1, <1>t
    <2> QED
      BY <2>1, <2>2, <1>o DEF Top
  \* A step that neither touches the slot nor lets go of a running chunk.
  <1>g. ASSUME game_running_hook_complete, UNCHANGED <<buffer, clash, chunk>>,
               \A l \in Frames : pc[l] \in {"run", "clear", "clearing"} =>
                                 pc'[l] \in {"run", "clear", "clearing"},
               depth' > 0 => pc'[depth'] # "assign"
        PROVE  Slot' /\ Quietly' /\ Busy'
    <2>1. Slot'
      BY <1>g, <1>f
    <2>2. Quietly'
      BY <1>g DEF Top
    <2>3. Busy'
      BY <1>g, <1>f
    <2> QED
      BY <2>1, <2>2, <2>3
  <1> HIDE DEF Slot
  <1> SUFFICES Slot' /\ Quietly' /\ Busy'
    BY DEF Slot
  <1> USE DEF goto, Top
  <1>1. CASE game_step \/ console_flag \/ input_press \/ input_flag \/ UNCHANGED vars
    BY <1>1, <1>f, <1>k DEF game_step, console_flag, input_press, input_flag, vars,
       slot, flags, frame
  <1>2. CASE pcall_enter
    BY <1>2, <1>f, <1>k, <1>t, <1>s, <1>o DEF pcall_enter, slot
  <1>3. CASE pcall_return \/ override_print \/ own_flag \/ hook_return
    <2>1. game_running_hook_complete /\ UNCHANGED <<buffer, clash, chunk>>
      BY <1>3 DEF pcall_return, override_print, own_flag, hook_return, slot, flags
    <2>2. \A l \in Frames : pc[l] \in {"run", "clear", "clearing"} =>
                            pc'[l] \in {"run", "clear", "clearing"}
      BY <1>3, <1>t DEF pcall_return, override_print, own_flag, hook_return
    <2>3. depth' > 0 => pc'[depth'] # "assign"
      <3>1. CASE hook_return
        BY <3>1, <1>t, <1>s DEF hook_return
      <3>2. CASE pcall_return \/ override_print \/ own_flag
        <4>1. depth' = depth /\ depth > 0
          BY <3>2 DEF pcall_return, override_print, own_flag
        <4>2. pc'[depth] # "assign"
          <5>1. depth \in Frames
            BY <4>1, <1>t
          <5> QED
            BY <3>2, <1>t, <5>1 DEF pcall_return, override_print, own_flag
        <4> QED
          BY <4>1, <4>2
      <3> QED
        BY <3>1, <3>2, <1>3
    <2> QED
      BY <2>1, <2>2, <2>3, <1>g
  <1>4. CASE override_config_menu
    BY <1>4, <1>f, <1>k, <1>b, <1>t DEF override_config_menu, post_own, flags
  <1>5. CASE lua_game_running_hook_bootstrap
    BY <1>5, <1>f, <1>k, <1>t DEF lua_game_running_hook_bootstrap, flags
  <1>6. CASE own_assigned
    <2>1. game_running_hook_complete /\ end_assign("lua", FlagChunk)
      BY <1>6, <1>f DEF own_assigned, flags
    <2> QED
      BY <1>6, <2>1, <1>f, <1>e, <1>t, <1>o DEF own_assigned
  <1>7. CASE execute_lua_test
    <2>1. game_running_hook_complete /\ UNCHANGED <<buffer, clash, chunk>>
      BY <1>7 DEF execute_lua_test, execute_lua_return, flags
    <2>2. \A l \in Frames : pc[l] \in {"run", "clear", "clearing"} =>
                            pc'[l] \in {"run", "clear", "clearing"}
      BY <1>7, <1>t DEF execute_lua_test, execute_lua_return
    <2>3. depth' > 0 => pc'[depth'] # "assign"
      <3>1. depth' = depth /\ depth \in Frames
        BY <1>7, <1>t DEF execute_lua_test
      <3>2. pc'[depth] # "assign"
        BY <1>7, <1>t, <3>1 DEF execute_lua_test, execute_lua_return
      <3> QED
        BY <3>1, <3>2
    <2> QED
      BY <2>1, <2>2, <2>3, <1>g
  <1>8. CASE execute_lua_load
    BY <1>8, <1>f, <1>k, <1>t DEF execute_lua_load, slot, flags, Slot
  <1>9. CASE execute_lua_parsed \/ execute_lua_ran
    <2>1. game_running_hook_complete /\ UNCHANGED <<buffer, clash, chunk>>
      BY <1>9 DEF execute_lua_parsed, execute_lua_ran, slot, flags
    <2>2. \A l \in Frames : pc[l] \in {"run", "clear", "clearing"} =>
                            pc'[l] \in {"run", "clear", "clearing"}
      BY <1>9, <1>t DEF execute_lua_parsed, execute_lua_ran
    <2>3. depth' > 0 => pc'[depth'] # "assign"
      BY <1>9, <1>t DEF execute_lua_parsed, execute_lua_ran
    <2> QED
      BY <2>1, <2>2, <2>3, <1>g
  <1>10. CASE execute_lua_clear
    BY <1>10, <1>f, <1>b, <1>t DEF execute_lua_clear, flags
  <1>11. CASE execute_lua_cleared
    <2>1. /\ chunk' = [chunk EXCEPT ![depth] = Empty] /\ depth \in Frames
          /\ \A l \in Frames \ {depth} : pc'[l] = pc[l]
          /\ pc'[depth'] # "assign"
      BY <1>11, <1>t DEF execute_lua_cleared, execute_lua_return
    <2>2. LoadChunk \notin (clash \ Texts("lua")) \cup {Empty}
      BY <1>o DEF Texts
    <2>3. Slot'
      BY <1>11, <2>2, <1>o DEF execute_lua_cleared, end_assign, Slot
    <2>4. Busy'
      <3> SUFFICES ASSUME NEW l \in Frames, chunk'[l] = LoadChunk
                   PROVE  pc'[l] \in {"run", "clear", "clearing"}
        OBVIOUS
      <3>1. l # depth /\ chunk[l] = LoadChunk /\ pc'[l] = pc[l]
        BY <2>1, <1>t, <1>o
      <3> QED
        BY <3>1, <1>s, <1>t, <1>o
    <2> QED
      BY <2>1, <2>3, <2>4
  <1>12. CASE console_getline
    BY <1>12, <1>f, <1>b, <1>q DEF console_getline, flags
  <1>13. CASE console_assigned
    <2>1. console.text # LoadChunk
      BY <1>o DEF TypeOK
    <2> QED
      BY <1>13, <2>1, <1>f, <1>e DEF console_assigned, flags, frame
  <1>14. CASE input_assign
    BY <1>14, <1>f, <1>b, <1>q DEF input_assign, flags
  <1>15. CASE input_assigned
    BY <1>15, <1>f, <1>e, <1>o DEF input_assigned, flags, frame
  <1> QED
    BY <1>1, <1>2, <1>3, <1>4, <1>5, <1>6, <1>7, <1>8, <1>9, <1>10, <1>11, <1>12,
       <1>13, <1>14, <1>15
    DEF Next, lua_pcall_hook, hook_body, hack_main, get_device_data_hook

\* The bootstrap's patches are never applied again after they were recorded as
\* applied, at any depth of nesting and whatever the console types.
THEOREM LoadsOnlyUntilComplete == Spec => LoadNeverRestarts
  <1>1. LoadDone => (game_running_hook_complete => ~LoadStarts)
    BY DEF LoadDone, LoadStarts
  <1>2. Spec => []LoadDone
    BY LoadDoneInit, LoadDoneStep, IInvAlways, PTL DEF Spec, IInv
  <1> QED
    BY <1>1, <1>2, PTL DEF LoadNeverRestarts

-----------------------------------------------------------------------------
(* print is redirected before any chunk runs *)

PrintDone == \A l \in Frames : pc[l] \notin {"off", "orig", "print"} => print_overridden

LEMMA PrintDoneStep == TypeOK /\ PrintDone /\ [Next]_vars => PrintDone'
  <1> SUFFICES ASSUME TypeOK, PrintDone, [Next]_vars, NEW l \in Frames
               PROVE  pc'[l] \notin {"off", "orig", "print"} => print_overridden'
    BY DEF PrintDone
  <1>t. DOMAIN pc = Frames /\ print_overridden \in BOOLEAN
    BY DEF TypeOK
  <1>f. /\ pc[l] \notin {"off", "orig", "print"} => print_overridden
        /\ pc[depth] \notin {"off", "orig", "print"} /\ depth \in Frames => print_overridden
    BY DEF PrintDone
  <1>d. depth > 0 => depth \in Frames
    BY DEF TypeOK, Frames
  <1> USE <1>t, <1>f, <1>d DEF goto, Top, flags
  <1>1. CASE UNCHANGED <<pc, print_overridden>>
    BY <1>1
  <1>2. CASE pcall_enter \/ pcall_return \/ override_print
    BY <1>2 DEF pcall_enter, pcall_return, override_print
  <1>3. CASE override_config_menu \/ lua_game_running_hook_bootstrap
    BY <1>3 DEF override_config_menu, lua_game_running_hook_bootstrap, post_own
  <1>4. CASE own_assigned \/ own_flag \/ execute_lua_test
    BY <1>4 DEF own_assigned, own_flag, execute_lua_test, execute_lua_return
  <1>5. CASE execute_lua_load \/ execute_lua_parsed \/ execute_lua_ran
    BY <1>5 DEF execute_lua_load, execute_lua_parsed, execute_lua_ran
  <1>6. CASE execute_lua_clear \/ execute_lua_cleared \/ hook_return
    BY <1>6 DEF execute_lua_clear, execute_lua_cleared, execute_lua_return, hook_return
  <1>7. game_step \/ hack_main \/ get_device_data_hook \/ UNCHANGED vars
          => UNCHANGED <<pc, print_overridden>>
    BY DEF game_step, hack_main, console_getline, console_assigned, console_flag,
       get_device_data_hook, input_press, input_assign, input_assigned, input_flag,
       Disturb, vars, frame
  <1> QED
    BY <1>1, <1>2, <1>3, <1>4, <1>5, <1>6, <1>7 DEF Next, lua_pcall_hook, hook_body

\* The output of every chunk the DLL runs goes to the log.
THEOREM PrintsAreLogged == Spec => []PrintFirst
  <1>1. Init => PrintDone
    BY DEF Init, PrintDone
  <1>2. PrintDone => PrintFirst
    BY DEF PrintDone, PrintFirst
  <1> QED
    BY <1>1, <1>2, PrintDoneStep, TypeCorrect, PTL DEF Spec

-----------------------------------------------------------------------------
(* The records of the DLL are honest                                       *)

\* What the hook posts at a site of its own.
Posted(s) == IF s = "config" THEN FlagChunk ELSE LoadChunk

\* As long as no other thread got between the post and the parse, a frame at
\* a site of the DLL finds there what it posted, all the way to the result.
Guarded(l) ==
    /\ pc[l] = "assign" => writers = {"lua"} /\ clash = {}
    /\ pc[l] \in {"flag", "test", "load"} => writers = {} /\ buffer = Posted(site[l])
    /\ pc[l] \in {"parse", "run"} => chunk[l] = Posted(site[l])
    /\ pc[l] \in {"clear", "clearing"} /\ ok[l] => Posted(site[l]) \in completed

Untouched ==
    \A l \in Frames : site[l] # "dll" /\ site[l] \notin intruded => Guarded(l)

PressWrites == input = "assign" => "input" \in writers

LEMMA PressWritesStep == PressWrites /\ [Next]_vars => PressWrites'
  <1> SUFFICES ASSUME PressWrites, [Next]_vars, input' = "assign"
               PROVE  "input" \in writers'
    BY DEF PressWrites
  <1>a. \A t : begin_assign(t) => writers' = writers \cup {t}
    BY DEF begin_assign
  <1>b. \A t, text : end_assign(t, text) => writers' = writers \ {t}
    BY DEF end_assign
  <1>1. input_assign \/ input = "assign"
    <2>1. input_press \/ input_assigned \/ input_flag => input' # "assign"
      BY DEF input_press, input_assigned, input_flag
    <2>2. game_step \/ lua_pcall_hook \/ hack_main \/ UNCHANGED vars => UNCHANGED input
      BY DEF game_step, lua_pcall_hook, pcall_enter, pcall_return, hook_body, override_print,
         override_config_menu, lua_game_running_hook_bootstrap, own_assigned, own_flag,
         execute_lua_test, execute_lua_load, execute_lua_parsed, execute_lua_ran,
         execute_lua_clear, execute_lua_cleared, hook_return, hack_main, console_getline,
         console_assigned, console_flag, vars
    <2> QED
      BY <2>1, <2>2 DEF Next, get_device_data_hook
  <1>2. CASE input_assign
    BY <1>2, <1>a DEF input_assign
  <1>3. CASE input = "assign" /\ ~input_assign
    <2>1. "input" \in writers
      BY <1>3 DEF PressWrites
    <2>2. override_config_menu \/ lua_game_running_hook_bootstrap \/ execute_lua_clear
            \/ console_getline => writers \subseteq writers'
      BY <1>a DEF override_config_menu, lua_game_running_hook_bootstrap, post_own,
         execute_lua_clear, console_getline
    <2>3. own_assigned \/ execute_lua_cleared => writers \ {"lua"} \subseteq writers'
      BY <1>b DEF own_assigned, execute_lua_cleared
    <2>4. console_assigned => writers \ {"console"} \subseteq writers'
      BY <1>b DEF console_assigned
    <2>5. game_step \/ pcall_enter \/ pcall_return \/ override_print \/ own_flag
            \/ execute_lua_test \/ execute_lua_load \/ execute_lua_parsed
            \/ execute_lua_ran \/ hook_return \/ console_flag \/ UNCHANGED vars
            => UNCHANGED writers
      BY DEF game_step, pcall_enter, pcall_return, override_print, own_flag,
         execute_lua_test, execute_lua_load, execute_lua_parsed, execute_lua_ran,
         hook_return, console_flag, vars, slot
    <2>6. ~(input_press \/ input_assigned \/ input_flag)
      BY <1>3 DEF input_press, input_assigned, input_flag
    <2> QED
      BY <1>3, <2>1, <2>2, <2>3, <2>4, <2>5, <2>6
      DEF Next, lua_pcall_hook, hook_body, hack_main, get_device_data_hook
  <1> QED
    BY <1>1, <1>2, <1>3

LEMMA UntouchedStep ==
    TypeOK /\ Shape /\ Races /\ PressWrites /\ Untouched /\ [Next]_vars => Untouched'
  <1> SUFFICES ASSUME TypeOK, Shape, Races, PressWrites, Untouched, [Next]_vars,
                      NEW l \in Frames, site'[l] # "dll", site'[l] \notin intruded'
               PROVE  Guarded(l)'
    BY DEF Untouched
  <1>t. /\ depth \in 0..MaxDepth /\ Frames = 1..MaxDepth /\ MaxDepth \in Nat
        /\ DOMAIN pc = Frames /\ DOMAIN chunk = Frames /\ DOMAIN site = Frames /\ DOMAIN ok = Frames
        /\ site[l] \in {"config", "boot", "dll"}
    BY DepthAssumption DEF TypeOK, Frames, Sites
  <1>s. /\ l > depth => pc[l] = "off"
        /\ l < depth => pc[l] \in {"orig", "run"}
    BY DEF Shape
  <1>r. /\ console.pc = "assign" => "console" \in writers
        /\ input = "assign" => "input" \in writers
        /\ writers = {} => clash = {}
    BY DEF Races, PressWrites
  <1>o. FlagChunk # Torn /\ LoadChunk # Torn
    BY DEF FlagChunk, LoadChunk, Torn
  <1>p. \A s : Posted(s) \in {FlagChunk, LoadChunk} /\ Posted(s) \notin Commands
    BY OwnTexts DEF Posted
  <1>u. site[l] # "dll" /\ site[l] \notin intruded => Guarded(l)
    BY DEF Untouched
  \* The frame itself stands still, and so do the buffer and the writers if it
  \* depends on them.
  <1>k. ASSUME UNCHANGED <<site, pc, ok, completed>>, intruded \subseteq intruded',
               chunk'[l] = chunk[l] \/ pc[l] \notin {"parse", "run"},
               pc[l] \in {"assign", "flag", "test", "load"} => UNCHANGED <<buffer, writers, clash>>
        PROVE  Guarded(l)'
    BY <1>k, <1>u DEF Guarded
  \* A frame below or above the one that moves.
  <1>n. ASSUME pc'[l] = pc[l], site'[l] = site[l], chunk'[l] = chunk[l],
               intruded \subseteq intruded', pc[l] \in {"off", "orig", "run"}
        PROVE  Guarded(l)'
    BY <1>n, <1>u DEF Guarded
  \* What another thread writes while a post is unprotected is recorded.
  <1>d. ASSUME Disturb, UNCHANGED completed PROVE Guarded(l)'
    <2>1. /\ UNCHANGED <<depth, pc, site, ok>>
          /\ chunk' = chunk \/ (Top("parse") /\ chunk' = [chunk EXCEPT ![depth] = Torn])
          /\ intruded' = intruded \cup (IF InWindow THEN {site[depth]} ELSE {})
      BY <1>d DEF Disturb
    <2>2. l # depth \/ ~InWindow
      BY <2>1
    <2>3. pc[l] \in {"off", "orig", "run", "clear", "clearing", "print", "config", "boot", "return"}
      BY <2>1, <2>2, <1>t, <1>s DEF InWindow, TypeOK, HookPCs
    <2>4. chunk'[l] = chunk[l]
      BY <2>1, <2>3, <1>t DEF Top
    <2> QED
      BY <1>d, <2>1, <2>3, <2>4, <1>u DEF Guarded
  <1> USE DEF goto, Top
  <1>1. CASE game_step \/ console_flag \/ input_press \/ input_flag \/ UNCHANGED vars
    BY <1>1, <1>k DEF game_step, console_flag, input_press, input_flag, vars, slot, frame, hist
  <1>2. CASE console_getline \/ input_assign
    BY <1>2, <1>d DEF console_getline, input_assign
  <1>3. CASE console_assigned \/ input_assigned
    <2>1. writers # {} /\ writers # {"lua"}
      BY <1>3, <1>r DEF console_assigned, input_assigned
    <2>2. UNCHANGED <<site, pc, ok, chunk, completed, intruded>>
      BY <1>3 DEF console_assigned, input_assigned, frame, hist
    <2>3. pc[l] \notin {"assign", "flag", "test", "load"}
      BY <2>1, <2>2, <1>u DEF Guarded
    <2> QED
      BY <2>2, <2>3, <1>k
  <1>4. CASE pcall_enter
    <2>1. /\ UNCHANGED <<site, chunk, ok, slot, completed>> /\ intruded \subseteq intruded'
          /\ pc' = [pc EXCEPT ![depth + 1] = "orig"]
      BY <1>4 DEF pcall_enter
    <2> QED
      BY <2>1, <1>t, <1>u DEF Guarded, slot
  \* The steps of the hook move the frame on top; the others stand still.
  <1>5. ASSUME hook_body \/ pcall_return \/ execute_lua_ran, l # depth PROVE Guarded(l)'
    <2>1. pc[l] \in {"off", "orig", "run"}
      BY <1>5, <1>t, <1>s
    <2>2. pc'[l] = pc[l] /\ site'[l] = site[l] /\ chunk'[l] = chunk[l] /\ intruded \subseteq intruded'
      BY <1>5, <1>t DEF hook_body, override_print, override_config_menu,
         lua_game_running_hook_bootstrap, post_own, own_assigned, own_flag, execute_lua_test,
         execute_lua_return, execute_lua_load, execute_lua_parsed, execute_lua_clear,
         execute_lua_cleared, hook_return, pcall_return, execute_lua_ran, hist
    <2> QED
      BY <2>1, <2>2, <1>n
  <1>6. ASSUME l = depth, pcall_return \/ override_print \/ hook_return PROVE Guarded(l)'
    <2>1. pc'[l] \in {"print", "config", "off"}
      BY <1>6, <1>t DEF pcall_return, override_print, hook_return
    <2> QED
      BY <2>1 DEF Guarded
  <1>7. ASSUME l = depth, override_config_menu \/ lua_game_running_hook_bootstrap
        PROVE  Guarded(l)'
    <2>1. CASE \E s \in {"config", "boot"} : post_own(s)
      <3>1. PICK s \in {"config", "boot"} : post_own(s)
        BY <2>1
      <3>2. /\ pc'[l] = "assign" /\ site'[l] = s
            /\ writers' = writers \cup {"lua"} /\ clash' = (IF writers = {} THEN {} ELSE clash \cup {Torn})
            /\ writers = {}
        BY <1>7, <3>1, <1>t DEF post_own, begin_assign, override_config_menu,
           lua_game_running_hook_bootstrap
      <3> QED
        BY <3>2 DEF Guarded
    <2>2. CASE ~\E s \in {"config", "boot"} : post_own(s)
      <3>1. pc'[l] = "boot"
        BY <1>7, <2>2, <1>t DEF override_config_menu, lua_game_running_hook_bootstrap
      <3> QED
        BY <3>1 DEF Guarded
    <2> QED
      BY <2>1, <2>2
  <1>8. ASSUME l = depth, own_assigned PROVE Guarded(l)'
    <2>1. /\ pc[l] = "assign" /\ pc'[l] = "flag" /\ UNCHANGED <<site, intruded>>
          /\ end_assign("lua", Posted(site[l]))
      BY <1>8, <1>t DEF own_assigned, Posted, hist
    <2>2. writers = {"lua"} /\ clash = {}
      BY <2>1, <1>u DEF Guarded
    <2> QED
      BY <2>1, <2>2 DEF end_assign, Guarded
  <1>9. ASSUME l = depth, own_flag PROVE Guarded(l)'
    BY <1>9, <1>t, <1>u DEF own_flag, hist, Guarded
  <1>10. ASSUME l = depth, execute_lua_test PROVE Guarded(l)'
    BY <1>10, <1>t, <1>u DEF execute_lua_test, execute_lua_return, hist, Guarded
  <1>11. ASSUME l = depth, execute_lua_load PROVE Guarded(l)'
    BY <1>11, <1>t, <1>u DEF execute_lua_load, hist, Guarded
  <1>12. ASSUME l = depth, execute_lua_parsed PROVE Guarded(l)'
    BY <1>12, <1>t, <1>u DEF execute_lua_parsed, hist, Guarded
  <1>13. ASSUME l = depth, execute_lua_ran PROVE Guarded(l)'
    <2>1. /\ pc[l] = "run" /\ pc'[l] = "clear" /\ UNCHANGED <<site, intruded, chunk>>
          /\ ok'[l] /\ chunk[l] \in {FlagChunk, LoadChunk} => chunk[l] \in completed'
      BY <1>13, <1>t DEF execute_lua_ran
    <2> QED
      BY <2>1, <1>u, <1>p DEF Guarded
  <1>14. ASSUME l = depth, execute_lua_clear PROVE Guarded(l)'
    BY <1>14, <1>t, <1>u DEF execute_lua_clear, hist, Guarded
  <1>15. ASSUME l = depth, execute_lua_cleared PROVE Guarded(l)'
    BY <1>15, <1>t DEF execute_lua_cleared, execute_lua_return
  <1> QED
    BY <1>1, <1>2, <1>3, <1>4, <1>5, <1>6, <1>7, <1>8, <1>9, <1>10, <1>11, <1>12,
       <1>13, <1>14, <1>15
    DEF Next, lua_pcall_hook, hook_body, hack_main, get_device_data_hook

Honest == PressWrites /\ Untouched /\ HonestUnlessIntruded

LEMMA HonestStep == TypeOK /\ Shape /\ Races /\ Honest /\ [Next]_vars => Honest'
  <1> SUFFICES ASSUME TypeOK, Shape, Races, Honest, [Next]_vars PROVE HonestUnlessIntruded'
    BY PressWritesStep, UntouchedStep DEF Honest
  <1>t. /\ depth \in 0..MaxDepth /\ Frames = 1..MaxDepth /\ MaxDepth \in Nat
        /\ config_menu_enable \in BOOLEAN /\ game_running_hook_complete \in BOOLEAN
    BY DepthAssumption DEF TypeOK, Frames
  <1>1. completed \subseteq completed' /\ intruded \subseteq intruded'
    BY DEF Next, lua_pcall_hook, hook_body, hack_main, get_device_data_hook, game_step,
       pcall_enter, pcall_return, override_print, override_config_menu,
       lua_game_running_hook_bootstrap, post_own, own_assigned, own_flag, execute_lua_test,
       execute_lua_load, execute_lua_parsed, execute_lua_ran, execute_lua_clear,
       execute_lua_cleared, hook_return, console_getline, console_assigned, console_flag,
       input_press, input_assign, input_assigned, input_flag, Disturb, vars, hist
  <1>2. CASE UNCHANGED <<config_menu_enable, game_running_hook_complete>>
    BY <1>1, <1>2 DEF Honest, HonestUnlessIntruded
  <1>3. CASE execute_lua_test
    BY <1>1, <1>3, <1>t DEF execute_lua_test, execute_lua_return, flags, Honest, HonestUnlessIntruded
  <1>4. CASE execute_lua_cleared
    <2>1. /\ depth \in Frames /\ pc[depth] = "clearing" /\ UNCHANGED <<completed, intruded>>
          /\ config_menu_enable' = (config_menu_enable /\ ~(site[depth] = "config" /\ ok[depth]))
          /\ game_running_hook_complete' =
                (game_running_hook_complete \/ (site[depth] = "boot" /\ ok[depth]))
      BY <1>4, <1>t DEF execute_lua_cleared, execute_lua_return, Top
    <2>2. /\ site[depth] = "config" /\ ok[depth] /\ "config" \notin intruded => FlagChunk \in completed
          /\ site[depth] = "boot" /\ ok[depth] /\ "boot" \notin intruded => LoadChunk \in completed
      BY <2>1 DEF Honest, Untouched, Guarded, Posted
    <2> QED
      BY <2>1, <2>2 DEF Honest, HonestUnlessIntruded
  <1>5. game_step \/ pcall_enter \/ pcall_return \/ override_print \/ override_config_menu
          \/ lua_game_running_hook_bootstrap \/ own_assigned \/ own_flag \/ execute_lua_load
          \/ execute_lua_parsed \/ execute_lua_ran \/ execute_lua_clear \/ hook_return
          \/ hack_main \/ get_device_data_hook \/ UNCHANGED vars
          => UNCHANGED <<config_menu_enable, game_running_hook_complete>>
    BY DEF game_step, pcall_enter, pcall_return, override_print, override_config_menu,
       lua_game_running_hook_bootstrap, own_assigned, own_flag, execute_lua_load,
       execute_lua_parsed, execute_lua_ran, execute_lua_clear, hook_return, hack_main,
       console_getline, console_assigned, console_flag, get_device_data_hook, input_press,
       input_assign, input_assigned, input_flag, vars, flags
  <1> QED
    BY <1>2, <1>3, <1>4, <1>5 DEF Next, lua_pcall_hook, hook_body

\* What the DLL records as done was done, at any depth of nesting, unless
\* another thread wrote to the slot between the post and the parse.
THEOREM RecordsAreHonest == Spec => []HonestUnlessIntruded
  <1>1. Init => Honest
    BY DEF Init, Honest, PressWrites, Untouched, HonestUnlessIntruded
  <1>2. Honest => HonestUnlessIntruded
    BY DEF Honest
  <1> QED
    BY <1>1, <1>2, HonestStep, IInvAlways, PTL DEF Spec, IInv

-----------------------------------------------------------------------------
(* load.lua runs to its end once                                           *)

\* A frame posts only at a site of its own, and at the test of the bootstrap
\* the flag is up: only this thread takes it down.
Posting ==
    \A l \in Frames : /\ pc[l] = "assign" => site[l] # "dll"
                      /\ pc[l] = "test" /\ site[l] = "boot" => execute = TRUE

\* Where the activation is that may still take load.lua out of the slot.
LoadWindow ==
    /\ depth > 0 /\ site[depth] = "boot"
    /\ \/ pc[depth] \in {"flag", "test", "load", "clear", "clearing"}
       \/ pc[depth] \in {"parse", "run"} /\ chunk[depth] \in {LoadChunk, Torn}

\* load.lua has succeeded, and the bootstrap is about to record it.
Succeeded == /\ depth > 0 /\ pc[depth] \in {"clear", "clearing"}
             /\ site[depth] = "boot" /\ ok[depth]

\* One copy of load.lua, for the frame on top, until the success is recorded.
LoadAlone ==
    "load" \notin intruded =>
        /\ \A l \in Frames : chunk[l] = LoadChunk =>
               l = depth /\ site[l] = "boot" /\ ~game_running_hook_complete
        /\ LoadChunk \in clash \cup {buffer} => LoadWindow
        /\ loads = 0 \/ (loads = 1 /\ (game_running_hook_complete \/ Succeeded))

LEMMA PostingStep == TypeOK /\ Shape /\ Posting /\ [Next]_vars => Posting'
  <1> SUFFICES ASSUME TypeOK, Shape, Posting, [Next]_vars, NEW l \in Frames
               PROVE  /\ pc'[l] = "assign" => site'[l] # "dll"
                      /\ pc'[l] = "test" /\ site'[l] = "boot" => execute' = TRUE
    BY DEF Posting
  <1>t. /\ depth \in 0..MaxDepth /\ Frames = 1..MaxDepth /\ MaxDepth \in Nat
        /\ DOMAIN pc = Frames /\ DOMAIN site = Frames
        /\ l # depth => pc[l] \in {"off", "orig", "run"}
    BY DepthAssumption DEF TypeOK, Frames, Shape
  <1>f. /\ pc[l] = "assign" => site[l] # "dll"
        /\ pc[l] = "test" /\ site[l] = "boot" => execute = TRUE
    BY DEF Posting
  <1> USE DEF goto, Top
  <1>1. CASE UNCHANGED <<pc, site>> /\ (execute = TRUE => execute' = TRUE)
    BY <1>1, <1>f
  <1>2. game_step \/ hack_main \/ get_device_data_hook \/ UNCHANGED vars
          => UNCHANGED <<pc, site>> /\ (execute = TRUE => execute' = TRUE)
    BY DEF game_step, hack_main, console_getline, console_assigned, console_flag,
       get_device_data_hook, input_press, input_assign, input_assigned, input_flag,
       Disturb, vars, frame, slot
  <1>3. CASE pcall_enter \/ pcall_return \/ hook_return \/ override_print
    BY <1>3, <1>t, <1>f DEF pcall_enter, pcall_return, hook_return, override_print, slot
  <1>4. CASE override_config_menu \/ lua_game_running_hook_bootstrap
    BY <1>4, <1>t, <1>f DEF override_config_menu, lua_game_running_hook_bootstrap, post_own
  <1>5. CASE own_assigned \/ own_flag
    BY <1>5, <1>t, <1>f DEF own_assigned, own_flag
  <1>6. CASE execute_lua_test
    <2>1. pc'[depth] # "assign" /\ (pc'[depth] = "test" => site'[depth] = "dll")
      BY <1>6, <1>t DEF execute_lua_test, execute_lua_return
    <2>2. l # depth => pc'[l] = pc[l] /\ site'[l] = site[l]
      BY <1>6, <1>t DEF execute_lua_test, execute_lua_return
    <2> QED
      BY <2>1, <2>2, <1>t
  <1>7. CASE execute_lua_load \/ execute_lua_parsed \/ execute_lua_ran \/ execute_lua_clear
    BY <1>7, <1>t, <1>f DEF execute_lua_load, execute_lua_parsed, execute_lua_ran,
       execute_lua_clear, slot
  <1>8. CASE execute_lua_cleared
    BY <1>8, <1>t, <1>f DEF execute_lua_cleared, execute_lua_return
  <1> QED
    BY <1>1, <1>2, <1>3, <1>4, <1>5, <1>6, <1>7, <1>8 DEF Next, lua_pcall_hook, hook_body

LEMMA LoadAloneStep ==
    TypeOK /\ Shape /\ Races /\ LoadDone /\ Posting /\ LoadAlone /\ [Next]_vars => LoadAlone'
  <1> DEFINE Copies == \A l \in Frames : chunk[l] = LoadChunk =>
                           l = depth /\ site[l] = "boot" /\ ~game_running_hook_complete
             InSlot == LoadChunk \in clash \cup {buffer}
             Counted == loads = 0 \/ (loads = 1 /\ (game_running_hook_complete \/ Succeeded))
  <1> SUFFICES ASSUME TypeOK, Shape, Races, LoadDone, Posting, LoadAlone, [Next]_vars,
                      "load" \notin intruded'
               PROVE  Copies' /\ (InSlot' => LoadWindow') /\ Counted'
    BY DEF LoadAlone
  <1>t. /\ depth \in 0..MaxDepth /\ Frames = 1..MaxDepth /\ MaxDepth \in Nat
        /\ DOMAIN pc = Frames /\ DOMAIN chunk = Frames /\ DOMAIN site = Frames /\ DOMAIN ok = Frames
        /\ \A l \in Frames : site[l] \in {"config", "boot", "dll"} /\ ok[l] \in BOOLEAN
        /\ game_running_hook_complete \in BOOLEAN
    BY DepthAssumption DEF TypeOK, Frames, Sites
  <1>s. \A l \in Frames : chunk[l] # Empty => pc[l] \in {"parse", "run", "clear", "clearing"}
    BY DEF Shape
  <1>o. /\ LoadChunk \notin {Empty, Torn, FlagChunk, ToggleChunk}
        /\ \A c \in Commands \cup {Empty} : c # LoadChunk
    BY OwnTexts DEF Empty, Torn, FlagChunk, ToggleChunk, LoadChunk
  <1>i. intruded \subseteq intruded'
    BY DEF Next, lua_pcall_hook, hook_body, hack_main, get_device_data_hook, game_step,
       pcall_enter, pcall_return, override_print, override_config_menu,
       lua_game_running_hook_bootstrap, post_own, own_assigned, own_flag, execute_lua_test,
       execute_lua_load, execute_lua_parsed, execute_lua_ran, execute_lua_clear,
       execute_lua_cleared, hook_return, console_getline, console_assigned, console_flag,
       input_press, input_assign, input_assigned, input_flag, Disturb, vars, hist
  <1>a. Copies /\ (InSlot => LoadWindow) /\ Counted
    BY <1>i DEF LoadAlone
  <1>b. \A t : begin_assign(t) /\ InSlot' => InSlot
    BY <1>o DEF begin_assign
  <1>e. \A t, text : end_assign(t, text) /\ text # LoadChunk /\ InSlot' => InSlot
    BY <1>o DEF end_assign
  <1>k. UNCHANGED <<buffer, clash>> /\ InSlot' => InSlot
    OBVIOUS
  <1>d. Disturb => /\ UNCHANGED <<depth, pc, site, ok>>
                   /\ \A l \in Frames : chunk'[l] = chunk[l] \/ chunk'[l] = Torn
    BY <1>t DEF Disturb
  <1> HIDE DEF InSlot
  \* What other threads and the game do.
  <1>1. ASSUME UNCHANGED <<depth, pc, site, ok, game_running_hook_complete, loads>>,
               InSlot' => InSlot,
               \A l \in Frames : chunk'[l] = chunk[l] \/ chunk'[l] = Torn
        PROVE  Copies' /\ (InSlot' => LoadWindow') /\ Counted'
    BY <1>1, <1>a, <1>o, <1>t DEF LoadWindow, Succeeded
  \* A step of the frame on top that neither is in the window nor enters it.
  <1>2. ASSUME ~LoadWindow, ~Succeeded, InSlot' => InSlot, UNCHANGED <<chunk, loads>>,
               game_running_hook_complete' = game_running_hook_complete,
               depth > 0 => chunk[depth] # LoadChunk
        PROVE  Copies' /\ (InSlot' => LoadWindow') /\ Counted'
    BY <1>2, <1>a, <1>t
  <1> USE DEF goto, Top
  <1>3. CASE game_step \/ console_flag \/ input_press \/ input_flag \/ UNCHANGED vars
    BY <1>3, <1>1, <1>k DEF game_step, console_flag, input_press, input_flag, vars, slot,
       flags, frame, hist
  <1>4. CASE console_getline \/ input_assign
    BY <1>4, <1>1, <1>b, <1>d DEF console_getline, input_assign, flags
  <1>5. CASE console_assigned \/ input_assigned
    <2>1. console.text # LoadChunk
      BY <1>o DEF TypeOK
    <2> QED
      BY <1>5, <2>1, <1>1, <1>e, <1>o DEF console_assigned, input_assigned, flags, frame, hist
  <1>6. CASE pcall_enter
    <2>1. depth = 0 \/ pc[depth] = "orig" \/ (pc[depth] = "run" /\ chunk[depth] \notin {LoadChunk, Torn})
      BY <1>6 DEF pcall_enter
    <2>2. ~LoadWindow /\ ~Succeeded /\ (depth > 0 => chunk[depth] # LoadChunk)
      BY <2>1, <1>s, <1>t, <1>o DEF LoadWindow, Succeeded
    <2> QED
      BY <1>6, <2>2, <1>2, <1>k DEF pcall_enter, slot
  <1>7. CASE pcall_return \/ override_print \/ hook_return
    <2>1. depth > 0 /\ pc[depth] \in {"orig", "print", "return"}
      BY <1>7 DEF pcall_return, override_print, hook_return
    <2>2. ~LoadWindow /\ ~Succeeded /\ chunk[depth] # LoadChunk
      BY <2>1, <1>s, <1>t, <1>o DEF LoadWindow, Succeeded
    <2> QED
      BY <1>7, <2>2, <1>2, <1>k DEF pcall_return, override_print, hook_return, slot, flags, hist
  <1>8. CASE override_config_menu \/ lua_game_running_hook_bootstrap
    <2>1. depth > 0 /\ pc[depth] \in {"config", "boot"}
      BY <1>8 DEF override_config_menu, lua_game_running_hook_bootstrap
    <2>2. ~LoadWindow /\ ~Succeeded /\ chunk[depth] # LoadChunk
      BY <2>1, <1>s, <1>t, <1>o DEF LoadWindow, Succeeded
    <2>3. InSlot' => InSlot
      BY <1>8, <1>b, <1>k DEF override_config_menu, lua_game_running_hook_bootstrap, post_own
    <2> QED
      BY <1>8, <2>2, <2>3, <1>2
      DEF override_config_menu, lua_game_running_hook_bootstrap, post_own, flags, hist
  <1>9. CASE own_assigned
    <2>1. /\ depth > 0 /\ pc[depth] = "assign" /\ site[depth] \in {"config", "boot"}
          /\ pc'[depth] = "flag" /\ UNCHANGED <<depth, site, chunk, ok, flags, loads>>
      BY <1>9, <1>t DEF own_assigned, Posting, hist
    <2>2. ~LoadWindow /\ ~Succeeded /\ chunk[depth] # LoadChunk
      BY <2>1, <1>s, <1>t, <1>o DEF LoadWindow, Succeeded
    <2>3. CASE site[depth] = "boot"
      BY <2>1, <2>2, <2>3, <1>a, <1>t DEF LoadWindow, flags
    <2>4. CASE site[depth] = "config"
      BY <1>9, <2>1, <2>2, <2>4, <1>2, <1>e, <1>o DEF own_assigned, flags
    <2> QED
      BY <2>1, <2>3, <2>4
  <1>10. CASE own_flag
    <2>1. /\ depth > 0 /\ pc[depth] = "flag" /\ pc'[depth] = "test"
          /\ UNCHANGED <<depth, site, chunk, ok, flags, loads, buffer, clash>>
      BY <1>10, <1>t DEF own_flag, hist
    <2> QED
      BY <2>1, <1>a, <1>k, <1>t DEF LoadWindow, Succeeded, flags
  <1>11. CASE execute_lua_test
    <2>1. CASE execute
      BY <1>11, <2>1, <1>a, <1>k, <1>t DEF execute_lua_test, flags, hist, LoadWindow, Succeeded
    <2>2. CASE ~execute
      <3>1. /\ depth > 0 /\ pc[depth] = "test" /\ site[depth] # "boot"
            /\ game_running_hook_complete' = game_running_hook_complete
            /\ UNCHANGED <<buffer, clash, chunk, loads>>
        BY <1>11, <2>2, <1>t DEF execute_lua_test, execute_lua_return, Posting, hist
      <3>2. ~LoadWindow /\ ~Succeeded /\ chunk[depth] # LoadChunk
        BY <3>1, <1>s, <1>t, <1>o DEF LoadWindow, Succeeded
      <3> QED
        BY <3>1, <3>2, <1>2, <1>k
    <2> QED
      BY <2>1, <2>2
  <1>12. CASE execute_lua_load
    <2>1. /\ depth > 0 /\ pc[depth] = "load" /\ pc'[depth] = "parse"
          /\ chunk' = [chunk EXCEPT ![depth] = buffer]
          /\ UNCHANGED <<depth, site, ok, buffer, clash, flags, loads>>
      BY <1>12, <1>t DEF execute_lua_load, slot, hist
    <2>2. InSlot => LoadWindow /\ ~game_running_hook_complete /\ buffer \in {LoadChunk, Torn}
      BY <1>a DEF InSlot, LoadDone, Races
    <2>3. Copies'
      BY <2>1, <2>2, <1>a, <1>t DEF InSlot, LoadWindow, flags
    <2> QED
      BY <2>1, <2>2, <2>3, <1>a, <1>k, <1>t DEF LoadWindow, Succeeded, flags
  <1>13. CASE execute_lua_parsed
    <2>1. /\ depth > 0 /\ pc[depth] = "parse" /\ pc'[depth] \in {"run", "clear"}
          /\ UNCHANGED <<depth, site, chunk, buffer, clash, flags, loads>>
      BY <1>13, <1>t DEF execute_lua_parsed, slot, hist
    <2> QED
      BY <2>1, <1>a, <1>k, <1>t DEF LoadWindow, Succeeded, flags
  <1>14. CASE execute_lua_ran
    <2>1. /\ depth \in Frames /\ pc[depth] = "run" /\ pc'[depth] = "clear"
          /\ UNCHANGED <<depth, site, chunk, buffer, clash, flags>>
          /\ \/ loads' = loads
             \/ chunk[depth] = LoadChunk /\ ok'[depth] = TRUE /\ loads < 2 /\ loads' = loads + 1
      BY <1>14, <1>t DEF execute_lua_ran, slot
    <2>2. Counted'
      BY <2>1, <1>a, <1>t DEF Succeeded, flags
    <2> QED
      BY <2>1, <2>2, <1>a, <1>k, <1>t DEF LoadWindow, flags
  <1>15. CASE execute_lua_clear
    <2>1. /\ depth > 0 /\ pc[depth] = "clear" /\ pc'[depth] = "clearing"
          /\ UNCHANGED <<depth, site, chunk, ok, flags, loads>>
      BY <1>15, <1>t DEF execute_lua_clear, hist
    <2>2. InSlot' => InSlot
      BY <1>15, <1>b DEF execute_lua_clear
    <2> QED
      BY <2>1, <2>2, <1>a, <1>t DEF LoadWindow, Succeeded, flags
  <1>16. CASE execute_lua_cleared
    <2>1. /\ depth \in Frames /\ chunk' = [chunk EXCEPT ![depth] = Empty]
          /\ UNCHANGED <<depth, loads>> /\ end_assign("lua", Empty)
          /\ \A l \in Frames \ {depth} : site'[l] = site[l]
          /\ game_running_hook_complete' =
                (game_running_hook_complete \/ (site[depth] = "boot" /\ ok[depth]))
      BY <1>16, <1>t DEF execute_lua_cleared, execute_lua_return
    <2>2. Copies'
      BY <2>1, <1>a, <1>t, <1>o
    <2>3. ~InSlot'
      <3>1. LoadChunk \notin (clash \ Texts("lua")) \cup {Empty}
        BY <1>o DEF Texts
      <3> QED
        BY <2>1, <3>1, <1>o DEF end_assign, InSlot
    <2>4. Counted'
      BY <2>1, <1>a, <1>t DEF Succeeded
    <2> QED
      BY <2>2, <2>3, <2>4
  <1> QED
    BY <1>3, <1>4, <1>5, <1>6, <1>7, <1>8, <1>9, <1>10, <1>11, <1>12, <1>13, <1>14,
       <1>15, <1>16
    DEF Next, lua_pcall_hook, hook_body, hack_main, get_device_data_hook

\* Whatever nests and whatever the console types, the menus are patched once.
THEOREM LoadedOnce == Spec => []LoadOnce
  <1>1. Init => Posting /\ LoadAlone
    <2>1. LoadChunk # Empty
      BY Zenon DEF LoadChunk, Empty
    <2> QED
      BY <2>1 DEF Init, Posting, LoadAlone, Succeeded, LoadWindow
  <1>2. LoadAlone => LoadOnce
    BY DEF LoadAlone, LoadOnce
  <1>3. Spec => []LoadDone
    BY LoadDoneInit, LoadDoneStep, IInvAlways, PTL DEF Spec, IInv
  <1> QED
    BY <1>1, <1>2, <1>3, PostingStep, LoadAloneStep, IInvAlways, PTL DEF Spec, IInv
=============================================================================
