------------------------------ MODULE LuaExec ------------------------------
(***************************************************************************)
(* The command slot of DriverSF and the hook that empties it.              *)
(*                                                                         *)
(* lua::exec keeps one command: a string `buffer' and a flag `execute'     *)
(* (luaexec.h).  Three threads use the pair and no lock protects it:       *)
(*                                                                         *)
(*   "lua"      the game's Lua thread, in lua_pcall_hook.  It posts the    *)
(*              two chunks of the DLL itself (the config menu flag and     *)
(*              load.lua) and executes whatever the slot holds;            *)
(*   "console"  the thread of hack_main, which posts the lines typed;      *)
(*   "input"    the thread on which the game polls the keyboard, which     *)
(*              posts the menu toggle when Right Alt goes down.            *)
(*                                                                         *)
(* lua_pcall_hook runs after every lua_pcall of the game, and code running *)
(* under a pcall may call pcall again, so activations of the hook nest.    *)
(* An activation is a frame 1..depth; only frame `depth' moves.            *)
(*                                                                         *)
(* `buffer = text' is a std::string assignment: it has a beginning and an  *)
(* end.  An access that overlaps it is a data race: a reader may get Torn, *)
(* some mixture of bytes, and two assignments that overlap may leave Torn  *)
(* or the text of either.                                                  *)
(***************************************************************************)
EXTENDS Integers

CONSTANTS
    Commands,     \* the lines typed on the console, each typed at most once
    MaxDepth,     \* bound on nested activations (LUAI_MAXCCALLS in the game)
    Reentrant,    \* the chunks whose code reaches lua_pcall while it runs
    ScriptsSound  \* TRUE when no script under scripts/ raises an error

FlagChunk   == "flagGameDevMenu()"
LoadChunk   == "load.lua"
ToggleChunk == "toggle"
Empty       == ""
Torn        == "torn"

OwnChunks == {FlagChunk, LoadChunk, ToggleChunk, Empty, Torn}
Chunks    == Commands \cup OwnChunks

ASSUME CommandsAssumption == Commands \cap OwnChunks = {}
ASSUME DepthAssumption    == MaxDepth \in Nat \ {0}
ASSUME ScriptsAssumption  == Reentrant \subseteq Chunks /\ ScriptsSound \in BOOLEAN

VARIABLES
    buffer, execute,             \* lua::exec::buffer and lua::exec::execute
    writers, clash,              \* threads inside an assignment to buffer, and
                                 \* what those that overlapped may have left
    config_menu_enable, game_running_hook_complete, print_overridden,
    p_game_state,                \* TRUE once lua::exec::p_game_state is set
    depth, pc, site, chunk, ok,  \* the frames of lua_pcall_hook
    console, input,              \* the two other threads: [pc, text]
    world,                       \* what the game's Lua state holds by now
    typed, retired, completed, loads, intruded   \* history

slot  == <<buffer, execute, writers, clash>>
flags == <<config_menu_enable, game_running_hook_complete, print_overridden,
           p_game_state>>
frame == <<depth, pc, site, chunk, ok>>
hist  == <<typed, retired, completed, loads, intruded>>
vars  == <<slot, flags, frame, console, input, world, hist>>

Frames == 1..MaxDepth
Sites  == {"config", "boot", "dll"}

\* Where an activation of lua_pcall_hook is.  "orig" is the call of the
\* original lua_pcall; "assign" and "flag" are inside execute_lua_buffer (or
\* execute_lua_file), "test" to "clearing" inside execute_lua, for `site'.
HookPCs == {"off", "orig", "print", "config", "boot", "assign", "flag", "test",
            "load", "parse", "run", "clear", "clearing", "return"}
PostPCs == {"idle", "ready", "assign", "flag"}

TypeOK ==
    /\ buffer \in Chunks /\ execute \in BOOLEAN
    /\ writers \subseteq {"lua", "console", "input"} /\ clash \subseteq Chunks
    /\ config_menu_enable \in BOOLEAN /\ game_running_hook_complete \in BOOLEAN
    /\ print_overridden \in BOOLEAN /\ p_game_state \in BOOLEAN
    /\ depth \in 0..MaxDepth
    /\ pc \in [Frames -> HookPCs] /\ site \in [Frames -> Sites]
    /\ chunk \in [Frames -> Chunks] /\ ok \in [Frames -> BOOLEAN]
    /\ console \in [pc : PostPCs, text : Commands \cup {Empty}]
    /\ input \in PostPCs
    /\ world \in [running : BOOLEAN, flagDefined : BOOLEAN]
    /\ typed \subseteq Commands /\ retired \subseteq Commands
    /\ completed \subseteq {FlagChunk, LoadChunk} /\ loads \in 0..2
    /\ intruded \subseteq {"config", "boot", "load"}

Init ==
    /\ buffer = Empty /\ execute = FALSE /\ writers = {} /\ clash = {}
    /\ config_menu_enable = TRUE
    /\ game_running_hook_complete = FALSE
    /\ print_overridden = FALSE
    /\ p_game_state \in BOOLEAN   \* hack_main may find it set already
    /\ depth = 0
    /\ pc = [l \in Frames |-> "off"] /\ site = [l \in Frames |-> "dll"]
    /\ chunk = [l \in Frames |-> Empty] /\ ok = [l \in Frames |-> FALSE]
    /\ console = [pc |-> "idle", text |-> Empty] /\ input = "idle"
    /\ world = [running |-> FALSE, flagDefined |-> FALSE]
    /\ typed = {} /\ retired = {} /\ completed = {} /\ loads = 0 /\ intruded = {}

-----------------------------------------------------------------------------
(* The std::string that the three threads share. *)

Top(p) == depth > 0 /\ pc[depth] = p

\* The Lua thread has posted a chunk of its own and not yet taken it out.
InWindow == depth > 0 /\ pc[depth] \in {"assign", "flag", "test", "load", "parse"}
                      /\ site[depth] # "dll"

\* The texts thread t ever assigns.
Texts(t) == IF t = "lua" THEN {FlagChunk, LoadChunk, Empty}
            ELSE IF t = "console" THEN Commands ELSE {ToggleChunk}

\* Thread t enters `buffer = ...'.
begin_assign(t) ==
    /\ buffer' = Torn
    /\ writers' = writers \cup {t}
    /\ clash' = IF writers = {} THEN {} ELSE clash \cup {Torn}

\* Thread t leaves `buffer = text'.
end_assign(t, text) ==
    LET left == (clash \ Texts(t)) \cup {text} IN
    /\ writers' = writers \ {t}
    /\ \/ writers' = {} /\ buffer' \in left /\ clash' = {}
       \/ writers' # {} /\ buffer' = Torn /\ clash' = left

\* What another thread's assignment does to the Lua thread: the parser reads
\* buffer.c_str() in place, and the chunk the DLL posted is no longer there.
Disturb ==
    /\ IF Top("parse")
       THEN chunk' \in {chunk, [chunk EXCEPT ![depth] = Torn]}
       ELSE UNCHANGED chunk
    /\ intruded' = intruded \cup (IF InWindow THEN {site[depth]} ELSE {})
    /\ UNCHANGED <<depth, pc, site, ok>>

-----------------------------------------------------------------------------
(* The console thread: the loop of hack_main. *)

console_getline ==
    /\ p_game_state
    /\ console.pc = "idle"
    /\ \E c \in Commands \ typed :
          /\ console' = [pc |-> "assign", text |-> c]
          /\ typed' = typed \cup {c}
    /\ begin_assign("console") /\ Disturb
    /\ UNCHANGED <<execute, flags, input, world, retired, completed, loads>>

console_assigned ==
    /\ console.pc = "assign"
    /\ end_assign("console", console.text)
    /\ console' = [pc |-> "flag", text |-> console.text]
    /\ UNCHANGED <<execute, flags, frame, input, world, hist>>

console_flag ==
    /\ console.pc = "flag"
    /\ execute' = TRUE
    /\ console' = [pc |-> "idle", text |-> Empty]
    /\ UNCHANGED <<buffer, writers, clash, flags, frame, input, world, hist>>

-----------------------------------------------------------------------------
(* The input thread: get_device_data_hook, on a press of Right Alt. *)

input_press ==
    /\ input = "idle"
    /\ execute = FALSE
    /\ input' = "ready"
    /\ UNCHANGED <<slot, flags, frame, console, world, hist>>

input_assign ==
    /\ input = "ready"
    /\ input' = "assign"
    /\ begin_assign("input") /\ Disturb
    /\ UNCHANGED <<execute, flags, console, world, typed, retired, completed, loads>>

input_assigned ==
    /\ input = "assign"
    /\ end_assign("input", ToggleChunk)
    /\ input' = "flag"
    /\ UNCHANGED <<execute, flags, frame, console, world, hist>>

input_flag ==
    /\ input = "flag"
    /\ execute' = TRUE
    /\ input' = "idle"
    /\ UNCHANGED <<buffer, writers, clash, flags, frame, console, world, hist>>

-----------------------------------------------------------------------------
(* The Lua thread. *)

goto(p) == pc' = [pc EXCEPT ![depth] = p]

\* Game code has the thread: outside every hook, inside the original
\* lua_pcall, or inside a chunk the hook is running.
InGame == depth = 0 \/ Top("orig") \/ Top("run")

\* Mutant of pcall_enter: the C stack has no limit.
pcall_enter_unbounded ==
    /\ depth = 0 \/ Top("orig") \/ (Top("run") /\ chunk[depth] \in Reentrant)
    /\ p_game_state' = TRUE
    /\ depth' = depth + 1
    /\ pc' = [pc EXCEPT ![depth + 1] = "orig"]
    /\ intruded' = intruded \cup (IF Top("run") /\ chunk[depth] \in {LoadChunk, Torn}
                               THEN {"load"} ELSE {})
    /\ UNCHANGED <<slot, config_menu_enable, game_running_hook_complete,
                   print_overridden, site, chunk, ok, console, input, world,
                   typed, retired, completed, loads>>

\* The game calls lua_pcall and lands in the hook.
pcall_enter ==
    /\ depth < MaxDepth
    /\ depth = 0 \/ Top("orig") \/ (Top("run") /\ chunk[depth] \in Reentrant)
    /\ p_game_state' = TRUE
    /\ depth' = depth + 1
    /\ pc' = [pc EXCEPT ![depth + 1] = "orig"]
    /\ intruded' = intruded \cup (IF Top("run") /\ chunk[depth] \in {LoadChunk, Torn}
                               THEN {"load"} ELSE {})
    /\ UNCHANGED <<slot, config_menu_enable, game_running_hook_complete,
                   print_overridden, site, chunk, ok, console, input, world,
                   typed, retired, completed, loads>>

\* Mutant of pcall_return: the menu flag is posted before print is replaced.
pcall_return_keeping_print ==
    /\ Top("orig")
    /\ goto("config")
    /\ UNCHANGED <<slot, flags, depth, site, chunk, ok, console, input, world, hist>>

pcall_return ==
    /\ Top("orig")
    /\ goto("print")
    /\ UNCHANGED <<slot, flags, depth, site, chunk, ok, console, input, world, hist>>

\* override_print, and override_development, which leaves this state alone.
override_print ==
    /\ Top("print")
    /\ print_overridden' = TRUE
    /\ goto("config")
    /\ UNCHANGED <<slot, config_menu_enable, game_running_hook_complete,
                   p_game_state, depth, site, chunk, ok, console, input, world, hist>>

\* execute_lua_buffer(...) on the Lua thread, up to the middle of `buffer = '.
post_own(s) ==
    /\ goto("assign")
    /\ site' = [site EXCEPT ![depth] = s]
    /\ begin_assign("lua")
    /\ intruded' = intruded \cup (IF writers # {} THEN {s} ELSE {})
    /\ UNCHANGED <<typed, retired, completed, loads>>

override_config_menu ==
    /\ Top("config")
    /\ \/ config_menu_enable /\ post_own("config")
       \/ ~config_menu_enable /\ goto("boot") /\ UNCHANGED <<buffer, writers, clash, site, hist>>
    /\ UNCHANGED <<execute, flags, depth, chunk, ok, console, input, world>>

\* Mutant of lua_game_running_hook_bootstrap: it does not look at its record.
bootstrap_always ==
    /\ Top("boot")
    /\ \/ world.running /\ post_own("boot")
       \/ /\ ~world.running
          /\ goto("test") /\ site' = [site EXCEPT ![depth] = "dll"]
          /\ UNCHANGED <<buffer, writers, clash, hist>>
    /\ UNCHANGED <<execute, flags, depth, chunk, ok, console, input, world>>

lua_game_running_hook_bootstrap ==
    /\ Top("boot")
    /\ \/ ~game_running_hook_complete /\ world.running /\ post_own("boot")
       \/ /\ game_running_hook_complete \/ ~world.running
          /\ goto("test") /\ site' = [site EXCEPT ![depth] = "dll"]
          /\ UNCHANGED <<buffer, writers, clash, hist>>
    /\ UNCHANGED <<execute, flags, depth, chunk, ok, console, input, world>>

own_assigned ==
    /\ Top("assign")
    /\ end_assign("lua", IF site[depth] = "config" THEN FlagChunk ELSE LoadChunk)
    /\ goto("flag")
    /\ UNCHANGED <<execute, flags, depth, site, chunk, ok, console, input, world, hist>>

\* Mutant of own_flag: execute_lua_buffer fills the buffer and raises no flag.
own_flag_forgotten ==
    /\ Top("flag")
    /\ goto("test")
    /\ UNCHANGED <<slot, flags, depth, site, chunk, ok, console, input, world, hist>>

own_flag ==
    /\ Top("flag")
    /\ execute' = TRUE
    /\ goto("test")
    /\ UNCHANGED <<buffer, writers, clash, flags, depth, site, chunk, ok,
                   console, input, world, hist>>

\* Mutant of execute_lua_return: its callers ignore what execute_lua returns.
execute_lua_return_unchecked(res) ==
    /\ goto(IF site[depth] = "config" THEN "boot"
            ELSE IF site[depth] = "boot" THEN "test" ELSE "return")
    /\ site' = [site EXCEPT ![depth] = "dll"]
    /\ config_menu_enable' = (config_menu_enable /\ site[depth] # "config")
    /\ game_running_hook_complete' = (game_running_hook_complete \/ site[depth] = "boot")

\* Where the hook goes on after execute_lua has returned `res' to its caller.
execute_lua_return(res) ==
    /\ goto(IF site[depth] = "config" THEN "boot"
            ELSE IF site[depth] = "boot" THEN "test" ELSE "return")
    /\ site' = [site EXCEPT ![depth] = "dll"]
    /\ config_menu_enable' = (config_menu_enable /\ ~(site[depth] = "config" /\ res))
    /\ game_running_hook_complete' =
          (game_running_hook_complete \/ (site[depth] = "boot" /\ res))

\* Mutant of execute_lua_test: the flag stays up.
execute_lua_test_keeping_flag ==
    /\ Top("test")
    /\ \/ /\ execute
          /\ goto("load")
          /\ UNCHANGED <<site, flags>>
       \/ /\ ~execute
          /\ execute_lua_return(FALSE)
          /\ UNCHANGED <<print_overridden, p_game_state>>
    /\ UNCHANGED <<slot, depth, chunk, ok, console, input, world, hist>>

execute_lua_test ==
    /\ Top("test")
    /\ \/ /\ execute
          /\ execute' = FALSE
          /\ goto("load")
          /\ UNCHANGED <<site, flags>>
       \/ /\ ~execute
          /\ execute_lua_return(FALSE)
          /\ UNCHANGED <<execute, print_overridden, p_game_state>>
    /\ UNCHANGED <<buffer, writers, clash, depth, chunk, ok, console, input, world, hist>>

\* lual_loadbuffer_override gets buffer.c_str() and starts to parse it.
execute_lua_load ==
    /\ Top("load")
    /\ chunk' = [chunk EXCEPT ![depth] = buffer]
    /\ goto("parse")
    /\ UNCHANGED <<slot, flags, depth, site, ok, console, input, world, hist>>

\* A typed line, or a torn one, may be a syntax error; the DLL's own never are.
execute_lua_parsed ==
    /\ Top("parse")
    /\ \/ goto("run") /\ UNCHANGED ok
       \/ /\ chunk[depth] \in Commands \cup {Torn}
          /\ goto("clear") /\ ok' = [ok EXCEPT ![depth] = FALSE]
    /\ UNCHANGED <<slot, flags, depth, site, chunk, console, input, world, hist>>

\* What the original lua_pcall may return for a chunk: TRUE is status 0.
Outcomes(c) ==
    IF c = FlagChunk THEN {world.flagDefined}
    ELSE IF c = Empty \/ (c = LoadChunk /\ ScriptsSound) THEN {TRUE}
    ELSE BOOLEAN

execute_lua_ran ==
    /\ Top("run")
    /\ \E res \in Outcomes(chunk[depth]) :
          /\ ok' = [ok EXCEPT ![depth] = res]
          /\ completed' = completed \cup
                (IF res THEN {chunk[depth]} \cap {FlagChunk, LoadChunk} ELSE {})
          /\ loads' = IF res /\ chunk[depth] = LoadChunk /\ loads < 2
                      THEN loads + 1 ELSE loads
    /\ goto("clear")
    /\ UNCHANGED <<slot, flags, depth, site, chunk, console, input, world,
                   typed, retired, intruded>>

\* settop(L, top) and `buffer = ""', on each of the three ways out.
execute_lua_clear ==
    /\ Top("clear")
    /\ begin_assign("lua")
    /\ goto("clearing")
    /\ UNCHANGED <<execute, flags, depth, site, chunk, ok, console, input, world, hist>>

\* Mutant of execute_lua_cleared: the buffer keeps what was executed.
execute_lua_cleared_keeping ==
    /\ Top("clearing")
    /\ end_assign("lua", chunk[depth])
    /\ execute_lua_return(ok[depth])
    /\ chunk' = [chunk EXCEPT ![depth] = Empty]
    /\ ok' = [ok EXCEPT ![depth] = FALSE]
    /\ retired' = retired \cup ({chunk[depth]} \cap Commands)
    /\ UNCHANGED <<execute, print_overridden, p_game_state, depth, console, input,
                   world, typed, completed, loads, intruded>>

execute_lua_cleared ==
    /\ Top("clearing")
    /\ end_assign("lua", Empty)
    /\ execute_lua_return(ok[depth])
    /\ chunk' = [chunk EXCEPT ![depth] = Empty]
    /\ ok' = [ok EXCEPT ![depth] = FALSE]
    /\ retired' = retired \cup ({chunk[depth]} \cap Commands)
    /\ UNCHANGED <<execute, print_overridden, p_game_state, depth, console, input,
                   world, typed, completed, loads, intruded>>

hook_return ==
    /\ Top("return")
    /\ goto("off")
    /\ depth' = depth - 1
    /\ UNCHANGED <<slot, flags, site, chunk, ok, console, input, world, hist>>

\* The game (external): scripts get loaded, the game state changes.
game_step ==
    /\ InGame
    /\ world' \in [running : BOOLEAN, flagDefined : BOOLEAN]
    /\ world' # world
    /\ UNCHANGED <<slot, flags, frame, console, input, hist>>

\* The hook's own code: all of it but the two calls that run Lua code.
hook_body ==
    \/ override_print \/ override_config_menu \/ lua_game_running_hook_bootstrap
    \/ own_assigned \/ own_flag \/ execute_lua_test \/ execute_lua_load
    \/ execute_lua_parsed \/ execute_lua_clear \/ execute_lua_cleared \/ hook_return

lua_pcall_hook == pcall_enter \/ pcall_return \/ hook_body \/ execute_lua_ran

hack_main == console_getline \/ console_assigned \/ console_flag

get_device_data_hook == input_press \/ input_assign \/ input_assigned \/ input_flag

Next == game_step \/ lua_pcall_hook \/ hack_main \/ get_device_data_hook

Spec == Init /\ [][Next]_vars

\* The Lua thread runs, the game calls lua_pcall again and again, and what it
\* calls returns; a thread that has entered execute_lua_buffer leaves it.
\* Nobody need ever type or press a key.
Fairness ==
    /\ WF_vars(pcall_enter /\ depth = 0)
    /\ WF_vars(hook_body)
    /\ \A l \in Frames : /\ SF_vars(pcall_return /\ depth = l)
                        /\ SF_vars(execute_lua_ran /\ depth = l)
    /\ WF_vars(console_assigned \/ console_flag)
    /\ WF_vars(input_assign \/ input_assigned \/ input_flag)

FairSpec == Spec /\ Fairness

-----------------------------------------------------------------------------
(* Properties *)

\* Where the DLL keeps a typed line: in a frame that is past its parse, or in
\* a place from which the hook may still parse it.
Held(c)    == \E l \in Frames : chunk[l] = c /\ pc[l] \in {"run", "clear", "clearing"}
Pending(c) == \/ c \in clash \cup {buffer}
              \/ console = [pc |-> "assign", text |-> c]
              \/ \E l \in Frames : chunk[l] = c /\ pc[l] = "parse"

\* How far the DLL has got with a line; one that is dealt with and may yet be
\* parsed again is back at "sent", which CommandLife forbids.
Stage(c) ==
    IF c \in retired THEN IF Pending(c) THEN "sent" ELSE "retired"
    ELSE IF Held(c) THEN "taken" ELSE IF c \in typed THEN "sent" ELSE "unsent"

Life == INSTANCE CommandLife WITH life <- [c \in Commands |-> Stage(c)]

\* The slot is lossy but never replays: a line is executed only after it was
\* typed, and once an activation of the hook is done with it no copy of it is
\* left to parse, although two other threads write the slot while the hook
\* reads it and the hook nests.  (While a line runs, a nested activation may
\* still take it a second time.)
LinesNeverReplay == Life!Spec

\* The parse of load.lua has succeeded and it starts to run.
LoadStarts == \E l \in Frames : pc[l] = "parse" /\ pc'[l] = "run" /\ chunk[l] = LoadChunk

\* The scripts that patch the menus (load.lua) are not idempotent: once the
\* bootstrap has recorded its success, load.lua never starts again, whichever
\* activation of the hook is running.
LoadNeverRestarts == [][game_running_hook_complete => ~LoadStarts]_vars

\* When no activation began inside load.lua itself, or inside a torn chunk, it
\* runs to its end at most once, although other chunks nest and the bootstrap
\* retries after an error.  (A torn chunk may leave load.lua to be taken by an
\* activation inside it, which nobody records.)
LoadOnce == "load" \notin intruded => loads <= 1

\* The two success records of the DLL (config_menu_enable cleared and
\* game_running_hook_complete set) are true of what ran, unless another thread
\* assigned to `buffer' between the DLL's post and its parse.
HonestUnlessIntruded ==
    /\ ~config_menu_enable /\ "config" \notin intruded => FlagChunk \in completed
    /\ game_running_hook_complete /\ "boot" \notin intruded => LoadChunk \in completed

\* No chunk runs before print is redirected to the log.
PrintFirst == (\E l \in Frames : pc[l] = "run") => print_overridden

\* A raised execute flag is always taken down by the hook.
FlagConsumed == execute ~> ~execute

Quiet == console.pc = "idle" /\ input = "idle"

\* When the other threads fall silent and flagGameDevMenu exists for good, the
\* config menu gets flagged.
ConfigEventually == <>[](Quiet /\ world.flagDefined) => <>~config_menu_enable

\* When the other threads fall silent and the game keeps running, a sound
\* load.lua gets loaded.
BootEventually ==
    ScriptsSound /\ <>[](Quiet /\ world.running) => <>game_running_hook_complete

\* README: Right Alt toggles the in game menu.  Once the DLL is set up, a
\* press the hook has accepted leads to a run of the toggle.
TogglePressRuns ==
    (input = "flag" /\ ~config_menu_enable /\ game_running_hook_complete)
       ~> \E l \in Frames : pc[l] = "run" /\ chunk[l] = ToggleChunk
=============================================================================
