# DriverSF in TLA+

DriverSF is a DLL that is loaded into the game Driver: San Francisco. It hooks
the game's Lua, Direct3D 9 and DirectInput functions, so that Lua code typed on
a console or read from `scripts/` runs inside the game, Lua scripts are dumped
and replaced, and the game's development menus are shown. This directory holds
TLA+ specifications of it, the TLC configurations that check them, and proofs
checked by TLAPS. The other half of the repository is the Lua 5.1.2 the game
runs those scripts on (`lua-5.1.2/`, vendored; the DLL is compiled with its
headers and calls the game's copy): its compiler, virtual machine, libraries,
tables and collector are modelled as well. Source paths are relative to the
repository; `luaexec.cpp:69` stands for `src/helpers/luaexec.cpp`, line 69, and
`lcode.c:539` for `lua-5.1.2/src/lcode.c`, line 539.

## 1. The system

### Components, state, operations

| component | source | state it keeps | operations | model |
|---|---|---|---|---|
| command slot | `helpers/luaexec.*` | `buffer`, `execute`, `p_game_state`, `game_running_hook_complete` | `execute_lua_buffer`, `execute_lua_file`, `execute_lua`, `lua_game_running_hook_bootstrap` | `LuaExec` |
| lua_pcall hook | `hooks/luahooks.cpp:32-48` | none of its own; nests | `lua_pcall_hook` | `LuaExec` |
| console loop | `library.cpp:54-64` | the line being posted | `hack_main` | `LuaExec` |
| input hook | `hooks/dihooks.cpp:12-25` | none | `get_device_data_hook` | `LuaExec` |
| print and menu overrides | `overrides/luaoverrides.cpp:53-75, 139-171` | `print_overrridden`, `config_menu_enable` | `override_print`, `override_config_menu`, `luab_print_override` | `LuaExec` (not the text of a print) |
| development texts | `overrides/luaoverrides.cpp:77-161` | `dev_texts`, `dev_text_mutex`, `development_overridden` | five `Development` functions | `DevText` |
| Direct3D hooks | `hooks/d3d9hooks.cpp` | `first_call`, `p_font`, `p_sprite`, `p_my_device` | `end_scene_hook`, `present_hook` | `DevText` |
| parser hook | `hooks/luahooks.cpp:18-30, 50-89` | `safe`, the files below `dumps/`, leaked streams | `luad_protectedparser_hook`, `dump_luac` | `ParserHook` |
| menu scripts | `scripts/*.lua` | Lua globals and closures in the game | `load.lua` and what it opens, the patched menu functions, the nitro menu | `PauseMenu` |
| Lua helpers | `helpers/luahelpers.cpp` | none (the Lua stack) | `absindex`, `get_upvalue_string`, `set_cfunction_in_table`, `check_lua_status` | not modelled |
| start-up | `library.cpp:19-54, 67-86`, `install_hooks` of each hook | trampolines | attach, `install_hooks` | not modelled |
| proxies, logger | `proxies/`, `logger.cpp` | addresses; the console window | | not modelled: set once; pure output |
| Lua compiler | `llex.c`, `lparser.c`, `lcode.c`, `ldebug.c:90-330` | `LexState`, `FuncState` | scanner, productions, code generator, `luaG_checkcode` | `LuaLex`, `LuaParser`, `LuaCode`, `LuaCheck` |
| Lua virtual machine | `lvm.c`, `ldo.c`, `lfunc.c`, `ltm.c`, control functions of `lbaselib.c` | stacks, `CallInfo`s, upvalues, the C stack, per thread | opcodes, calls, metamethods, errors, coroutines | `LuaVM` |
| Lua libraries | `lbaselib.c`, `ltablib.c`, `lstrlib.c`, `lauxlib.c` | match state, none else | functions on values, tables and strings, patterns | `LuaLib`, `LuaStr` |
| Lua tables | `ltable.c` | array part, nodes, `lastfree` | get, set, rehash, length, traversal | `LuaTable` |
| Lua collector | `lgc.c`, `lstring.c`, `lfunc.c`, stores of `lapi.c` and `lvm.c` | colours, lists, the phase | steps of a collection, barriers, finalizers | `LuaGC` |
| rest of Lua | `lapi.c`, `ldump.c`, `lundump.c`, `lmem.c`, `lzio.c`, ... | | | not modelled: see section 5 |
| safetyhook | `safetyhook/` | | | not modelled: an empty submodule |

### How they interact

Four threads meet in the DLL.

* The game's **Lua thread** runs every Lua chunk. After each `lua_pcall` of the
  game it goes through `lua_pcall_hook`: redirect `print`, override the
  `Development` table, run `flagGameDevMenu()` once, load `load.lua` once when
  the game state is "Game Running", and execute whatever the command slot
  holds. Code below a `lua_pcall` calls `lua_pcall`, so the hook *nests*.
  Every chunk it parses goes through `luad_protectedparser_hook`.
* The **console thread** (`hack_main`) posts typed lines into the slot.
* The **input thread** posts a toggle of the menu when Right Alt goes down.
* The **render thread** draws `dev_texts` just before each `Present`.

The slot is a `std::string` and a `bool` without any lock, shared by the first
three. `dev_texts` is shared by the first and the last, under a
`std::shared_mutex`. The scripts are loaded by the slot and live in the game's
Lua state; the dumps live in the file system and outlast the process.

Below them, Lua itself: a chunk goes from text to tokens, to instructions, is
run by the virtual machine one instruction at a time and calls libraries, which
call back. Threads of Lua (coroutines) share one C stack, across which only
some calls can be suspended. The collector takes its steps at any allocation
in between, and every store tells it by a barrier.

### What is hard

* Overlapping `std::string` assignments, a flag that is set after the text and
  cleared before it is read, and a final `buffer = ""` that does not look at
  the flag.
* Nested activations that share one slot, and success records that speak of a
  text some other thread may have replaced.
* A load that fails half way and is repeated, although the scripts it loads are
  not idempotent.
* Side effects of a file's constructor, a stream leaked per override, a crash
  between the open that truncates and the write.
* A lock around an iteration, next to a call that may block.
* A compiler in one pass: jump lists that mix tests with and without a value,
  assignments that overwrite what a later target needs, blocks that are left in
  five ways while their locals are captured.
* Errors and yields that cut through C calls, with counters to put back; an
  overflow handled by code that needs room itself.
* A collection interleaved with the stores of the program it collects for, with
  weak tables, finalizers that revive, and open upvalues that belong to a stack.
* A hash table whose traversal must survive the removal of the key it is at.

`PROJECT.json` lists these hazards line by line with the properties that cover
them.

### What makes each component correct

* Slot: lossy but never replaying; success records that are true; each of the
  DLL's own chunks gets through; a raised flag is taken down; the menus are not
  loaded again after success.
* Texts: each frame shows the texts of one moment, with a font of its device;
  a Lua call does not wait for the display.
* Parser: a whole dump is never lost; every script seen is dumped; no foreign
  reader state is read as a `load_s`; a script is replaced by nothing only when
  no stream is left.
* Scripts: the functions kept as originals are the game's; the player gets the
  controls back; the menu that is made active exists; the boost restores what
  it replaced.
* Lua: a chunk comes to what the manual says of its text, within the limits;
  the frames, the C stack and the open upvalues agree at every instruction; what
  a program can reach is never freed and what it cannot is, in one collection; a
  table is a dictionary.

## 2. The modules

| module | what it is |
|---|---|
| `LuaExec` | the slot, the four functions on it, `lua_pcall_hook` in nested activations, the console and the input thread |
| `CommandLife` | abstract: the life of a typed line; `LuaExec` implements it |
| `DevText` | overrides and `end_scene_hook`/`present_hook` around `dev_text_mutex` |
| `Screen` | abstract: texts go up and down, frames show what is up; `DevText` implements it |
| `ParserHook` | `luad_protectedparser_hook` and `dump_luac`, call by call, over restarts |
| `PauseMenu` | the loads of `scripts/`, the patched functions, the nitro menu |
| `LuaLex` | the scanner: a text to tokens |
| `LuaCode` | the code generator: jump lists, registers, constants, conditions |
| `LuaParser` | the productions of the one-pass parser, on top of `LuaCode` |
| `LuaCheck` | `luaG_checkcode`, the symbolic execution of a function |
| `LuaStr` | pattern matching and the functions on strings |
| `LuaLib` | the functions of the basic, table and string libraries that call nothing in turn |
| `LuaVM` | the virtual machine: it runs what the others compile, one instruction a step |
| `LuaTable` | the tables: array, chained hash, rehash, traversal, removal by the collector |
| `LuaDictionary` | abstract: keys with values, borders, traversals; `LuaTable` implements it |
| `LuaGC` | the collector against a program |
| `MCLuaExec`, `MCDevText`, `MCParserHook`, `MCLuaVM`, `MCLuaTable`, `MCLuaGC` | small instances for TLC (`PauseMenu` has no constants and needs none) |
| `LuaExecProofs`, `DevTextProofs`, `ParserHookProofs`, `PauseMenuProofs` | theorems |
| `LuaTableProofs` | every function of `LuaTable`, and that it implements `LuaDictionary` |
| `LuaGCLemmas`, `LuaGCProofs`, `LuaGCCollects` | lemmas about what `LuaGC` is built from; what is in use is not freed; garbage is |

Operators named `..._something` after a definition and introduced as "Mutant of"
are plausible bugs; they are used nowhere, and replacing the definition by one
of them breaks the property it is listed with in `PROJECT.json`.

### LuaExec

Each activation of the hook is a frame `1..depth` with a program counter `pc`,
the caller of `execute_lua` it is serving (`site`: the menu flag, the
bootstrap, or line 45 of the hook), the text it took (`chunk`) and the result
(`ok`). Only the top frame moves. The program counters follow the code:

    orig -> print -> config -> boot -> test -> return
    config, boot:  assign -> flag -> test          (execute_lua_buffer/_file)
    test:          load -> parse -> run -> clear -> clearing   (execute_lua)

An assignment to `buffer` is two steps, because it is not atomic: between them
the buffer is `Torn`, a reader gets `Torn`, the text of a parse in progress may
become `Torn`, and when two assignments overlap the result is `Torn` or either
text. That a race may also crash the process is not a state of the model: a
crash only ends the behaviour. `execute` is a plain bool whose accesses are
single steps, in program order (x86 keeps the order of the two stores; the
compiler is assumed not to swap a string assignment and the store after it).
`world` is the environment: whether the game runs, and whether
`flagGameDevMenu` exists; it changes whenever game code has the thread.

`typed`, `retired`, `completed`, `loads` and `intruded` are history. `intruded`
records that another thread assigned to the buffer between a post of the DLL
and its parse, and that an activation of the hook began inside `load.lua`.

### DevText

The Lua thread is `game` (anywhere else), `wait` (for the mutex) or `body`; the
render thread `game`, `wait`, `draw` (inside the loop, one text a step) or
`present`. A rejected call covers the early returns of `add2DText` and an
exception of `std::stoi`/`std::stof`: both leave the map alone, and unwinding
releases the mutex. There is one Lua and one render thread, as in the game;
devices are several, since any device's `Present` goes through the hook.

### ParserHook

`dump_luac` is one step per call on a stream or the file system, because what
they return depends on each other: the constructor of `dump_file` creates the
file if its directory exists, the `ifstream` then finds it, `open` on an open
stream fails, and every stream needs one of the C runtime's `MaxStreams`.
`create_directories` makes the directory of the script and all that are missing
above it (`DirsOf`), in which no dump need ever lie. The game may end in the middle (`restart`): static variables are lost, files stay.
`dump_lua` is set by `hack_main` before the hook exists and is taken as true.

### PauseMenu

A load is a sequence of stages, one per part of a script that can raise an
error: a global of the game that is not defined yet, or the user's own code in
`example_menu.lua`. `raises` says whether `debugOpen` (a game function) passes
on the error of the file it opens; both are checked. For each function the
patches replace, `fun` is what the global holds and `orig` what the global
`original...` holds: "patched" in `orig` is a closure that will call itself.
The game's own menu functions are external and modelled from how the scripts
use them: `clearPauseMenu` hides, `TriggerPauseMenu` shows and draws the active
menu and fails if there is none of that name.

### LuaLex, LuaParser, LuaCode, LuaCheck

Operators: from the text of a chunk to a tree of functions, each with its
code, constants and upvalues. A state `s` is a `FuncState` with the expression
and the jump list at hand; each function of `lparser.c` and `lcode.c` is an
operator from state to state, in the order of the calls of the code. A jump
list, which the code threads through the offsets of its jumps, is the set of
its jumps. `s.error` is the first error (what `longjmp` cuts off changes
nothing any more), `s.ok` the conjunction of all assertions met, `luaG_checkcode`
of each finished function included. Error messages carry no positions, and
numbers are integers.

### LuaVM, LuaLib, LuaStr

`vm.L[t]` is the `lua_State` of thread `t`: its stack, `top`, `base`, `savedpc`,
`CallInfo`s with `size_ci`, `nCcalls` and status. `vm.C` is the C stack they
share, whose frames are an activation of `luaV_execute` with its `nexeccalls`, a
`luaD_call` with what its caller does afterwards (`kind`: store a metamethod's
result, leave a `pcall`, go on with a `gsub`, ...), a `lua_resume`, or a
parser. `longjmp` is `throw`: it unwinds `vm.C` to the innermost frame that
catches, with all that `luaD_pcall` restores. `vm.r` is what has to be done
before the next instruction: run the C function that was entered, start the Lua
function that `luaD_precall` prepared (`goto reentry`, or a new activation of
`luaV_execute`), call the error handler, or unwind; each is a step of `Next`, so
the invariants are checked in between. Each opcode is an operator of the
machine. The constant `Compile` is the compiler, which the instance sets to
`luaY_parser`, so that `LuaVM` itself is about any code. Library functions that
call nothing (`LuaLib`) are one step, as nothing is visible between. The stack
has a fixed size and never moves.

Tables are the dictionaries that `LuaTable` shows them to be; the length of a
table with holes, which depends on its history, is not used by any program of
the pool. The tables of the libraries are there from the start
(`luaL_openlibs`), without the fields of functions that are not modelled.

### LuaTable

A table is its array, its nodes with their chains, `lastfree`, and whether it
has the common `dummynode`. Keys are numbers, strings with their hash and
objects with their address, so that all of them collide. `key` and `seen` are a
traversal under way; while it lasts only fields that are there are assigned to,
as the manual demands, but the collector may remove keys at any time, the one
the traversal stands at included when its value is `nil`; `cleartable` spares
it, since the key is on the stack. The loops of the code are recursive
functions: `found` goes down a chain, `reinsert` takes the pairs of a resize one by one, `setall` and `move` are the
loops of `SETLIST` and of `table.insert` and `table.remove`. `newkey` calls
itself through `luaH_set` after a rehash; here it does not: `insert` is the part
that finds room, and its assertion fails where there is none. That it never
fails is the theorem `NodesAlwaysSound`, so no rehash ever needs another.

### LuaGC

`body` is what each object holds (`nil` when it is not allocated), `g` the
colours and the lists `gray`, `grayagain` and `weak`, `rootgc`, `sweepgc` and
`tmudata` the other lists, `fin` the userdata whose finalizers run, one inside
the other. The steps of the collector are those of `singlestep`, taken apart to one
object each: mark the roots, traverse a gray object, `atomic`, sweep one object
(a thread with its open upvalues), finalize one userdata; and `luaC_fullgc`,
which may come at any point, inside a finalizer as well, where it may call the
next finalizer before the first one returns. How much a call of
`luaC_step` does and when a collection starts depends on sizes and is left
open. So the program may come between any two steps: it reads what is at hand,
makes objects, finds strings again, makes closures with new, open or shared
upvalues, closes upvalues, and stores into tables, upvalues, stacks and
metatables, each with the barrier the code has there. `lua_setupvalue` is the
one store whose barrier is not about the object that gets the value: `missed`
says that it has left a white value in a black upvalue. What follows is as in
the code, up to the point where something is freed that the program still holds
(`Undefined`): there the program reads freed memory and the model stops.

The kinds of objects and the first heap are a member of `Pools`, any heap whose
objects refer to allocated ones. `propagateall`, the loop over all gray
objects, is the least set closed under references to white ones (`From`), since
the order of the traversals makes no difference. `Reach` is what the roots lead
to over `Holds` (strings in weak tables count as held, as they are marked there
by `iscleared`); `InUse` the same without going through userdata that wait for
their finalizers. `doomed` is the garbage there was when a collection began,
less what has become reachable again: a weak table may bring it back until
`atomic` clears it, and a finalizer afterwards.

## 3. What TLC checks

| run | bounds | distinct states | shows |
|---|---|---|---|
| `lua_exec_nested` | 1 line, depth 2, the line and a torn text nest | 2.9 M | `TypeOK`, `HonestUnlessIntruded`, `LoadOnce`, `PrintFirst`, `LoadNeverRestarts`, `LinesNeverReplay` |
| `lua_exec_live` | no line, the toggle nests, depth 2, sound scripts | 0.1 M | `FlagConsumed`, `ConfigEventually`, `BootEventually` |
| `lua_exec_toggle` | violation | | an accepted press of Right Alt gets lost |
| `dev_text` | 2 keys, 2 texts, 2 devices | 48 k | `TypeOK`, `FontOfDevice`, `FramesAreSnapshots`, `LuaReturns` |
| `parser_hook` | 4 scripts, 3 directories, one above another, 3 streams | 62 k | `TypeOK`, `NoForeignCast`, `NothingOnlyAtLimit`, `DirsHoldDumps`, `WholeDumpsStay` |
| `parser_hook_dump` | violation | | the second script of a directory is never dumped |
| `pause_menu` | none: the model is finite | 0.2 M | `TypeOK`, `NoLockout`, `OriginalsAreGames`, `ActiveMenuExists`, `NitroFollowsFlag`, `LabelFresh`, `ToggleFlips` |
| `pause_menu_unpause` | violation | | after a second load the menu cannot be cleared |
| `lua_vm` | 3.5 k chunks | 44 k | `LimitsHold`, `MeansWhatItSays`, `AssertsHold`, `OpenUpvaluesInFrames`, `FramesAgree` |
| `lua_table` | 3 integer keys, a string, an object; 4 nodes | 0.1 M | `NodesSound`, `IsDictionary`, `ArrayHalfUsed` |
| `lua_gc` | 12 heaps of up to 5 objects, 2 steps of the program per behaviour | 0.14 M | `TypeOK`, `NothingInUseIsDead`, `BlackNeverSeesWhite`, `ListsDisjoint`, `CycleCollects`, `FinalizedOnce`, `NotFinalizedInUse` |
| `lua_gc_setupvalue` | violation | | a value in a shared upvalue is freed in use |

Why the bounds are enough: with depth 2 an activation can be interrupted at
each point that runs game code by one that does all an activation can do, and
deeper ones only repeat that. One line can be lost, torn, overlapped and
retired; the two other threads can clash with it. With `load.lua` nesting too
(4.0 million states) the properties hold as well. With two keys a text can
change before and behind the iterator of `present_hook`. Of the four scripts two
lie in one directory, one in a directory below another, and one in that other:
a directory may be there or not, and be there because of a dump further down.
Three streams let the limit be reached in each call that needs one
(the C runtime has 512). The proofs cover all other values where they exist.

`lua_vm`. The limits of the code are made small, so that they are reached: 12
locals, 4 upvalues, 12 C calls (250 become 12), 16 `CallInfo`s in a stack that
starts with 8 and doubles, 3 constants within reach of an operand (the others
need a register), 2 list items per `SETLIST` and 2 blocks it can number (the
number of a later one is a word of its own), 3 captures, 3 rounds of `__index`. The chunks of the pool (`MCLuaVM`) come in families: all boolean
expressions of a shape, each as a value and as a condition, and all pairs of
assignments whose targets and sources overlap, both with their meaning computed
from the expression; patterns with nested captures and all repetitions, with
their matches computed by a second matcher that enumerates every way to match
in order of preference; and programs about control flow, closures in loops,
varargs, metamethods, errors in and out of handlers, coroutines, strings,
tables, `loadstring` and every limit, each with what the manual says of it.
A chunk is deterministic: the run is a test of each, but with the invariants
checked at every instruction.

`MeansWhatItSays` excludes nothing silently: these known bugs of 5.1.2 are met
by shapes that are not in the pool. `((1 or false) and true) or false` is 1
instead of `true` (the jump list of the inner `or`, `lcode.c:539`);
`-nil` and `-true` make `UNM` name a constant where it wants a register
(`lcode.c:701`); `assignment`
does not limit its variables (`lparser.c:931`), nested `lua_resume`s do not
count as C calls (`ldo.c:417`), and `table.remove` with a position past the end
clears the last field (`ltablib.c:129`; `LuaTable` and `LuaDictionary` have it).
A block number behind a `SETLIST` is no instruction here; in the code it is a
word like any other, and 546, say, reads as another `SETLIST` to the check of
jumps (`ldebug.c:350`), which takes a constructor with more than 27,000 items.

`lua_table`. Two of the keys always share a chain in a vector of four, and a
vector of four is full with the five keys, so every branch of `newkey`, both
directions of a move between the parts, and rehashes to larger and smaller
arrays occur. With a second string (1 million states) it passes too.

`lua_gc`. A heap has at most three objects besides the main thread and the
table of globals: an object, what it refers to, and a third to store, in pools
for ephemeral keys, weak keys and values, finalizers, a finalizer that is in a
weak table, coroutines, open and closed upvalues, and strings that are found
again. A store to a black object of a white one takes two steps of the program
(get it, store it), which may come anywhere in two collections. In one of the
pools two functions share a closed upvalue and one has the other at hand, which
is what `debug.setupvalue` needs to miss a value; there `NothingInUseIsDead`
says what holds until then, and `lua_gc_setupvalue` shows what happens after.

### Validation against the code

The operators of `LuaLex` to `LuaVM` can be run: all chunks of the pool, and
several thousand random ones from a grammar of expressions, statements,
closures, coroutines and errors, were given both to them and to a program
linked with the repository's own Lua, built with the small limits of the run.
They agreed in results and error values, and on thousands of random texts in
the instructions the compiler makes. The same was done with random calls of the
library functions. What differs on purpose is excluded: positions in messages,
addresses, borders of tables with holes, a replacement text that ends in `%`,
and negative texts in a base other than ten.

### Fairness

`FairSpec` of `LuaExec`: the game calls `lua_pcall` again and again, and the
hook's own code runs on (weak fairness: it never waits); calls of game code
return (strong, since a nested activation disables the return for a while); a
thread that has entered `execute_lua_buffer` leaves it. Nobody need ever type
or press. `FairSpec` of `DevText`: hooks run on, and the mutex lets a waiting
thread in if it is free again and again (strong); nothing is assumed of
`Present`, which may block for ever. Liveness of `load.lua` assumes scripts
without errors, since a script that always fails is never loaded.

### Findings

The violation runs are disagreements between the code and what it says of
itself; `PROJECT.json` quotes both.

1. `luaexec.cpp:50`: a toggle posted while a chunk runs is erased (README: "Right Alt key to toggle in game menu").
2. `luahooks.cpp:21`: the constructor of `dump_file` makes the file the next line looks for. Only the script for which the directory is made gets dumped: not the second one in it, and not the first one of a directory that `create_directories` made on the way to another (`visuals`, when the camera script comes first).
3. `pause_menu_patches.lua:4`: originals kept in globals; a repeated load makes the patched functions call themselves.
4. `lapi.c:1075`, in the vendored Lua: `lua_setupvalue` puts its barrier on the closure although the value goes into the upvalue. When another function shares that closed upvalue and has been traversed, and this one has not, the value is freed while it is in use.

The fourth is within reach of the repository's own scripts: `utils.lua:30` calls
`debug.setupvalue` for `pause_menu_patches.lua:8` and `:16`, on the upvalue
`activeMenu` that the functions of the game's menu share. What these two store
is the constant `"Main"`, which the running function keeps alive, so there the
upvalue may be black and the string white, but nothing is freed in use; a script
that stores a new object in this way can lose it.

Four more are visible in the models and have no run of their own. The probing
`FILE` of `luahooks.cpp:79` is never closed; when it takes the last stream, the
`ifstream` of the next line reads nothing and the script is replaced by an empty
one (`parsed = "nothing"`, which `NothingOnlyAtLimit` confines to that case). The log says
"GameDevMenu flag set." for whatever text was executed (`luaoverrides.cpp:166`;
`HonestUnlessIntruded` states what is left of it). A second load of
`example_menu.lua` while the boost is on captures the zeroes as the original
constants (`NitroFollowsFlag` holds for one load only). The repository's README
has the meaning of `enableCustomMenus` the wrong way round (`load.lua:6`).

## 4. What TLAPS proves

For every value of the constants (lines, depth, nesting chunks; keys, texts,
devices; scripts, directories, streams; keys of tables with any hashes, values,
sizes; objects, heaps, slots, numbers of steps):

| module | theorem | property |
|---|---|---|
| `LuaExecProofs` | `TypeCorrect` | `TypeOK` |
| | `NeverReplay` | `LinesNeverReplay` (`LuaExec` implements `CommandLife`) |
| | `LoadsOnlyUntilComplete` | `LoadNeverRestarts` |
| | `PrintsAreLogged` | `PrintFirst` |
| | `RecordsAreHonest` | `HonestUnlessIntruded` |
| | `LoadedOnce` | `LoadOnce` |
| `DevTextProofs` | `TypeCorrect`, `FontMatches` | `TypeOK`, `FontOfDevice` |
| | `NoTornFrames` | `FramesAreSnapshots` (`DevText` implements `Screen`) |
| `ParserHookProofs` | `TypeCorrect` | `TypeOK` |
| | `DumpsAreKept`, `DirectoriesFilled` | `WholeDumpsStay`, `DirsHoldDumps` |
| | `ForeignNeverCast`, `NothingLostBefore` | `NoForeignCast`, `NothingOnlyAtLimit` |
| `PauseMenuProofs` | `TypeCorrect` | `TypeOK` |
| | `ControlsKept`, `OriginalsKept` | `NoLockout`, `OriginalsAreGames` |
| | `FlagIsHonest`, `LabelsAreFresh` | `NitroFollowsFlag`, `LabelFresh` |
| | `MenusAreThere`, `TogglesFlip` | `ActiveMenuExists`, `ToggleFlips` |
| `LuaTableProofs` | `TableInvariant` | the inductive invariant |
| | `NodesAlwaysSound` | `NodesSound` |
| | `TableIsDictionary` | `IsDictionary` (`LuaTable` implements `LuaDictionary`) |
| | `ArrayMoreThanHalfUsed` | `ArrayHalfUsed` |
| `LuaGCProofs` | `SafeAlways` | the inductive invariant |
| | `TypeAlways`, `OneListEach` | `TypeOK`, `ListsDisjoint` |
| | `NeverFreedInUse`, `BarriersHold` | `NothingInUseIsDead`, `BlackNeverSeesWhite` |
| | `OnceFinalized`, `FinalizedAreLost` | `FinalizedOnce`, `NotFinalizedInUse` |
| `LuaGCCollects` | `GarbageCollected` | `CycleCollects` |

So each invariant, action property and refinement of `LuaExec`, `DevText`,
`ParserHook`, `PauseMenu`, `LuaTable` and `LuaGC` that a run checks is also a
theorem; of the safety properties only the invariants of `LuaVM` are left.

The assumptions are those named in the modules: lines typed differ from the
DLL's own texts, `MaxDepth` and `MaxStreams` are positive, keys are integers,
the special values are none of the ordinary ones, a pool is a heap that
refers to what it has, and the keys of a table are the numbers `1..MaxKey`,
with `MaxKey` at most `MAX_INT`, and any strings and objects. The theorems
about `LuaGC` assume nothing of the program: it may use `lua_setupvalue` on any
function. They say what holds until it leaves a white value in a black upvalue
(`missed`); after that they are false, as `lua_gc_setupvalue` shows.

### The inductive invariants

*LinesNeverReplay.* The refinement needs more than the stage of a line: that
the frames form a stack (`Shape`), that an overlapped buffer is torn and who is
writing (`Races`), that any line found anywhere was typed (`Known`) and that a
line which may still become the content of the buffer is not retired and in no
frame (`Fresh`). `IInv` is their conjunction. The delicate case is the end of
an overlapped assignment, where the text left may be that of the other thread:
`Fresh` speaks of the set `clash` of texts that may be left.

*LoadNeverRestarts* rests on `LoadDone`: once the record is set there is no
copy of `load.lua` in the buffer, in `clash`, or in a frame before its parse,
and no activation about to post one. It is why an inner activation may complete
the load that an outer one began, without the outer one beginning again.

*HonestUnlessIntruded.* `Untouched`: a frame that serves a site of the DLL and
was not intruded upon finds what it posted in the buffer until it loads, with
nobody writing, then in its chunk, and after a run without error among the
texts that have completed. A press that has not begun to write yet is no
intrusion, hence `PressWrites`.

*LoadOnce.* `LoadAlone` says where the one copy of `load.lua` is: with the
frame on top, on its way from the post to the record, unless the load was
intruded upon. `Posting` is needed for the bootstrap's test of `execute`, which
only this thread takes down.

*FramesAreSnapshots.* `Holder` (who has the mutex), `Drawing` (while the loop
runs, what is drawn agrees with `dev_texts` on the keys passed, and these are
downward closed) and `Ready` (the font belongs to the device that is drawn).
A step of the Lua thread maps to `Put` or `Clear`, the release to `Draw`.

*WholeDumpsStay.* `OpenIsHarmless`: when `dump_file.open` is reached, there is
no file, or the stream is open already or none is left, and the open fails.
*DirsHoldDumps.* `DumpsFollow`: a directory without a whole dump in it or further
down is one that the dump under way has just made, and it will write the dump.
*NothingOnlyAtLimit.* `OnlyAtLimit`: between two dumps `dump_file` is closed,
so that streams run out by leaked handles only. *NoForeignCast.*
`OffAfterCamera`.

*PauseMenu.* `Captured` counts the captures of each function at each stage of a
load, `Reached` says that whoever can call a patched function finds its
original kept, `Restores` that the boost is reachable only after the nitro menu
was loaded and what it then captured; `Ready` which menus exist once the
patches can make them active, after any sequence of failed loads, and `Drawn`
that a selection redraws the label. The model is finite, so TLC has already
checked these for all its states; the proofs record which facts they rest on.

*LuaTable.* `TableInv` is `Sound(t)`, that `d` is what `t` gives, and
`Traversed`: a traversal has seen the keys up to the place where `findindex`
finds its key. `NodesSound` alone is not inductive: it says nothing of nodes
without a value, which newkey and the collector leave in the chains. `Sound`
says of every node ever used, removed keys included, that it is in the chain
from its main position, and that this has a key of its own there (`Homed`).
Chains do not meet (`Linked`) and end (`Ranked`: a rank falls along them). The
rank also falls from a key to copies of it that the collector removed: a string
or table may come back as a key after the removal, in front of the dead copy,
and a traversal that stands at it must find the live one. A key has one place
(`Single`), and `getfreepos` has passed only used nodes (`Freed`).

`On(x, i, j)`, that j is in the chain from i, is stated by the sets closed under
`next`, so that no recursion is needed; `GetnodeFacts` says that the search of
the code finds just these. Then come the functions, each with what it makes
every key give: `insert` in its three cases (a free main position, Brent's move
of an intruder to a free node, a new node after the head), `assign`, the
collector, `resize` (that the nodes suffice for the keys, by counting them),
`computesizes` and `rehash`, `luaH_set`, `luaH_getn` (both searches end at a
border), the loops of the libraries and `luaH_next`. The actions map to those of
`LuaDictionary` one by one: a step of the collector to a stutter or to an
`Assign` of `nil`.

*LuaGC.* `Safe` is the conjunction of eight parts: the heap is well formed
(`HeapOK`) and open upvalues are on stacks that exist (`Homed`); every object
is on the list it belongs on (`ListsOK`), and the marks and the sweep's place
are what they should be (`Marked`, `Sweeping`); `Colours`, which colour is
possible when (nothing is dead but in a sweep, and what the sweep has behind it
has the new white); `LiveClosed`, what the roots or anything not dead refers to
is not dead; `Marking`, the tricolour invariant. The last one
(`Tri` of `LuaGCLemmas`) is more than that black does not refer to white: what
is gray is on one of the three lists, threads and open upvalues never turn
black, no closed upvalue stays gray, and the userdata that `luaC_fullgc` left on `tmudata` are exempt.
`LiveClosed` follows at the end of `atomic` from what four rounds of
propagation reach; in a sweep it is kept because all the program can read is
live, and a dead string or upvalue that it finds again is turned white by hand.

The proof goes by the way a step changes the heap: a value put on a stack,
possibly with new objects (`Puts`), a store with a barrier (`Stores`, `Bars`),
closed upvalues, or no change, and then by the phases of a collection.
`SetInduction` and `NatLess` stand in for induction, and the least set
of `From` is reasoned about through the sets closed under references.

*CycleCollects.* `Doom`: what is doomed is referred to by nothing else (`Lost`),
is white while the collector marks, dead while it sweeps, and gone after. A
step of the program adds references only to what the roots reach (`Grow`), and
leaves the colours of what is lost (`Pale`).

### What the proofs have changed

Three formulas of the models that TLC had accepted turned out to be wrong, or
right by the smallness of the instance, when their proofs failed.

* `LuaExec`: a torn text could not nest, so `LoadOnce` was too strong: when what
  runs in place of `load.lua` is a mixture of two texts, an activation inside it
  can load `load.lua` a second time. `intruded` now says so, and in
  `lua_exec_nested` torn texts do nest.
* `NotFinalizedInUse` said `Reach`: but a userdata may be reachable only from
  another one that waits for its finalizer since `luaC_fullgc` interrupted
  `GCSfinalize`, and is then finalized itself. It says `InUse` now.
* `doomed` was compared with `Reach` after the step only. `atomic` clears weak
  tables after it has decided on the userdata to finalize, so what these led to
  through them just before has to be taken out as well.

### Only model-checked

* Liveness (`FlagConsumed`, `ConfigEventually`, `BootEventually`, `LuaReturns`):
  fairness and `ENABLED` are beyond the prover.
* `LuaVM`: the compiler, the matcher, `luaV_gettable` and `luaV_concat` are
  recursive operators, which the prover does not accept in a module with
  theorems or below it; what the compiler makes of every text would be
  induction over data in any case.

## 5. What is not modelled, and the plan

Abstractions of the present modules: every console line is typed at most once
and is not one of the DLL's own texts (an empty line is a line like any other);
the end of the console's input is not modelled; the scripts are one chunk in
`LuaExec` and stages in `PauseMenu`; which element of the device data the input
hook reads, how a script's name is cut out of a chunk, and the text a `print`
builds are left out.

In Lua: numbers are integers; stacks do not move and hooks are off; of the
libraries, `print`, `next`, `pairs`, `getfenv`, `setfenv`, `string.format`,
`string.dump`, `table.foreach`, `sort` with an order function and a `gsub`
whose table has a metatable are missing, and all of `io`, `os`, `math`, `debug`
and `package`. Of `lapi.c` there is what the collector and the machine need;
`ldump.c`, `lundump.c`, `lmem.c`, `lzio.c`, the stand-alone programs and the
build files are not modelled.

Next, in this order:

1. `LuaStack`: the Lua stack under the hook's helpers. Each path through
   `lua_pcall_hook` leaves the height it found, table operations meet tables,
   and the slots used without `lua_checkstack` stay within Lua's reserve.
   Balance and bound as theorems.
2. `Bootstrap`: an abstract specification of "load until one load succeeds",
   implemented by `LuaExec` and used by `PauseMenu`, so that the two compose.
3. `Startup`: the order of `install_hooks` against calls already in flight, the
   failing paths of the dummy devices, the end of the console's input, Lua
   globals that the game makes anew.
4. `ChunkName`, `PrintOverride` and `DeviceData`: the name arithmetic with
   32-bit wrap-around, the text of a print, and the input hook against the
   queue of DirectInput.
