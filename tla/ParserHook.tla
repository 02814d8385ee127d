----------------------------- MODULE ParserHook -----------------------------
(***************************************************************************)
(* luad_protectedparser_hook and dump_luac: every chunk the game parses    *)
(* passes here.  A chunk that names a compiled script is dumped below      *)
(* dumps\luac, and replaced by the user's file below dumps\lua if there is *)
(* one.  The files outlive the game, the static variables do not.          *)
(*                                                                         *)
(* dump_luac is modelled call by call, since what a stream does depends on *)
(* the files, on the directories and on how many streams are open: the C   *)
(* runtime has a fixed number, and the hook never closes the FILE by which *)
(* it probes for the user's file.                                          *)
(***************************************************************************)
EXTENDS Integers

CONSTANTS
    Scripts,      \* names of compiled scripts, as extracted from the chunk
    DirOf,        \* the directory of each script below dumps\luac
    Above,        \* the directories above each directory
    Camera,       \* visuals\camera\cameras\camera_functions.luac
    MaxStreams    \* streams the C runtime can have open

ASSUME CameraAssumption  == Camera \in Scripts
ASSUME StreamsAssumption == MaxStreams \in Nat \ {0}
ASSUME DirsAssumption ==
    /\ \A n \in Scripts : DirOf[n] \in DOMAIN Above
    /\ \A d \in DOMAIN Above : Above[d] \subseteq DOMAIN Above

VARIABLES
    safe,               \* the static variable of the hook
    pc, name,           \* where the hook is, and buffer_name
    dump_open,          \* dump_file is open
    handles,            \* FILEs opened by the hook and never closed
    parsed,             \* what the last call gave to the original parser
    dirs, dumps,        \* dumps\luac: directories, and the content of files
    lua_files,          \* dumps\lua: the decompiled scripts of the user
    camera,             \* the game has loaded Camera
    cast, seen, broken  \* history: what was read as a load_s, the scripts
                        \* seen, and whether a dump was cut short

files == <<dirs, dumps, lua_files>>
vars  == <<safe, pc, name, dump_open, handles, parsed, files, camera, cast, seen, broken>>

\* What z->data may point to: the LoadS of luaL_loadbuffer, with a chunk that
\* names a script or with another text, the LoadF of luaL_loadfile (whose
\* first field is 0 or 1), or the state of the game's own reader.
Kinds == {"script", "text", "file", "foreign"}

\* The directories a script lies in, directly or further down.
DirsOf(n) == {DirOf[n]} \cup Above[DirOf[n]]

TypeOK ==
    /\ safe \in BOOLEAN /\ camera \in BOOLEAN /\ dump_open \in BOOLEAN
    /\ pc \in {"idle", "check", "open", "write", "probe", "read"}
    /\ name \in Scripts
    /\ handles \in 0..MaxStreams
    /\ parsed \in {"original", "decompiled", "nothing"}
    /\ dirs \subseteq DOMAIN Above
    /\ dumps \in [Scripts -> {"none", "empty", "whole"}]
    /\ lua_files \subseteq Scripts
    /\ cast \subseteq Kinds /\ seen \subseteq Scripts /\ broken \in BOOLEAN

Init ==
    /\ safe = TRUE /\ pc = "idle" /\ name = Camera /\ dump_open = FALSE
    /\ handles = 0 /\ parsed = "original"
    /\ dirs = {} /\ dumps = [n \in Scripts |-> "none"] /\ lua_files = {}
    /\ camera = FALSE /\ cast = {} /\ seen = {} /\ broken = FALSE

-----------------------------------------------------------------------------
(* The hook.  The game parses with its own reader only after Camera.       *)

StreamsLeft == MaxStreams - handles - (IF dump_open THEN 1 ELSE 0)

pass_through(kind) ==
    /\ pc = "idle"
    /\ ~safe \/ kind = "file"
    /\ kind = "foreign" => camera
    /\ parsed' = "original"
    /\ UNCHANGED <<safe, pc, name, dump_open, handles, files, camera, cast, seen, broken>>

\* Mutant of load_text: the test that the name is that of a compiled script is
\* left out, and the text is dumped under a name that is none.
load_text_dumped(kind) ==
    /\ pc = "idle"
    /\ safe /\ kind \notin {"file", "script"}
    /\ kind = "foreign" => camera
    /\ name' = kind /\ pc' = "check"
    /\ cast' = cast \cup {kind}
    /\ UNCHANGED <<safe, dump_open, handles, parsed, files, camera, seen, broken>>

\* z->data is read as a load_s, and its content names no script.
load_text(kind) ==
    /\ pc = "idle"
    /\ safe /\ kind \notin {"file", "script"}
    /\ kind = "foreign" => camera
    /\ parsed' = "original"
    /\ cast' = cast \cup {kind}
    /\ UNCHANGED <<safe, pc, name, dump_open, handles, files, camera, seen, broken>>

\* Mutant of load_script: the hook does not switch itself off after Camera.
load_script_always(n) ==
    /\ pc = "idle" /\ safe
    /\ camera' = (camera \/ n = Camera)
    /\ UNCHANGED safe
    /\ name' = n
    /\ dump_open' = (DirOf[n] \in dirs /\ dumps[n] = "none" /\ StreamsLeft > 0)
    /\ dumps' = [dumps EXCEPT ![n] = IF dump_open' THEN "empty" ELSE @]
    /\ pc' = "check"
    /\ cast' = cast \cup {"script"} /\ seen' = seen \cup {n}
    /\ UNCHANGED <<handles, parsed, dirs, lua_files, broken>>

\* Mutant of load_script: the directory is made before dump_file.
load_script_mkdir_first(n) ==
    /\ pc = "idle" /\ safe
    /\ camera' = (camera \/ n = Camera)
    /\ safe' = (n # Camera)
    /\ name' = n
    /\ dump_open' = (dumps[n] = "none" /\ StreamsLeft > 0)
    /\ dumps' = [dumps EXCEPT ![n] = IF dump_open' THEN "empty" ELSE @]
    /\ pc' = "check"
    /\ cast' = cast \cup {"script"} /\ seen' = seen \cup {n}
    /\ dirs' = dirs \cup DirsOf(n)
    /\ UNCHANGED <<handles, parsed, lua_files, broken>>

\* It names the script n; dump_luac starts with the constructor of dump_file,
\* which creates the file if its directory is there and it is not.
load_script(n) ==
    /\ pc = "idle" /\ safe
    /\ camera' = (camera \/ n = Camera)
    /\ safe' = (n # Camera)
    /\ name' = n
    /\ dump_open' = (DirOf[n] \in dirs /\ dumps[n] = "none" /\ StreamsLeft > 0)
    /\ dumps' = [dumps EXCEPT ![n] = IF dump_open' THEN "empty" ELSE @]
    /\ pc' = "check"
    /\ cast' = cast \cup {"script"} /\ seen' = seen \cup {n}
    /\ UNCHANGED <<handles, parsed, dirs, lua_files, broken>>

\* Mutant of dump_check: the file is dumped again whether it exists or not.
dump_check_missing ==
    /\ pc = "check"
    /\ pc' = "open" /\ dirs' = dirs \cup DirsOf(name)
    /\ UNCHANGED <<safe, name, dump_open, handles, parsed, dumps, lua_files,
                   camera, cast, seen, broken>>

\* std::ifstream(dump_path).good(), then create_directories, which makes the
\* directories above that of the dump as well.
dump_check ==
    /\ pc = "check"
    /\ \/ /\ dumps[name] # "none" /\ StreamsLeft > 0
          /\ pc' = "probe" /\ dump_open' = FALSE
          /\ UNCHANGED dirs
       \/ /\ dumps[name] = "none" \/ StreamsLeft = 0
          /\ pc' = "open" /\ dirs' = dirs \cup DirsOf(name)
          /\ UNCHANGED dump_open
    /\ UNCHANGED <<safe, name, handles, parsed, dumps, lua_files, camera, cast, seen, broken>>

\* dump_file.open(...) truncates; it fails if dump_file is open already or
\* no stream is left, and a failed stream writes nothing.
dump_open_file ==
    /\ pc = "open"
    /\ \/ /\ ~dump_open /\ StreamsLeft > 0
          /\ dump_open' = TRUE
          /\ dumps' = [dumps EXCEPT ![name] = "empty"]
          /\ pc' = "write"
          /\ UNCHANGED broken
       \/ /\ dump_open \/ StreamsLeft = 0
          /\ dump_open' = FALSE
          /\ pc' = "probe"
          /\ broken' = TRUE
          /\ UNCHANGED dumps
    /\ UNCHANGED <<safe, name, handles, parsed, dirs, lua_files, camera, cast, seen>>

dump_write ==
    /\ pc = "write"
    /\ dumps' = [dumps EXCEPT ![name] = "whole"]
    /\ dump_open' = FALSE
    /\ pc' = "probe"
    /\ UNCHANGED <<safe, name, handles, parsed, dirs, lua_files, camera, cast, seen, broken>>

\* Mutant of fopen_probe: the branch is taken without opening the file.
fopen_probe_blind ==
    /\ pc = "probe"
    /\ pc' = "read"
    /\ UNCHANGED <<safe, name, dump_open, handles, parsed, files, camera, cast, seen, broken>>

\* if (FILE *f = fopen(lua_path.c_str(), "r"))
fopen_probe ==
    /\ pc = "probe"
    /\ \/ /\ name \in lua_files /\ StreamsLeft > 0
          /\ handles' = handles + 1
          /\ pc' = "read"
          /\ UNCHANGED parsed
       \/ /\ name \notin lua_files \/ StreamsLeft = 0
          /\ parsed' = "original"
          /\ pc' = "idle"
          /\ UNCHANGED handles
    /\ UNCHANGED <<safe, name, dump_open, files, camera, cast, seen, broken>>

\* The std::ifstream whose content replaces the chunk; one that does not open
\* yields no characters.
ifstream_read ==
    /\ pc = "read"
    /\ parsed' = IF name \in lua_files /\ StreamsLeft > 0 THEN "decompiled" ELSE "nothing"
    /\ pc' = "idle"
    /\ UNCHANGED <<safe, name, dump_open, handles, files, camera, cast, seen, broken>>

luad_protectedparser_hook ==
    \/ \E kind \in Kinds : pass_through(kind) \/ load_text(kind)
    \/ \E n \in Scripts : load_script(n)
    \/ dump_check \/ dump_open_file \/ dump_write \/ fopen_probe \/ ifstream_read

-----------------------------------------------------------------------------
(* Around the hook *)

\* The user decompiles a dump and puts the result below dumps\lua.
user_decompiles ==
    /\ \E n \in Scripts : dumps[n] = "whole" /\ lua_files' = lua_files \cup {n}
    /\ UNCHANGED <<safe, pc, name, dump_open, handles, parsed, dirs, dumps, camera,
                   cast, seen, broken>>

\* The game ends, by itself or in the middle of the hook, and starts again.
restart ==
    /\ safe' = TRUE /\ camera' = FALSE /\ handles' = 0
    /\ pc' = "idle" /\ dump_open' = FALSE /\ parsed' = "original" /\ name' = Camera
    /\ broken' = (broken \/ pc # "idle")
    /\ UNCHANGED <<files, cast, seen>>

Next == luad_protectedparser_hook \/ user_decompiles \/ restart

Spec == Init /\ [][Next]_vars

-----------------------------------------------------------------------------
(* Properties *)

\* "File already exists, don't overwrite": a dump that is whole stays whole,
\* over any number of loads, restarts and exhausted streams.
WholeDumpsStay == [][\A n \in Scripts : dumps[n] = "whole" => dumps'[n] = "whole"]_vars

\* The state of the game's own reader is never read as a load_s.
NoForeignCast == "foreign" \notin cast

\* A script is parsed as nothing only when the FILEs the hook has leaked are
\* all the streams there are.
NothingOnlyAtLimit == parsed = "nothing" => handles = MaxStreams

\* create_directories is reached only on the way to a dump: unless a dump was
\* cut short, each directory has a whole one in it or further down.
DirsHoldDumps ==
    pc = "idle" /\ ~broken =>
        \A d \in dirs : \E n \in Scripts : d \in DirsOf(n) /\ dumps[n] = "whole"

\* README: "Dump luac files from game to gamedir/dumps/luac."  Every script the
\* hook has seen is dumped, if the game never ended inside the hook and no
\* dump failed for want of a stream.
SeenIsDumped ==
    pc = "idle" /\ ~broken => \A n \in seen : dumps[n] = "whole"
=============================================================================
