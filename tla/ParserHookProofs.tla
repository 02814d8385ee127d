-------------------------- MODULE ParserHookProofs --------------------------
(***************************************************************************)
(* Proofs about the parser hook: what it dumped it keeps, and it never     *)
(* takes the game's own reader for a LoadS.                                *)
(***************************************************************************)
EXTENDS ParserHook, TLAPS

USE DEF files

LEMMA TypeStep == TypeOK /\ [Next]_vars => TypeOK'
  <1> SUFFICES ASSUME TypeOK, [Next]_vars PROVE TypeOK'
    OBVIOUS
  <1> USE CameraAssumption, StreamsAssumption DEF TypeOK
  <1>1. ASSUME NEW kind \in Kinds, pass_through(kind) PROVE TypeOK'
    BY <1>1 DEF pass_through
  <1>2. ASSUME NEW kind \in Kinds, load_text(kind) PROVE TypeOK'
    BY <1>2 DEF load_text
  <1>3. ASSUME NEW n \in Scripts, load_script(n) PROVE TypeOK'
    <2>1. dumps' \in [Scripts -> {"none", "empty", "whole"}]
      BY <1>3 DEF load_script
    <2>2. safe' \in BOOLEAN /\ camera' \in BOOLEAN /\ dump_open' \in BOOLEAN
      BY <1>3 DEF load_script
    <2> QED
      BY <1>3, <2>1, <2>2 DEF load_script, Kinds
  <1>4. CASE dump_check
    BY <1>4, DirsAssumption DEF dump_check, DirsOf
  <1>5. CASE dump_open_file
    BY <1>5 DEF dump_open_file
  <1>6. CASE dump_write
    BY <1>6 DEF dump_write
  <1>7. CASE fopen_probe
    BY <1>7 DEF fopen_probe, StreamsLeft
  <1>8. CASE ifstream_read
    BY <1>8 DEF ifstream_read
  <1>9. CASE user_decompiles
    BY <1>9 DEF user_decompiles
  <1>10. CASE restart
    <2>1. 0 \in 0..MaxStreams
      OBVIOUS
    <2>2. safe' = TRUE /\ camera' = FALSE /\ dump_open' = FALSE /\ broken' \in BOOLEAN
      BY <1>10 DEF restart
    <2>3. handles' = 0 /\ pc' = "idle" /\ parsed' = "original" /\ name' = Camera
      BY <1>10 DEF restart
    <2>4. UNCHANGED <<files, cast, seen>>
      BY <1>10 DEF restart
    <2> QED
      BY <2>1, <2>2, <2>3, <2>4
  <1>11. CASE UNCHANGED vars
    BY <1>11 DEF vars
  <1> QED
    BY <1>1, <1>2, <1>3, <1>4, <1>5, <1>6, <1>7, <1>8, <1>9, <1>10, <1>11
    DEF Next, luad_protectedparser_hook

\* Type correctness of the hook's variables and of the files it makes.
THEOREM TypeCorrect == Spec => []TypeOK
  <1>1. Init => TypeOK
    <2> SUFFICES ASSUME Init PROVE TypeOK
      OBVIOUS
    <2>1. handles \in 0..MaxStreams
      BY StreamsAssumption DEF Init
    <2>2. dumps \in [Scripts -> {"none", "empty", "whole"}]
      BY DEF Init
    <2>3. name \in Scripts
      BY CameraAssumption DEF Init
    <2>4. dirs = {} /\ lua_files = {} /\ cast = {} /\ seen = {}
      BY DEF Init
    <2> QED
      BY <2>1, <2>2, <2>3, <2>4 DEF Init, TypeOK
  <1> QED
    BY <1>1, TypeStep, PTL DEF Spec

\* When dump_file is about to be opened for truncation, either there is no
\* file or the open is going to fail.
OpenIsHarmless == pc = "open" => dumps[name] = "none" \/ dump_open \/ StreamsLeft = 0

\* Once the game may use its own reader, the hook is switched off.
OffAfterCamera == (camera => ~safe) /\ "foreign" \notin cast

LEMMA HarmlessStep == TypeOK /\ OpenIsHarmless /\ [Next]_vars => OpenIsHarmless'
  <1> SUFFICES ASSUME TypeOK, OpenIsHarmless, [Next]_vars, pc' = "open"
               PROVE  (dumps[name] = "none" \/ dump_open \/ StreamsLeft = 0)'
    BY DEF OpenIsHarmless
  <1>1. CASE dump_check
    BY <1>1 DEF dump_check, StreamsLeft
  <1>2. CASE user_decompiles \/ UNCHANGED vars
    BY <1>2 DEF user_decompiles, vars, OpenIsHarmless, StreamsLeft
  <1>3. ~ \E kind \in Kinds : pass_through(kind) \/ load_text(kind)
    BY DEF pass_through, load_text
  <1>4. ~ \E n \in Scripts : load_script(n)
    BY DEF load_script
  <1>5. ~(dump_open_file \/ dump_write \/ fopen_probe \/ ifstream_read \/ restart)
    BY DEF dump_open_file, dump_write, fopen_probe, ifstream_read, restart
  <1> QED
    BY <1>1, <1>2, <1>3, <1>4, <1>5 DEF Next, luad_protectedparser_hook

LEMMA KeepStep ==
    TypeOK /\ OpenIsHarmless /\ [Next]_vars
        => \A n \in Scripts : dumps[n] = "whole" => dumps'[n] = "whole"
  <1> SUFFICES ASSUME TypeOK, OpenIsHarmless, [Next]_vars,
                      NEW n \in Scripts, dumps[n] = "whole"
               PROVE  dumps'[n] = "whole"
    OBVIOUS
  <1>1. ASSUME NEW m \in Scripts, load_script(m) PROVE dumps'[n] = "whole"
    BY <1>1 DEF load_script, TypeOK
  <1>2. CASE dump_open_file
    BY <1>2 DEF dump_open_file, OpenIsHarmless, TypeOK
  <1>3. CASE dump_write
    BY <1>3 DEF dump_write, TypeOK
  <1>4. \A kind \in Kinds : pass_through(kind) \/ load_text(kind) => UNCHANGED dumps
    BY DEF pass_through, load_text
  <1>5. dump_check \/ fopen_probe \/ ifstream_read \/ user_decompiles \/ restart \/ UNCHANGED vars
          => UNCHANGED dumps
    BY DEF dump_check, fopen_probe, ifstream_read, user_decompiles, restart, vars
  <1> QED
    BY <1>1, <1>2, <1>3, <1>4, <1>5 DEF Next, luad_protectedparser_hook

\* A dump that is whole is never truncated, over any loads, restarts, limits
\* on streams and names of scripts.
THEOREM DumpsAreKept == Spec => WholeDumpsStay
  <1>1. Init => OpenIsHarmless
    BY DEF Init, OpenIsHarmless
  <1>2. Spec => [](TypeOK /\ OpenIsHarmless)
    BY <1>1, HarmlessStep, TypeCorrect, PTL DEF Spec
  <1> QED
    BY <1>2, KeepStep, PTL DEF Spec, WholeDumpsStay

LEMMA OffStep == TypeOK /\ OffAfterCamera /\ [Next]_vars => OffAfterCamera'
  <1> SUFFICES ASSUME TypeOK, OffAfterCamera, [Next]_vars PROVE OffAfterCamera'
    OBVIOUS
  <1> USE DEF OffAfterCamera
  <1>1. ASSUME NEW kind \in Kinds, pass_through(kind) PROVE OffAfterCamera'
    BY <1>1 DEF pass_through
  <1>2. ASSUME NEW kind \in Kinds, load_text(kind) PROVE OffAfterCamera'
    BY <1>2 DEF load_text
  <1>3. ASSUME NEW n \in Scripts, load_script(n) PROVE OffAfterCamera'
    BY <1>3 DEF load_script, TypeOK
  <1>4. CASE restart
    BY <1>4 DEF restart
  <1>5. dump_check \/ dump_open_file \/ dump_write \/ fopen_probe \/ ifstream_read
          \/ user_decompiles \/ UNCHANGED vars => UNCHANGED <<safe, camera, cast>>
    BY DEF dump_check, dump_open_file, dump_write, fopen_probe, ifstream_read,
       user_decompiles, vars
  <1> QED
    BY <1>1, <1>2, <1>3, <1>4, <1>5 DEF Next, luad_protectedparser_hook

\* The state of the game's own reader is never read as a load_s.
THEOREM ForeignNeverCast == Spec => []NoForeignCast
  <1>1. Init => OffAfterCamera
    BY DEF Init, OffAfterCamera
  <1>2. OffAfterCamera => NoForeignCast
    BY DEF OffAfterCamera, NoForeignCast
  <1> QED
    BY <1>1, <1>2, OffStep, TypeCorrect, PTL DEF Spec

\* Between dumps dump_file is closed, and the hook reads a decompiled script
\* only after it has opened it; then the streams run out only by handles.
OnlyAtLimit ==
    /\ NothingOnlyAtLimit
    /\ pc = "read" => name \in lua_files
    /\ pc \in {"idle", "probe", "read"} => ~dump_open

LEMMA LimitStep == TypeOK /\ OnlyAtLimit /\ [Next]_vars => OnlyAtLimit'
  <1> SUFFICES ASSUME TypeOK, OnlyAtLimit, [Next]_vars PROVE OnlyAtLimit'
    OBVIOUS
  <1> USE DEF OnlyAtLimit, NothingOnlyAtLimit
  <1>1. ASSUME NEW kind \in Kinds, pass_through(kind) \/ load_text(kind) PROVE OnlyAtLimit'
    BY <1>1 DEF pass_through, load_text
  <1>2. ASSUME NEW n \in Scripts, load_script(n) PROVE OnlyAtLimit'
    BY <1>2 DEF load_script
  <1>3. CASE dump_check
    BY <1>3 DEF dump_check
  <1>4. CASE dump_open_file
    BY <1>4 DEF dump_open_file
  <1>5. CASE dump_write
    BY <1>5 DEF dump_write
  <1>6. CASE fopen_probe
    <2>1. handles = MaxStreams => StreamsLeft <= 0
      BY <1>6, StreamsAssumption DEF TypeOK, StreamsLeft
    <2> QED
      BY <1>6, <2>1 DEF fopen_probe, StreamsLeft, TypeOK
  <1>7. CASE ifstream_read
    <2>1. ~(StreamsLeft > 0) => handles = MaxStreams
      BY <1>7, StreamsAssumption DEF ifstream_read, TypeOK, StreamsLeft
    <2> QED
      BY <1>7, <2>1 DEF ifstream_read
  <1>8. CASE user_decompiles
    BY <1>8 DEF user_decompiles
  <1>9. CASE restart
    BY <1>9 DEF restart
  <1>10. CASE UNCHANGED vars
    BY <1>10 DEF vars
  <1> QED
    BY <1>1, <1>2, <1>3, <1>4, <1>5, <1>6, <1>7, <1>8, <1>9, <1>10
    DEF Next, luad_protectedparser_hook

\* A script is replaced by nothing only when the FILEs the hook has leaked are
\* all the streams there are, however many there are.
THEOREM NothingLostBefore == Spec => []NothingOnlyAtLimit
  <1>1. Init => OnlyAtLimit
    BY DEF Init, OnlyAtLimit, NothingOnlyAtLimit
  <1>2. OnlyAtLimit => NothingOnlyAtLimit
    BY DEF OnlyAtLimit
  <1> QED
    BY <1>1, <1>2, LimitStep, TypeCorrect, PTL DEF Spec

\* A directory without a whole dump is one that the dump under way has made.
DumpsFollow ==
    ~broken => \A d \in dirs :
        \/ \E n \in Scripts : d \in DirsOf(n) /\ dumps[n] = "whole"
        \/ pc \in {"open", "write"} /\ d \in DirsOf(name)

LEMMA FollowStep == TypeOK /\ OpenIsHarmless /\ DumpsFollow /\ [Next]_vars => DumpsFollow'
  <1> SUFFICES ASSUME TypeOK, OpenIsHarmless, DumpsFollow, [Next]_vars, ~broken', NEW d \in dirs'
               PROVE  \/ \E n \in Scripts : d \in DirsOf(n) /\ dumps'[n] = "whole"
                      \/ pc' \in {"open", "write"} /\ d \in DirsOf(name')
    BY DEF DumpsFollow
  <1> DEFINE Held == \E n \in Scripts : d \in DirsOf(n) /\ dumps[n] = "whole"
  <1>1. Held => \E n \in Scripts : d \in DirsOf(n) /\ dumps'[n] = "whole"
    BY KeepStep
  <1>2. ~broken /\ d \in dirs => Held \/ (pc \in {"open", "write"} /\ d \in DirsOf(name))
    BY DEF DumpsFollow
  <1> HIDE DEF Held
  <1>3. ASSUME NEW kind \in Kinds, pass_through(kind) \/ load_text(kind) PROVE Held
    BY <1>2, <1>3 DEF pass_through, load_text
  <1>4. ASSUME NEW n \in Scripts, load_script(n) PROVE Held
    BY <1>2, <1>4 DEF load_script
  <1>5. CASE dump_check
    BY <1>1, <1>2, <1>5 DEF dump_check
  <1>6. CASE dump_open_file
    BY <1>1, <1>2, <1>6 DEF dump_open_file
  <1>7. CASE dump_write
    BY <1>1, <1>2, <1>7 DEF dump_write, TypeOK
  <1>8. CASE fopen_probe \/ ifstream_read
    BY <1>1, <1>2, <1>8 DEF fopen_probe, ifstream_read
  <1>9. CASE user_decompiles \/ UNCHANGED vars
    BY <1>1, <1>2, <1>9 DEF user_decompiles, vars
  <1>10. CASE restart
    BY <1>1, <1>2, <1>10 DEF restart
  <1> QED
    BY <1>1, <1>3, <1>4, <1>5, <1>6, <1>7, <1>8, <1>9, <1>10
    DEF Next, luad_protectedparser_hook

\* Unless a dump was cut short, each directory below dumps\luac has a whole one
\* in it or further down, for all scripts and trees of directories.
THEOREM DirectoriesFilled == Spec => []DirsHoldDumps
  <1>1. Init => OpenIsHarmless /\ DumpsFollow
    BY DEF Init, OpenIsHarmless, DumpsFollow
  <1>2. DumpsFollow => DirsHoldDumps
    BY DEF DumpsFollow, DirsHoldDumps
  <1> QED
    BY <1>1, <1>2, HarmlessStep, FollowStep, TypeCorrect, PTL DEF Spec
=============================================================================
