--------------------------- MODULE MCParserHook ---------------------------
(***************************************************************************)
(* A small instance of ParserHook for TLC: two scripts in one directory,   *)
(* the camera script in cameras, and one more in visuals, which is above   *)
(* cameras and so is made for the camera script.                           *)
(***************************************************************************)
EXTENDS ParserHook

CONSTANTS hud, menu, sky, ui, cameras, visuals

MCDirOf == [n \in Scripts |-> CASE n \in {hud, menu} -> ui
                              [] n = sky           -> visuals
                              [] n = Camera        -> cameras]

MCAbove == [d \in {ui, cameras, visuals} |-> IF d = cameras THEN {visuals} ELSE {}]
=============================================================================
