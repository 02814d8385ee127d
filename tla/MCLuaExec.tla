----------------------------- MODULE MCLuaExec -----------------------------
(***************************************************************************)
(* Small instances of LuaExec for TLC.                                     *)
(***************************************************************************)
EXTENDS LuaExec

\* A typed line and a torn chunk that call pcall.
MCReentrantTorn == Commands \cup {Torn}

\* The toggle calls pcall: the menu it draws runs protected callbacks.
MCReentrantToggle == {ToggleChunk}
=============================================================================
