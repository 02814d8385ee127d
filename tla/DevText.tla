------------------------------ MODULE DevText ------------------------------
(***************************************************************************)
(* The texts of the development menus: the overrides of the game's         *)
(* Development functions fill the map dev_texts on the Lua thread, and     *)
(* present_hook draws it on the render thread, text by text.  Both take    *)
(* dev_text_mutex, a shared_mutex: exclusively in the overrides, shared in *)
(* present_hook.                                                           *)
(***************************************************************************)
EXTENDS Integers

CONSTANTS
    Indices,    \* the keys of dev_texts, drawn in increasing order
    Texts,      \* a text with its position, colour and scale
    NoText,     \* no entry at a key
    Devices,    \* the Direct3D devices the game renders with
    NoFont,     \* p_font and p_sprite before end_scene_hook made them
    BadFont     \* D3DXCreateFont or D3DXCreateSprite failed

ASSUME IndicesAssumption == Indices \subseteq Int
ASSUME NoTextAssumption  == NoText \notin Texts
ASSUME FontAssumption    == NoFont \notin Devices \cup {BadFont} /\ BadFont \notin Devices

VARIABLES
    dev_texts,                         \* [Indices -> Texts \cup {NoText}]
    lock,                              \* who holds dev_text_mutex
    development_overridden,
    lua, call,                         \* the Lua thread and the call it is in
    first_call, p_font, p_my_device,   \* what end_scene_hook sets up once
    render, device,                    \* the render thread, and p_device
    passed, drawn,                     \* its iteration over dev_texts
    frame                              \* the texts of the last frame drawn

font  == <<first_call, p_font, p_my_device>>
luav  == <<development_overridden, lua, call>>
paint == <<render, device, passed, drawn, frame>>
vars  == <<dev_texts, lock, luav, font, paint>>

Blank == [i \in Indices |-> NoText]

\* A call of one of the five overrides.  "bad" is an add2DText or eraseText
\* whose arguments it rejects, or on which std::stoi or std::stof throws.
Calls == [op : {"clear"}] \cup [op : {"erase", "bad"}, index : Indices]
             \cup [op : {"add"}, index : Indices, text : Texts]

TypeOK ==
    /\ dev_texts \in [Indices -> Texts \cup {NoText}]
    /\ lock \in {"free", "lua", "render"}
    /\ development_overridden \in BOOLEAN
    /\ lua \in {"game", "wait", "body"} /\ call \in Calls
    /\ first_call \in BOOLEAN
    /\ p_font \in Devices \cup {NoFont, BadFont}
    /\ p_my_device \in Devices \cup {NoFont}
    /\ render \in {"game", "wait", "draw", "present"}
    /\ device \in Devices \cup {NoFont}
    /\ passed \subseteq Indices
    /\ drawn \in [Indices -> Texts \cup {NoText}]
    /\ frame \in [Indices -> Texts \cup {NoText}]

Init ==
    /\ dev_texts = Blank /\ lock = "free"
    /\ development_overridden = FALSE
    /\ lua = "game" /\ call = [op |-> "clear"]
    /\ first_call = TRUE /\ p_font = NoFont /\ p_my_device = NoFont
    /\ render = "game" /\ device = NoFont
    /\ passed = {} /\ drawn = Blank /\ frame = Blank

-----------------------------------------------------------------------------
(* The Lua thread *)

\* lua_pcall_hook replaces the functions as soon as Development is a table.
override_development ==
    /\ lua = "game"
    /\ ~development_overridden
    /\ development_overridden' = TRUE
    /\ UNCHANGED <<dev_texts, lock, lua, call, font, paint>>

\* A script calls one of the overrides, which asks for the mutex first.
call_override ==
    /\ lua = "game"
    /\ development_overridden
    /\ lua' = "wait"
    /\ call' \in Calls
    /\ UNCHANGED <<dev_texts, lock, development_overridden, font, paint>>

lock_guard ==
    /\ lua = "wait"
    /\ lock = "free"
    /\ lock' = "lua"
    /\ lua' = "body"
    /\ UNCHANGED <<dev_texts, development_overridden, call, font, paint>>

\* The body of an override under the mutex, and the release of the mutex.
in_body(op) ==
    /\ lua = "body" /\ call.op = op
    /\ lua' = "game"
    /\ lock' = "free"
    /\ UNCHANGED <<development_overridden, call, font, paint>>

\* startBatch, removeBatch and clearScreen
clear == in_body("clear") /\ dev_texts' = Blank

erase_text == in_body("erase") /\ dev_texts' = [dev_texts EXCEPT ![call.index] = NoText]

add_2d_text == in_body("add") /\ dev_texts' = [dev_texts EXCEPT ![call.index] = call.text]

\* Mutant of reject: dev_texts[index] is made before std::stof throws.
reject_leaving_entry ==
    in_body("bad") /\ dev_texts' = [dev_texts EXCEPT ![call.index] = "default"]

\* An early return or an exception: every check and conversion comes before
\* the assignment to dev_texts, and unwinding releases the mutex.
reject == in_body("bad") /\ UNCHANGED dev_texts

-----------------------------------------------------------------------------
(* The render thread *)

\* end_scene_hook makes the font for the first device that ends a scene.
end_scene_hook ==
    /\ render = "game"
    /\ first_call
    /\ \E d \in Devices : p_my_device' = d /\ p_font' \in {d, BadFont}
    /\ first_call' = FALSE
    /\ UNCHANGED <<dev_texts, lock, luav, paint>>

\* Mutant of present_hook: it draws on any device.
present_hook_any_device ==
    /\ render = "game"
    /\ device' \in Devices
    /\ render' = "wait"
    /\ UNCHANGED <<dev_texts, lock, luav, font, passed, drawn, frame>>

\* The game presents a device; only p_my_device gets the texts.
present_hook ==
    /\ render = "game"
    /\ device' \in Devices
    /\ render' = IF device' = p_my_device THEN "wait" ELSE "present"
    /\ UNCHANGED <<dev_texts, lock, luav, font, passed, drawn, frame>>

\* Mutant of shared_lock: the map is read without the mutex.
shared_lock_missing ==
    /\ render = "wait"
    /\ render' = "draw"
    /\ passed' = {} /\ drawn' = Blank
    /\ UNCHANGED <<dev_texts, lock, luav, font, device, frame>>

shared_lock ==
    /\ render = "wait"
    /\ lock = "free"
    /\ lock' = "render"
    /\ render' = "draw"
    /\ passed' = {} /\ drawn' = Blank
    /\ UNCHANGED <<dev_texts, luav, font, device, frame>>

\* The keys the iterator has still to come to.
Ahead == {i \in Indices \ passed : dev_texts[i] # NoText}

draw_message ==
    /\ render = "draw"
    /\ \E i \in Ahead :
          /\ \A j \in Ahead : i <= j
          /\ passed' = {j \in Indices : j <= i}
          /\ drawn' = [drawn EXCEPT ![i] = dev_texts[i]]
    /\ UNCHANGED <<dev_texts, lock, luav, font, render, device, frame>>

\* Mutant of shared_unlock: the lock lives until present_hook returns, which
\* is after the original Present.
shared_unlock_late ==
    /\ render = "draw"
    /\ Ahead = {}
    /\ render' = "present"
    /\ frame' = drawn
    /\ UNCHANGED <<dev_texts, lock, luav, font, device, passed, drawn>>

\* The end of the iterator, and of the scope of the lock.
shared_unlock ==
    /\ render = "draw"
    /\ Ahead = {}
    /\ lock' = "free"
    /\ render' = "present"
    /\ frame' = drawn
    /\ UNCHANGED <<dev_texts, luav, font, device, passed, drawn>>

\* The original Present returns, which may wait for the display.
o_present ==
    /\ render = "present"
    /\ render' = "game"
    /\ UNCHANGED <<dev_texts, lock, luav, font, device, passed, drawn, frame>>

LuaThread == \/ override_development \/ call_override \/ lock_guard
             \/ clear \/ erase_text \/ add_2d_text \/ reject

RenderThread == \/ end_scene_hook \/ present_hook \/ shared_lock \/ draw_message
                \/ shared_unlock \/ o_present

Next == LuaThread \/ RenderThread

Spec == Init /\ [][Next]_vars

\* A thread inside the hooks' own code runs on, and the mutex lets a waiting
\* thread in if it is free again and again.  Present need never return: the
\* window may be minimised, or the display slow.
Fairness ==
    /\ SF_vars(lock_guard)
    /\ WF_vars(clear \/ erase_text \/ add_2d_text \/ reject)
    /\ WF_vars(draw_message \/ shared_unlock)

FairSpec == Spec /\ Fairness

-----------------------------------------------------------------------------
(* Properties *)

Abstract == INSTANCE Screen WITH up <- dev_texts

\* A frame that present_hook draws text by text shows what dev_texts holds at
\* one moment, although the Lua thread changes dev_texts between frames.
FramesAreSnapshots == Abstract!Spec

\* present_hook draws on a device only once end_scene_hook has tried to make
\* the font and the sprite for that very device.
FontOfDevice == render = "draw" => p_font \in {device, BadFont}

\* A Lua call of an override returns even if Present never does.
LuaReturns == lua = "wait" ~> lua = "game"
=============================================================================
