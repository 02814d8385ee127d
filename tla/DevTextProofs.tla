--------------------------- MODULE DevTextProofs ---------------------------
(***************************************************************************)
(* Proofs about the development texts: the type invariant, and that the    *)
(* overrides and present_hook implement Screen.                            *)
(***************************************************************************)
EXTENDS DevText, TLAPS

USE DEF luav, font, paint

\* The inductive invariant: who holds the mutex, and how far the drawing is.
Holder == (lock = "render" <=> render = "draw") /\ (lock = "lua" <=> lua = "body")

Drawing ==
    render = "draw" =>
        /\ \A j \in passed, k \in Indices : k <= j => k \in passed
        /\ \A i \in Indices : drawn[i] = IF i \in passed THEN dev_texts[i] ELSE NoText

Ready == /\ p_my_device # NoFont => p_font \in {p_my_device, BadFont}
         /\ first_call => p_my_device = NoFont
         /\ render \in {"wait", "draw"} => device = p_my_device /\ device \in Devices

IInv == TypeOK /\ Holder /\ Drawing /\ Ready

LEMMA IInvInit == Init => IInv
  <1> SUFFICES ASSUME Init PROVE IInv
    OBVIOUS
  <1>1. TypeOK
    BY DEF Init, TypeOK, Calls, Blank
  <1>2. Holder /\ Drawing /\ Ready
    BY DEF Init, Holder, Drawing, Ready
  <1> QED
    BY <1>1, <1>2 DEF IInv

LEMMA TypeStep == TypeOK /\ [Next]_vars => TypeOK'
  <1> SUFFICES ASSUME TypeOK, [Next]_vars PROVE TypeOK'
    OBVIOUS
  <1> USE DEF TypeOK
  <1>1. CASE override_development \/ lock_guard
    BY <1>1 DEF override_development, lock_guard
  <1>2. CASE call_override
    BY <1>2 DEF call_override
  <1>3. CASE clear
    BY <1>3 DEF clear, in_body, Blank
  <1>4. CASE erase_text
    BY <1>4 DEF erase_text, in_body
  <1>5. CASE add_2d_text
    <2>1. call.text \in Texts
      BY <1>5 DEF add_2d_text, in_body, Calls
    <2> QED
      BY <1>5, <2>1 DEF add_2d_text, in_body
  <1>6. CASE reject
    BY <1>6 DEF reject, in_body
  <1>7. CASE end_scene_hook
    BY <1>7 DEF end_scene_hook
  <1>8. CASE present_hook \/ o_present
    BY <1>8 DEF present_hook, o_present
  <1>9. CASE shared_lock
    BY <1>9 DEF shared_lock, Blank
  <1>10. CASE draw_message
    BY <1>10 DEF draw_message, Ahead
  <1>11. CASE shared_unlock
    BY <1>11 DEF shared_unlock
  <1>12. CASE UNCHANGED vars
    BY <1>12 DEF vars
  <1> QED
    BY <1>1, <1>2, <1>3, <1>4, <1>5, <1>6, <1>7, <1>8, <1>9, <1>10, <1>11, <1>12
    DEF Next, LuaThread, RenderThread

LEMMA ReadyStep == TypeOK /\ Ready /\ [Next]_vars => Ready'
  <1> SUFFICES ASSUME TypeOK, Ready, [Next]_vars PROVE Ready'
    OBVIOUS
  <1> USE FontAssumption DEF Ready
  <1>1. CASE end_scene_hook
    BY <1>1 DEF end_scene_hook
  <1>2. CASE present_hook
    BY <1>2 DEF present_hook
  <1>3. CASE shared_lock \/ draw_message \/ shared_unlock \/ o_present
    BY <1>3 DEF shared_lock, draw_message, shared_unlock, o_present
  <1>4. CASE LuaThread
    BY <1>4 DEF LuaThread, override_development, call_override, lock_guard, clear,
       erase_text, add_2d_text, reject, in_body
  <1>5. CASE UNCHANGED vars
    BY <1>5 DEF vars
  <1> QED
    BY <1>1, <1>2, <1>3, <1>4, <1>5 DEF Next, RenderThread

LEMMA HolderStep == Holder /\ [Next]_vars => Holder'
  <1> SUFFICES ASSUME Holder, [Next]_vars PROVE Holder'
    OBVIOUS
  <1> USE DEF Holder
  <1>1. CASE LuaThread
    BY <1>1 DEF LuaThread, override_development, call_override, lock_guard, clear,
       erase_text, add_2d_text, reject, in_body
  <1>2. CASE RenderThread
    BY <1>2 DEF RenderThread, end_scene_hook, present_hook, shared_lock, draw_message,
       shared_unlock, o_present
  <1>3. CASE UNCHANGED vars
    BY <1>3 DEF vars
  <1> QED
    BY <1>1, <1>2, <1>3 DEF Next

LEMMA DrawingStep == TypeOK /\ Holder /\ Drawing /\ [Next]_vars => Drawing'
  <1> SUFFICES ASSUME TypeOK, Holder, Drawing, [Next]_vars, render' = "draw"
               PROVE  /\ \A j \in passed', k \in Indices : k <= j => k \in passed'
                      /\ \A i \in Indices :
                            drawn'[i] = IF i \in passed' THEN dev_texts'[i] ELSE NoText
    BY DEF Drawing
  <1>1. CASE UNCHANGED <<render, passed, drawn, dev_texts>>
    BY <1>1 DEF Drawing
  <1>2. CASE clear \/ erase_text \/ add_2d_text \/ reject
    \* The mutex keeps the Lua thread out while the map is drawn.
    BY <1>2 DEF Holder, clear, erase_text, add_2d_text, reject, in_body
  <1>3. CASE shared_lock
    BY <1>3 DEF shared_lock, Blank
  <1>4. CASE draw_message
    <2>1. PICK i \in Ahead : /\ \A j \in Ahead : i <= j
                             /\ passed' = {j \in Indices : j <= i}
                             /\ drawn' = [drawn EXCEPT ![i] = dev_texts[i]]
      BY <1>4 DEF draw_message
    <2>2. /\ \A j \in passed, k \in Indices : k <= j => k \in passed
          /\ \A k \in Indices : drawn[k] = IF k \in passed THEN dev_texts[k] ELSE NoText
      BY <1>4 DEF draw_message, Drawing
    <2>3. i \in Indices /\ i \notin passed /\ dev_texts' = dev_texts
      BY <1>4 DEF draw_message, Ahead
    <2>4. \A j \in Indices : j \in Int
      BY IndicesAssumption
    <2>5. ASSUME NEW j \in passed', NEW k \in Indices, k <= j PROVE k \in passed'
      BY <2>1, <2>3, <2>4, <2>5
    <2>6. ASSUME NEW k \in Indices
          PROVE  drawn'[k] = IF k \in passed' THEN dev_texts'[k] ELSE NoText
      <3>1. k \in passed => k <= i
        BY <2>2, <2>3, <2>4 DEF TypeOK
      <3>2. k \in Ahead => i <= k
        BY <2>1
      <3>3. k # i => drawn'[k] = drawn[k]
        BY <2>1 DEF TypeOK
      <3>4. drawn'[i] = dev_texts[i] /\ i \in passed'
        BY <2>1, <2>3, <2>4 DEF TypeOK
      <3>5. CASE k = i
        BY <3>4, <3>5, <2>3
      <3>6. CASE k # i /\ k \in passed
        BY <3>1, <3>3, <3>6, <2>1, <2>2, <2>3
      <3>7. CASE k # i /\ k \notin passed
        BY <3>2, <3>3, <3>7, <2>1, <2>2, <2>3, <2>4 DEF Ahead
      <3> QED
        BY <3>5, <3>6, <3>7
    <2> QED
      BY <2>5, <2>6
  <1>5. override_development \/ call_override \/ lock_guard \/ UNCHANGED vars
          => UNCHANGED <<render, passed, drawn, dev_texts>>
    BY DEF override_development, call_override, lock_guard, vars
  <1>6. ~(end_scene_hook \/ present_hook \/ shared_unlock \/ o_present)
    BY DEF end_scene_hook, present_hook, shared_unlock, o_present
  <1> QED
    BY <1>1, <1>2, <1>3, <1>4, <1>5, <1>6 DEF Next, LuaThread, RenderThread

LEMMA IInvAlways == Spec => []IInv
  <1>1. IInv /\ [Next]_vars => IInv'
    BY TypeStep, HolderStep, DrawingStep, ReadyStep DEF IInv
  <1> QED
    BY <1>1, IInvInit, PTL DEF Spec

\* Type correctness: in particular no entry of dev_texts is left half made by
\* a call that is rejected or throws.
THEOREM TypeCorrect == Spec => []TypeOK
  <1>1. IInv => TypeOK
    BY DEF IInv
  <1> QED
    BY <1>1, IInvAlways, PTL

\* Texts are drawn only with the font of the device that is presented.
THEOREM FontMatches == Spec => []FontOfDevice
  <1>1. IInv => FontOfDevice
    BY FontAssumption DEF IInv, Ready, FontOfDevice
  <1> QED
    BY <1>1, IInvAlways, PTL

LEMMA ScreenStep == IInv /\ [Next]_vars => [Abstract!Next]_<<dev_texts, frame>>
  <1> SUFFICES ASSUME IInv, [Next]_vars PROVE [Abstract!Next]_<<dev_texts, frame>>
    OBVIOUS
  <1> USE DEF Abstract!Next
  <1>1. CASE clear
    BY <1>1 DEF clear, in_body, Abstract!Clear, Abstract!Blank, Blank
  <1>2. CASE erase_text
    <2>1. call.index \in Indices
      BY <1>2 DEF erase_text, in_body, IInv, TypeOK, Calls
    <2>2. Abstract!Put(call.index, NoText)
      BY <1>2 DEF erase_text, in_body, Abstract!Put
    <2> QED
      BY <2>1, <2>2
  <1>3. CASE add_2d_text
    <2>1. call.index \in Indices /\ call.text \in Texts
      BY <1>3 DEF add_2d_text, in_body, IInv, TypeOK, Calls
    <2>2. Abstract!Put(call.index, call.text)
      BY <1>3 DEF add_2d_text, in_body, Abstract!Put
    <2> QED
      BY <2>1, <2>2
  <1>4. CASE shared_unlock
    <2>1. \A i \in Indices : drawn[i] = dev_texts[i]
      BY <1>4 DEF shared_unlock, Ahead, IInv, Drawing
    <2>2. drawn = dev_texts
      BY <2>1 DEF IInv, TypeOK
    <2> QED
      BY <1>4, <2>2 DEF shared_unlock, Abstract!Draw
  <1>5. override_development \/ call_override \/ lock_guard \/ reject \/ end_scene_hook
          \/ present_hook \/ shared_lock \/ draw_message \/ o_present \/ UNCHANGED vars
          => UNCHANGED <<dev_texts, frame>>
    BY DEF override_development, call_override, lock_guard, reject, in_body,
       end_scene_hook, present_hook, shared_lock, draw_message, o_present, vars
  <1> QED
    BY <1>1, <1>2, <1>3, <1>4, <1>5 DEF Next, LuaThread, RenderThread

\* Every frame shows what dev_texts holds at one moment, for every set of
\* keys, texts and devices.
THEOREM NoTornFrames == Spec => FramesAreSnapshots
  <1>1. Init => Abstract!Init
    BY DEF Init, Abstract!Init, Abstract!Blank, Blank
  <1>2. Spec => Abstract!Init /\ [][Abstract!Next]_<<dev_texts, frame>>
    BY <1>1, ScreenStep, IInvAlways, PTL DEF Spec
  <1> QED
    BY <1>2, PTL DEF FramesAreSnapshots, Abstract!Spec
=============================================================================
