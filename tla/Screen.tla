------------------------------- MODULE Screen -------------------------------
(***************************************************************************)
(* What the Development overrides and the Present hook promise together:   *)
(* texts are put up and taken down one call at a time, and every frame     *)
(* shows exactly the texts that are up at one moment.  DevText implements  *)
(* this specification.                                                     *)
(***************************************************************************)
CONSTANTS Indices, Texts, NoText

VARIABLES up,     \* the texts that are up, NoText where there is none
          frame   \* the texts of the last frame drawn

Blank == [i \in Indices |-> NoText]

Init == up = Blank /\ frame = Blank

Clear     == up' = Blank /\ UNCHANGED frame
Put(i, t) == up' = [up EXCEPT ![i] = t] /\ UNCHANGED frame
Draw      == frame' = up /\ UNCHANGED up

Next == Clear \/ Draw \/ \E i \in Indices, t \in Texts \cup {NoText} : Put(i, t)

Spec == Init /\ [][Next]_<<up, frame>>
=============================================================================
