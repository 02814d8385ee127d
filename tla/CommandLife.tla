---------------------------- MODULE CommandLife ----------------------------
(***************************************************************************)
(* What the console promises of a line that is typed: it may be lost, but  *)
(* it is executed only after it was typed and, once the hook is done with  *)
(* it, it never comes back.  LuaExec implements this specification.        *)
(***************************************************************************)
CONSTANT Commands

VARIABLE life

Stages == {"unsent", "sent", "taken", "retired"}

TypeOK == life \in [Commands -> Stages]

Init == life = [c \in Commands |-> "unsent"]

Advance(c, from, to) == life[c] = from /\ life' = [life EXCEPT ![c] = to]

Send(c)   == Advance(c, "unsent", "sent")
Take(c)   == Advance(c, "sent", "taken")
Retire(c) == Advance(c, "taken", "retired")

Next == \E c \in Commands : Send(c) \/ Take(c) \/ Retire(c)

Spec == Init /\ [][Next]_life
=============================================================================
