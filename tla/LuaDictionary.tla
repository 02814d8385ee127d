--------------------------- MODULE LuaDictionary ---------------------------
(***************************************************************************)
(* What a table of Lua promises: a key has the value it was last given,    *)
(* the length is a border, and a traversal sees every field once, also     *)
(* when the fields there are are assigned to between its steps.            *)
(***************************************************************************)
EXTENDS Integers

CONSTANTS Keys, Values, MaxKey
VARIABLES d,     \* the value of every key
          seen   \* the keys that the traversal has seen, {nil} when there is none
vars == <<d, seen>>

nil     == <<"nil">>
int(i)  == <<"number", i>>
Present == {k \in Keys : d[k] # nil}
Borders == {n \in 0..MaxKey : (n = 0 \/ d[int(n)] # nil) /\ (n = MaxKey \/ d[int(n + 1)] = nil)}
Walking == seen # {nil}

Init == d = [k \in Keys |-> nil] /\ seen = {nil}

\* during a traversal only to a field that is there
Assign(k, v) == /\ Walking => k \in Present
                /\ d' = [d EXCEPT ![k] = v]

\* the constructor {v, ..., v}, added to what is there
SetList(n, v) == /\ ~Walking
                 /\ d' = [k \in Keys |-> IF k \in {int(i) : i \in 1..n} THEN v ELSE d[k]]

\* table.insert and table.remove move the fields up to some border; behind it
\* there is none to move, and removing takes the last one off
Insert(pos, v) == \E n \in Borders :
  /\ ~Walking /\ n < MaxKey
  /\ d' = [k \in Keys |-> IF k = int(pos) THEN v
                          ELSE IF k \in {int(i) : i \in pos + 1..n + 1} THEN d[int(k[2] - 1)] ELSE d[k]]
Append(v) == \E n \in Borders : ~Walking /\ n < MaxKey /\ d' = [d EXCEPT ![int(n + 1)] = v]
Remove(pos) == \E n \in Borders :
  /\ ~Walking /\ n # 0
  /\ d' = [k \in Keys |-> IF k = int(n) THEN nil
                          ELSE IF k \in {int(i) : i \in pos..n - 1} THEN d[int(k[2] + 1)] ELSE d[k]]

Begin    == seen' = {}
Visit(k) == Walking /\ k \in Present \ seen /\ seen' = seen \cup {k}
End      == Walking /\ Present \subseteq seen /\ seen' = {nil}

Next ==
  \/ /\ UNCHANGED seen
     /\ \/ \E k \in Keys, v \in Values \cup {nil} : Assign(k, v)
        \/ \E v \in Values : Append(v) \/ \E i \in 1..MaxKey : SetList(i, v) \/ Insert(i, v)
        \/ \E i \in 1..MaxKey : Remove(i)
  \/ UNCHANGED d /\ (Begin \/ End \/ \E k \in Keys : Visit(k))

Spec == Init /\ [][Next]_vars
=============================================================================
