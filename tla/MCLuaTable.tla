----------------------------- MODULE MCLuaTable -----------------------------
(* Small instances of LuaTable *)
EXTENDS LuaTable
MCKeys   == {int(i) : i \in 1..MaxKey} \cup {<<"string", 0>>, <<"object", 3>>}
MCValues == {<<"boolean", TRUE>>}
MCSizes  == {<<0, 0>>, <<0, 4>>}
=============================================================================
