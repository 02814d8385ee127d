------------------------------ MODULE MCLuaGC ------------------------------
(* Small instances of LuaGC: each pool looks at some kinds of objects, in a  *)
(* heap that a program has built before the first collection.                *)
EXTENDS LuaGC

CONSTANTS a, b, c

Thing(k, x)   == [kind |-> k, meta |-> {}, body |-> x]
Meta(m, x)    == [kind |-> "table", meta |-> m, body |-> x]
Table(es, mt) == [entries |-> es, mt |-> mt]

\* The main thread holds s and t, the globals hold v.
MCPool(s, t, v, x, y, z) == [o \in {Main, Registry, a, b, c} |->
    CASE o = Main -> Thing("thread", [stack |-> <<s, t>>])
      [] o = Registry -> Thing("table", Table(IF v = nil THEN {} ELSE {<<Plain, v>>}, nil))
      [] o = a -> x [] o = b -> y [] o = c -> z]

\* A function among the globals and one on the stack share a closed upvalue,
\* as the game's menu functions share activeMenu.
Sharing == {MCPool(c, nil, a, Thing("function", [up |-> b]),
                   Thing("upval", [at |-> Closed, v |-> nil]), Thing("function", [up |-> b]))}

MCPools == Sharing \cup {
    MCPool(b, c, a, Thing("table", Table({}, nil)), Thing("table", Table({}, nil)), Thing("userdata", [mt |-> nil])),
    MCPool(b, nil, nil, Thing("table", nil), Meta({"gc"}, Table({}, nil)), Thing("table", nil)),
    MCPool(a, c, nil, Thing("table", Table({<<c, Plain>>}, b)), Meta({"k"}, Table({}, nil)), Thing("userdata", [mt |-> nil])),
    MCPool(a, c, nil, Thing("table", Table({<<Plain, c>>}, b)), Meta({"v"}, Table({}, nil)), Thing("string", [len |-> 0])),
    MCPool(a, nil, c, Thing("table", Table({}, b)), Meta({"v", "gc"}, Table({}, nil)), Thing("userdata", [mt |-> b])),
    MCPool(a, c, nil, Thing("userdata", [mt |-> b]), Meta({"gc"}, Table({}, nil)), Thing("userdata", [mt |-> b])),
    MCPool(a, c, nil, Thing("userdata", [mt |-> b]), Meta({"gc"}, Table({<<Plain, c>>}, nil)), Thing("userdata", [mt |-> b])),
    MCPool(nil, nil, nil, Thing("userdata", [mt |-> b]), Meta({"v", "gc"}, Table({<<c, a>>}, b)), Thing("string", [len |-> 0])),
    MCPool(nil, c, a, Thing("function", [up |-> b]), Thing("upval", [at |-> <<c, 1>>, v |-> nil]),
           Thing("thread", [stack |-> <<Registry, nil>>])),
    MCPool(a, nil, a, Thing("function", [up |-> b]), Thing("upval", [at |-> <<Main, 2>>, v |-> nil]),
           Thing("string", nil)),
    MCPool(nil, nil, a, Thing("function", [up |-> b]), Thing("upval", [at |-> Closed, v |-> c]),
           Thing("string", [len |-> 0]))}
=============================================================================
