------------------------------ MODULE LuaLib ------------------------------
(***************************************************************************)
(* The functions of the basic, table and string libraries (lbaselib.c,     *)
(* ltablib.c, lstrlib.c) that call nothing in turn.                        *)
(*                                                                         *)
(* They work on the state m of LuaVM: m.tab has the fields h and the       *)
(* metatable mt of each table (LuaTable shows that a table is its fields), *)
(* m.uv the upvalues.  Each gives m after the call, the values it returns, *)
(* and its error.                                                          *)
(***************************************************************************)
EXTENDS LuaStr, FiniteSets

Globals    == <<"table", 1>>
StringLib  == <<"table", 3>>
StringMeta == <<"table", 5>>

luaV_tonumber(v) ==
  CASE type(v) = "number" -> v
    [] type(v) = "string" /\ Lex!luaO_str2d(v[2]) # {} -> num(CHOOSE n \in Lex!luaO_str2d(v[2]) : TRUE)
    [] OTHER -> nil
tostring(v)   == IF type(v) = "number" THEN ToString(v[2]) ELSE v[2]

\* The first tables are those of the libraries.  What they start with is
\* kept out of m, which has their fields that a program has set.
Functions(names) == [k \in {str(f) : f \in names} |-> <<"cfunction", k[2]>>]
base_funcs == {"assert", "error", "getmetatable", "ipairs", "loadstring", "pcall", "rawequal", "rawget", "rawset",
               "select", "setmetatable", "tonumber", "tostring", "type", "unpack", "xpcall"}
co_funcs   == {"create", "resume", "status", "wrap", "yield"}
strlib     == {"byte", "char", "find", "gmatch", "gsub", "len", "lower", "match", "rep", "reverse", "sub", "upper"}
tab_funcs  == {"concat", "getn", "insert", "maxn", "remove", "sort"}
luaL_openlibs ==
  <<(str("coroutine") :> <<"table", 2>>) @@ (str("string") :> StringLib) @@ (str("table") :> <<"table", 4>>)
      @@ Functions(base_funcs),
    Functions(co_funcs), Functions(strlib), Functions(tab_funcs), str("__index") :> StringLib>>

luaH_get(m, t, k) ==
  LET h == m.tab[t[2]].h
      i == t[2]
  IN  IF k \in DOMAIN h THEN h[k]
      ELSE IF i \in DOMAIN luaL_openlibs /\ k \in DOMAIN luaL_openlibs[i] THEN luaL_openlibs[i][k] ELSE nil
luaH_set(m, t, k, v) == [m EXCEPT !.tab[t[2]].h = (k :> v) @@ @]
luaH_new(m, h) == [m EXCEPT !.tab = Append(@, [h |-> h, mt |-> nil])]
NewTable(m)    == <<"table", Len(m.tab) + 1>>
luaH_getn(m, t) == CHOOSE n \in 0..Cardinality(DOMAIN m.tab[t[2]].h) :
                     (n = 0 \/ luaH_get(m, t, num(n)) # nil) /\ luaH_get(m, t, num(n + 1)) = nil

metatable(m, v) == CASE type(v) = "table"  -> m.tab[v[2]].mt
                     [] type(v) = "string" -> StringMeta
                     [] OTHER              -> nil
luaT_gettmbyobj(m, v, event) ==
  IF metatable(m, v) = nil THEN nil ELSE luaH_get(m, metatable(m, v), str(event))

-----------------------------------------------------------------------------
(* Arguments: of each function the types it asks for, `?' when it may be   *)
(* left out.  A number and a text that stands for one are either.          *)

Signature ==
  [type |-> <<"any">>, rawequal |-> <<"any", "any">>, rawget |-> <<"table", "any">>,
   rawset |-> <<"table", "any", "any">>, select |-> <<"any">>, unpack |-> <<"table", "number?", "number?">>,
   tonumber |-> <<"any">>, tostring |-> <<"any">>, getmetatable |-> <<"any">>, assert |-> <<"any">>,
   ipairs |-> <<"table">>, ipairsaux |-> <<"table", "number">>,
   insert |-> <<"table">>, remove |-> <<"table", "number?">>, getn |-> <<"table">>, maxn |-> <<"table">>,
   sort |-> <<"table">>, concat |-> <<"table", "string?", "number?", "number?">>,
   len |-> <<"string">>, sub |-> <<"string", "number", "number?">>, reverse |-> <<"string">>,
   lower |-> <<"string">>, upper |-> <<"string">>, rep |-> <<"string", "number">>,
   byte |-> <<"string", "number?", "number?">>, char |-> <<>>, find |-> <<"string", "string", "number?">>,
   match |-> <<"string", "string", "number?">>, gmatch |-> <<"string", "string">>,
   gsub |-> <<"string", "string", "value", "number?">>, gmatch_aux |-> <<>>,
   setmetatable |-> <<"table", "value">>, error |-> <<>>, pcall |-> <<"any">>, xpcall |-> <<"any", "any">>,
   create |-> <<"function">>, wrap |-> <<"function">>, resume |-> <<"thread">>, status |-> <<"thread">>,
   yield |-> <<>>, auxwrap |-> <<>>, loadstring |-> <<"string">>]

arg(args, i) == IF i \in DOMAIN args THEN args[i] ELSE nil
fits(args, i, want) ==
  CASE want = "any"    -> i \in DOMAIN args
    [] want = "string" -> isstring(arg(args, i))
    [] want = "number" -> luaV_tonumber(arg(args, i)) # nil
    [] want \in {"string?", "number?"} ->
         arg(args, i) = nil \/ IF want = "string?" THEN isstring(arg(args, i)) ELSE luaV_tonumber(arg(args, i)) # nil
    [] want = "value"  -> TRUE
    [] OTHER           -> type(arg(args, i)) = want
accepts_all(args, sig) == \A i \in DOMAIN sig : fits(args, i, sig[i])
accepts(f, args) == accepts_all(args, Signature[f])

luaL_optint(args, i, n) == IF arg(args, i) = nil THEN n ELSE luaV_tonumber(arg(args, i))[2]
luaL_checkint(args, i)  == luaV_tonumber(arg(args, i))[2]
luaL_checkstring(args, i) == tostring(arg(args, i))

Does(m, vals)  == [m |-> m, vals |-> vals, error |-> ""]
Fails(m, msg)  == [m |-> m, vals |-> <<>>, error |-> msg]
Gives(m, r)    == [m |-> m, vals |-> r.vals, error |-> r.error]

-----------------------------------------------------------------------------
(* The basic functions.                                                    *)

luaB_type(m, args) == Does(m, <<str(IF type(args[1]) = "cfunction" THEN "function" ELSE type(args[1]))>>)
luaB_rawequal(m, args) == Does(m, <<bool(args[1] = args[2])>>)
luaB_rawget(m, args) == Does(m, <<luaH_get(m, args[1], args[2])>>)
luaB_rawset(m, args) == IF args[2] = nil THEN Fails(m, "table index is nil")
                        ELSE Does(luaH_set(m, args[1], args[2], args[3]), <<args[1]>>)

luaB_select(m, args) ==
  LET n == Len(args)
      given == luaL_checkint(args, 1)
      i == IF given < 0 THEN n + given ELSE AtMost(given, n)
  IN  IF type(args[1]) = "string" /\ char(args[1][2], 1) = "#" THEN Does(m, <<num(n - 1)>>)
      ELSE IF luaV_tonumber(args[1]) = nil \/ i < 1 THEN Fails(m, "bad argument")
      ELSE Does(m, SubSeq(args, i + 1, n))

luaB_unpack(m, args) ==
  LET i == luaL_optint(args, 2, 1)
      e == luaL_optint(args, 3, luaH_getn(m, args[1]))
  IN  Does(m, [j \in 1..AtLeast(e - i + 1, 0) |-> luaH_get(m, args[1], num(i + j - 1))])

luaB_tonumber(m, args) ==
  LET base == luaL_optint(args, 2, 10)
      s == luaL_checkstring(args, 1)
      t == Lex!trim(s)
      u == IF base = 16 /\ Len(t) > 2 /\ SubSeq(t, 1, 2) \in {"0x", "0X"} THEN SubSeq(t, 3, Len(t)) ELSE t
      valid == u # "" /\ \A c \in charset(u) : c \in upper \cup lower \cup Lex!digit /\ Lex!DigitOf(c) < base
  IN  IF fits(args, 2, "number?") /\ base = 10 THEN Does(m, <<luaV_tonumber(args[1])>>)
      ELSE IF ~fits(args, 2, "number?") \/ ~isstring(args[1]) \/ base \notin 2..36 THEN Fails(m, "bad argument")
      ELSE Does(m, <<IF valid THEN num(Lex!digits(u, base)) ELSE nil>>)

\* of a value without __tostring; the address of an object is left out
luaB_tostring(m, args) ==
  Does(m, <<str(CASE isstring(args[1])           -> tostring(args[1])
                  [] args[1] = bool(TRUE)        -> "true"
                  [] args[1] = bool(FALSE)       -> "false"
                  [] OTHER                       -> type(args[1]))>>)

luaB_getmetatable(m, args) ==
  LET field == luaT_gettmbyobj(m, args[1], "__metatable")
  IN  Does(m, <<IF field # nil THEN field ELSE metatable(m, args[1])>>)

luaB_assert(m, args) ==
  IF ~l_isfalse(args[1]) THEN Does(m, args)
  ELSE IF arg(args, 2) = nil THEN Fails(m, "assertion failed!")
  ELSE Fails(m, IF isstring(args[2]) THEN tostring(args[2]) ELSE "bad argument")

luaB_ipairs(m, args) == Does(m, <<<<"cfunction", "ipairsaux">>, args[1], num(0)>>)
ipairsaux(m, args) ==
  LET i == num(luaL_checkint(args, 2) + 1)
      v == luaH_get(m, args[1], i)
  IN  Does(m, IF v = nil THEN <<>> ELSE <<i, v>>)

-----------------------------------------------------------------------------
(* The functions on tables.                                                *)

lua_rawgeti(m, t, i)    == luaH_get(m, t, num(i))
lua_rawseti(m, t, i, v) == luaH_set(m, t, num(i), v)

tinsert(m, args) ==
  LET t   == args[1]
      e0  == luaH_getn(m, t) + 1
      pos == IF Len(args) = 2 THEN e0 ELSE luaL_checkint(args, 2)
      e   == AtLeast(e0, pos)
      up(x, i) == lua_rawseti(x, t, e + 1 - i, lua_rawgeti(x, t, e - i))
  IN  IF Len(args) \notin {2, 3} THEN Fails(m, "wrong number of arguments to 'insert'")
      ELSE IF Len(args) = 3 /\ luaV_tonumber(args[2]) = nil THEN Fails(m, "bad argument")
      ELSE Does(lua_rawseti(FoldLeft(up, m, [i \in 1..AtLeast(e - pos, 0) |-> i]), t, pos, Last(args)), <<>>)

tremove(m, args) ==
  LET t   == args[1]
      e   == luaH_getn(m, t)
      pos == luaL_optint(args, 2, e)
      down(x, i) == lua_rawseti(x, t, pos + i - 1, lua_rawgeti(x, t, pos + i))
  IN  IF e = 0 THEN Does(m, <<>>)
      ELSE Does(lua_rawseti(FoldLeft(down, m, [i \in 1..AtLeast(e - pos, 0) |-> i]), t, e, nil),
                <<lua_rawgeti(m, t, pos)>>)

tconcat(m, args) ==
  LET sep  == IF arg(args, 2) = nil THEN "" ELSE luaL_checkstring(args, 2)
      i    == luaL_optint(args, 3, 1)
      last == luaL_optint(args, 4, luaH_getn(m, args[1]))
      at(j) == lua_rawgeti(m, args[1], i + j - 1)
      ks   == [j \in 1..AtLeast(last - i + 1, 0) |-> j]
  IN  IF \E j \in DOMAIN ks : ~isstring(at(j)) THEN Fails(m, "bad argument")
      ELSE Does(m, <<str(FoldLeft(LAMBDA s, j : s \o tostring(at(j)) \o IF j < Len(ks) THEN sep ELSE "", "", ks))>>)

maxn(m, args) ==
  LET h  == m.tab[args[1][2]].h
      ns == {0} \cup {k[2] : k \in {k \in DOMAIN h : type(k) = "number" /\ h[k] # nil}}
  IN  Does(m, <<num(CHOOSE n \in ns : \A k \in ns : k <= n)>>)

l_strcmp(l, r) ==      \* l before r
  LET same(n) == SubSeq(l, 1, n) = SubSeq(r, 1, n)
  IN  \E n \in 0..Len(l) : /\ n < Len(r) /\ same(n)
                           /\ n < Len(l) => code(char(l, n + 1)) < code(char(r, n + 1))

(* Quicksort without an order function, of two numbers or two strings.  A  *)
(* sort x is the elements a and the error that ends it.                    *)
comparable(v, w) == type(v) = type(w) /\ isstring(v)
less(v, w) == IF type(v) = "number" THEN v[2] < w[2] ELSE l_strcmp(v[2], w[2])
swap(x, i, j)  == [x EXCEPT !.a[i] = x.a[j], !.a[j] = x.a[i]]
Uncomparable(x) == [x EXCEPT !.error = "attempt to compare"]
order2(x, i, j) == IF x.error # "" THEN x
                   ELSE IF ~comparable(x.a[j], x.a[i]) THEN Uncomparable(x)
                   ELSE IF less(x.a[j], x.a[i]) THEN swap(x, i, j) ELSE x

\* the first element from i on, in steps of by, that is not before the pivot
RECURSIVE past(_, _, _, _), partition(_, _, _, _), auxsort(_, _, _)
past(x, p, i, by) ==
  LET v == x.a[i]
  IN  IF comparable(v, p) /\ IF by = 1 THEN less(v, p) ELSE less(p, v) THEN past(x, p, i + by, by) ELSE i
partition(x, p, i0, j0) ==
  LET i == past(x, p, i0 + 1, 1)
      j == past(x, p, j0 - 1, 0 - 1)
  IN  IF ~comparable(x.a[i], p) \/ ~comparable(x.a[j], p) THEN [x |-> Uncomparable(x), i |-> i]
      ELSE IF j < i THEN [x |-> x, i |-> i] ELSE partition(swap(x, i, j), p, i, j)
\* the shorter part first
sort_parts(x, l, i, u) ==
  IF x.error # "" THEN x
  ELSE IF i - l < u - i THEN auxsort(auxsort(x, l, i - 1), i + 1, u)
  ELSE auxsort(auxsort(x, i + 1, u), l, i - 1)
\* the pivot is the middle of three, and goes to its place
sort_around(x, l, mid, u) ==
  LET placed(q) == sort_parts(IF q.x.error # "" THEN q.x ELSE swap(q.x, u - 1, q.i), l, q.i, u)
  IN  IF u - l = 2 \/ x.error # "" THEN x
      ELSE placed(partition(swap(x, mid, u - 1), x.a[mid], l, u - 1))
median(x, l, mid, u) ==
  LET first == comparable(x.a[mid], x.a[l]) /\ less(x.a[mid], x.a[l])
      x2    == order2(x, l, mid)
  IN  IF u - l = 1 \/ x.error # "" THEN x
      ELSE sort_around(IF first THEN x2 ELSE order2(x2, mid, u), l, mid, u)
auxsort(x, l, u) ==
  IF l >= u \/ x.error # "" THEN x ELSE median(order2(x, l, u), l, (l + u) \div 2, u)

sort(m, args) ==
  LET n == luaH_getn(m, args[1])
      x == auxsort([a |-> [i \in 1..n |-> lua_rawgeti(m, args[1], i)], error |-> ""], 1, n)
  IN  [m |-> FoldLeft(LAMBDA y, i : lua_rawseti(y, args[1], i, x.a[i]), m, [i \in 1..n |-> i]),
       vals |-> <<>>, error |-> x.error]

-----------------------------------------------------------------------------
(* The functions on strings, from LuaStr.                                  *)

find(m, args, wanted) ==
  Gives(m, str_find_aux(luaL_checkstring(args, 1), luaL_checkstring(args, 2), luaL_optint(args, 3, 1),
                        ~l_isfalse(arg(args, 4)), wanted))

\* the upvalue of the iterator is where it goes on
gmatch(m, args) ==
  Does([m EXCEPT !.uv = Append(@, [at |-> <<>>, v |-> num(1)])],
       <<<<"cfunction", "gmatch_aux", <<luaL_checkstring(args, 1), luaL_checkstring(args, 2), Len(m.uv) + 1>>>>>>)
gmatch_next(m, f) ==
  LET then(x) == Gives([m EXCEPT !.uv[f[3]].v = num(x.at)], x.r)
  IN  then(gmatch_aux(f[1], f[2], m.uv[f[3]].v[2]))

string_char(m, args) ==
  IF \E i \in DOMAIN args : luaV_tonumber(args[i]) = nil THEN Fails(m, "bad argument")
  ELSE LET codes == [i \in DOMAIN args |-> luaL_checkint(args, i)]
       IN  IF \E i \in DOMAIN codes : codes[i] \notin 0..255 THEN Fails(m, "bad argument")
           ELSE Does(m, <<str(str_char(codes))>>)

\* the start of a gsub; the fields of a replacement table
gsub_start(m, args) ==
  LET s == luaL_checkstring(args, 1)
      r == arg(args, 3)
  IN  gsub_loop(str_gsub(s, luaL_checkstring(args, 2), IF type(r) = "table" THEN <<"fields", m.tab[r[2]].h>> ELSE r,
                         luaL_optint(args, 4, Len(s) + 1)))

Plain == {"type", "rawequal", "rawget", "rawset", "select", "unpack", "tonumber", "tostring", "getmetatable",
          "assert", "ipairs", "ipairsaux", "insert", "remove", "getn", "maxn", "sort", "concat", "len", "sub",
          "reverse", "lower", "upper", "rep", "byte", "char", "find", "match", "gmatch", "gmatch_aux"}
Library(m, f, args) ==
  LET s == luaL_checkstring(args, 1)
      n(i, d) == luaL_optint(args, i, d)
  IN  CASE f[2] = "type" -> luaB_type(m, args)       [] f[2] = "rawequal" -> luaB_rawequal(m, args)
        [] f[2] = "rawget" -> luaB_rawget(m, args)   [] f[2] = "rawset" -> luaB_rawset(m, args)
        [] f[2] = "select" -> luaB_select(m, args)   [] f[2] = "unpack" -> luaB_unpack(m, args)
        [] f[2] = "tonumber" -> luaB_tonumber(m, args) [] f[2] = "tostring" -> luaB_tostring(m, args)
        [] f[2] = "getmetatable" -> luaB_getmetatable(m, args) [] f[2] = "assert" -> luaB_assert(m, args)
        [] f[2] = "ipairs" -> luaB_ipairs(m, args)   [] f[2] = "ipairsaux" -> ipairsaux(m, args)
        [] f[2] = "insert" -> tinsert(m, args)       [] f[2] = "remove" -> tremove(m, args)
        [] f[2] = "getn" -> Does(m, <<num(luaH_getn(m, args[1]))>>) [] f[2] = "maxn" -> maxn(m, args)
        [] f[2] = "sort" -> sort(m, args)            [] f[2] = "concat" -> tconcat(m, args)
        [] f[2] = "len" -> Does(m, <<num(Len(s))>>)  [] f[2] = "sub" -> Does(m, <<str(str_sub(s, n(2, 0), n(3, -1)))>>)
        [] f[2] = "reverse" -> Does(m, <<str(str_reverse(s))>>) [] f[2] = "rep" -> Does(m, <<str(str_rep(s, n(2, 0)))>>)
        [] f[2] = "lower" -> Does(m, <<str(str_lower(s))>>) [] f[2] = "upper" -> Does(m, <<str(str_upper(s))>>)
        [] f[2] = "byte" -> Does(m, str_byte(s, n(2, 1), n(3, posrelat(n(2, 1), Len(s)))))
        [] f[2] = "char" -> string_char(m, args)     [] f[2] \in {"find", "match"} -> find(m, args, f[2] = "find")
        [] f[2] = "gmatch" -> gmatch(m, args)        [] f[2] = "gmatch_aux" -> gmatch_next(m, f[3])
=============================================================================
