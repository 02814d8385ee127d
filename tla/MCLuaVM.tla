------------------------------ MODULE MCLuaVM ------------------------------
(* Programs for LuaVM, each with what the reference manual says it comes to. *)
EXTENDS LuaVM, LuaParser

ok(vals)    == <<"ok", vals>>
error(v)    == <<"error", v>>
true        == bool(TRUE)
false       == bool(FALSE)
P(src, meaning) == [src |-> src, meaning |-> meaning]

-----------------------------------------------------------------------------
(* Boolean expressions, as a value and as a condition.                     *)

RECURSIVE Text(_), Value(_)
Text(e) == CASE e[1] = "leaf" -> e[2]
             [] e[1] = "not"  -> "not " \o Text(e[2])
             [] OTHER -> "(" \o Text(e[2]) \o " " \o e[1] \o " " \o Text(e[3]) \o ")"

Locals == [a |-> false, b |-> num(2)]
Value(e) ==
  CASE e[1] = "leaf" -> IF e[2] = "nil" THEN nil ELSE IF e[2] = "1" THEN num(1) ELSE Locals[e[2]]
    [] e[1] = "not"  -> bool(l_isfalse(Value(e[2])))
    [] e[1] = "=="   -> bool(Value(e[2]) = Value(e[3]))
    [] e[1] = "and"  -> IF l_isfalse(Value(e[2])) THEN Value(e[2]) ELSE Value(e[3])
    [] e[1] = "or"   -> IF l_isfalse(Value(e[2])) THEN Value(e[3]) ELSE Value(e[2])

Leaf(s) == {<<"leaf", x>> : x \in s}
Pairs(ops, X, Y) == {<<op, x, y>> : op \in ops, x \in X, y \in Y}
Simple(s) == Leaf(s) \cup {<<"not", x>> : x \in Leaf(s)} \cup Pairs({"and", "or", "=="}, Leaf(s), Leaf(s))
Two(s)  == Pairs({"and", "or"}, Simple(s), Simple(s))
Exps    == Two({"1", "a", "b"}) \cup Pairs({"and", "or"}, Simple({"nil", "b"}), Simple({"nil", "a"}))
           \cup Simple({"nil", "1", "a", "b"}) \cup {<<"not", e>> : e \in Simple({"nil", "1", "a", "b"}) \cup Two({"a"})}

Booleans == {P("local a, b = false, 2 local x = " \o Text(e) \o " if " \o Text(e)
               \o " then return x, 1 end return x, 2",
               ok(<<Value(e), num(IF l_isfalse(Value(e)) THEN 2 ELSE 1)>>)) : e \in Exps}

-----------------------------------------------------------------------------
(* Assignments to two variables that take part in each other's address.    *)

Targets == {"i", "t", "t[i]", "t[j]", "u[i]"}
Sources(x) == IF x = "t" THEN {"t", "u"} ELSE {"i", "j", "u[j]"}
At(x)  == CASE x = "t[i]" -> <<"t", 1>> [] x = "t[j]" -> <<"t", 2>> [] x = "u[i]" -> <<"u", 1>>
            [] OTHER -> <<x>>
Before == (<<"i">> :> num(1)) @@ (<<"t">> :> "t") @@ (<<"t", 1>> :> num(3)) @@ (<<"t", 2>> :> num(4))
          @@ (<<"u", 1>> :> num(5)) @@ (<<"u", 2>> :> num(6))
Get(p) == CASE p = "j" -> num(2) [] p = "u" -> "u" [] p = "u[j]" -> num(6) [] OTHER -> Before[<<p>>]
After(x, p, y, q) == [l \in DOMAIN Before |-> IF l = At(x) THEN Get(p)
                                              ELSE IF l = At(y) THEN Get(q) ELSE Before[l]]
Seen(s) == <<s[<<"i">>], bool(s[<<"t">>] = "u")>>
           \o [k \in 1..4 |-> s[<<IF k < 3 THEN s[<<"t">>] ELSE "u", 2 - (k % 2)>>]]

Assignments == UNION {{P("local i, j, t, u = 1, 2, {3, 4}, {5, 6} " \o x \o ", " \o y \o " = " \o p \o ", " \o q
                         \o " return i, t == u, t[1], t[2], u[1], u[2]", ok(Seen(After(x, p, y, q)))) :
                       p \in Sources(x), q \in Sources(y)} : x \in Targets, y \in Targets}

-----------------------------------------------------------------------------
(* Programs about one thing each.                                          *)

Nums(s) == ok([k \in DOMAIN s |-> num(s[k])])
Strs(s) == ok([k \in DOMAIN s |-> str(s[k])])

Flow == {
  P("local function f(x) return x end local t = {f\n(1), f{2}[1]} return t[1], #t", Nums(<<1, 2>>)),
  P("local s = 0 for i = 1, 3 do s = s * 10 + i end for i = 2, 1, -1 do s = s * 10 + i end return s", Nums(<<12321>>)),
  P("for i = 1, 0 do return 1 end for i = '1', 'x' do end", error(str("'for' value must be a number"))),
  P("local i = 1 while true do i = i * 2 if i > 9 then break end end repeat local j = i i = i - 5 until j < 10 return i", Nums(<<1>>)),
  P("local function it(s, c) if c < s then return c + 1, c end end local r = 0 for i, j in it, 3, 0 do r = r * 10 + i + j end return r", Nums(<<135>>)),
  P("local r = '' for i = 1, 3 do for j = 1, 3 do if j == i then break end r = r .. i .. j end end return r", Strs(<<"213132">>)),
  P("return #'a\\65\\n[[', [==[x]]y]==], 0x1F, 3 --[[ ]] .. 4 -- 5", ok(<<num(5), str("x]]y"), num(31), str("34")>>)),
  P("return 2 ^ 3 ^ 2 % 7, -2 ^ 2, 7 % -3, 'a' .. 'b' == 'ab', 1 .. 2 < '2', not nil == true", ok(<<num(1), num(-4), num(-2), true, true, true>>)),
  P("x = 1 do local x = x + 1 y = x end return x, y, z", ok(<<num(1), num(2), nil>>))}

Closures == {
  P("local f, g do local a = 1 f = function() a = a + 1 return a end g = function() return a end end f() return f(), g()", Nums(<<3, 3>>)),
  P("local t = {} for i = 1, 2 do local j = i t[i] = function() j = j + i return j end end t[1]() return t[1](), t[2]()", Nums(<<3, 4>>)),
  P("local t = {} for i = 1, 3 do local j = i t[i] = function() return j end if i == 2 then break end end local k = 7 return t[1](), t[2](), t[3]", ok(<<num(1), num(2), nil>>)),
  P("local f local i = 0 repeat local j = i i = i + 1 f = f or function() j = j + 5 return j end until j == 1 or f() == 6 return f(), i", Nums(<<10, 2>>)),
  P("local t = {} while #t < 2 do local a = #t t[a + 1] = function(b) a, b = b, a return b end end return t[1](7), t[2](8), t[1](9)", Nums(<<0, 1, 7>>)),
  P("local function f(a) return function() return function() a = a + 1 return a end end end local g = f(1) local h = g() h() return g()()", Nums(<<3>>)),
  P("local function fact(n) if n == 0 then return 1 end return n * fact(n - 1) end return fact(5)", Nums(<<120>>)),
  P("local function f(n, g) local m = n if n == 0 then return g() end return f(n - 1, function() return m end) end return f(9)", Nums(<<1>>)),
  P("local function f(n) if n == 0 then return 'z' end return f(n - 1) end return f(20), (f(20))", Strs(<<"z", "z">>)),
  P("local o = {n = 1} function o:add(k) self.n = self.n + k return self end return o:add(2):add(3).n", Nums(<<6>>))}

Tables == {
  P("local function f() return 7, 8, 9 end local t = {1, 2, x = 3, 4, [9] = 5, 6, f()} return #t, t[2], t[3], t[5], t[7], t.x", Nums(<<7, 2, 4, 7, 9, 3>>)),
  P("local function f() return 7, 8 end local t = {f(), f(), (f())} return #t, t[1], t[2], t[3]", Nums(<<3, 7, 7, 7>>)),
  P("local t = {[1] = 'a', 'b', [3] = 'c'} t[2], t.y = 'd', t t.y.y[1] = nil return t[1], t[2], t[3], t.y == t", ok(<<nil, str("d"), str("c"), true>>)),
  P("local t = {1, 2, 3, 4, 5} while t[5] > 3 do t[5] = t[5] - 1 end local n, u = {t or 1, 2, 3, 4, {1, 2, 3, 4, {}, 6, 7}, 6} return u, #t, t[5], #n, #n[5], n[5][7]", ok(<<nil, num(5), num(3), num(6), num(7), num(7)>>)),
  P("local function f(a, ...) local t = a and {1, 2, 3, 4, ...} or {1, 2, 3, 4, 1 < 2, ..., 2 < 1, nil == a and 9} return #t, t[5], t[6], t[7], t[8] end return f(nil, 5), f(1, 6), f(1)", ok(<<num(8), num(5), num(4), nil, nil, nil, nil>>)),
  P("local t = {} t[nil] = 1", error(str("table index is nil"))),
  P("local t = {f = function(...) return {...} end} return #t.f(1, 2), t.f'x'[1], t.f{}[1][1]", ok(<<num(2), str("x"), nil>>)),
  P("local a = 1 return a.x.y", error(str("attempt to index a value")))}

Varargs == {
  P("local function f(...) local a, b, c = ... return c, ... end return (f(1, 2)), f(3, 4, 5)", ok(<<nil, num(5), num(3), num(4), num(5)>>)),
  P("local function f(a, ...) return select2(a, ...) end function select2(a, b, c) return c, b, a end return f(), f(1, 2, 3, 4)", ok(<<nil, num(3), num(2), num(1)>>)),
  P("local function f(a, ...) arg[1] = arg[1] + a return arg.n, arg[1], arg[2] end return f(1, 2, nil)", ok(<<num(2), num(3), nil>>)),
  P("local function f(...) local function g(...) return ..., 1 end return g(...), g(2, 3) end return f(5, 6)", Nums(<<5, 2, 1>>)),
  P("local function f(n, ...) if n == 0 then return ... end return f(n - 1, n, ...) end return f(4)", Nums(<<1, 2, 3, 4>>)),
  P("local function f(a, b) return a, b end local x, y, z = f(1) local u, v = f(1, 2), 3 return x, y, z, u, v", ok(<<num(1), nil, nil, num(1), num(3)>>))}

Metamethods == {
  P("local m = {} m.__index = function(t, k) return k end m.__newindex = function(t, k, v) seen = v end local t = setmetatable({1}, m) t[1] = 2 t.x = 3 return t[1], t.x, t.y, seen", ok(<<num(2), str("x"), str("y"), num(3)>>)),
  P("local b = {x = 1} local c = setmetatable({}, {__index = b, __newindex = b}) local d = setmetatable({}, {__index = c, __newindex = c}) d.x = d.x + 1 d.y = 5 return b.x, b.y", Nums(<<2, 5>>)),
  P("local t = {} setmetatable(t, {__index = t}) local u = setmetatable({}, {__index = t}) return pcall(function() return u.x end)", ok(<<false, str("loop in gettable")>>)),
  P("local m = {__lt = function(a, b) return a.n < b.n end, __eq = function(a, b) return a.n == b.n end} local function v(n) return setmetatable({n = n}, m) end return v(1) < v(2), v(2) <= v(1), v(1) <= v(1), v(1) == v(1), v(1) ~= v(2), v(1) > v(0)", ok(<<true, false, true, true, true, true>>)),
  P("local r = '' local function a(x, y) r = r .. '+' return 1 end local t = setmetatable({}, {__add = a, __unm = a, __concat = function(x, y) return 'c' end, __call = function(self, x) return x, self end}) local c, s = t(4) return t + 1, 1 + t, -t, 1 .. 2 .. t, t .. 1 .. 2, c, s == t, r", ok(<<num(1), num(1), num(1), str("1c"), str("c"), num(4), true, str("+++")>>)),
  P("local t = setmetatable({}, {__call = function(self, n) if n > 0 then return self(n - 1) end return n end}) return t(6), pcall(setmetatable({}, {__call = t}))", ok(<<num(0), false, str("attempt to call a value")>>)),
  P("local t = setmetatable({}, {__metatable = 1}) return pcall(setmetatable, t, nil)", ok(<<false, str("cannot change a protected metatable")>>)),
  P("local t = setmetatable({}, {__lt = function() return nil end, __le = function() return 1 end}) local r = 0 if t < t then r = r + 1 end if not (t < t) then r = r + 2 end while t <= t do r = r + 4 break end return r, t <= t, t < {}", error(str("attempt to compare"))),
  P("return {} == setmetatable({}, {__eq = function() return true end}), #setmetatable({1}, {__len = 2})", ok(<<false, num(1)>>))}

Errors == {
  P("return pcall(function(...) error({...}) end), pcall(error), (pcall(function() return 1, 2 end))", ok(<<false, false, true>>)),
  P("local t = {} local s, e = pcall(error, t) return s, e == t, pcall(pcall)", ok(<<false, true, false, str("bad argument")>>)),
  P("local a = 1 local f local s, e = pcall(function() local b = a f = function() a, b = a + 1, b + 2 return b end error('x', 0) end) return e, f(), f(), a", ok(<<str("x"), num(3), num(5), num(3)>>)),
  P("return xpcall(function() local x = nil + 1 end, function(m) return m .. '!' end)", ok(<<false, str("attempt to perform arithmetic on a value!")>>)),
  P("return xpcall(function() error('x') end, function(m) error(m) end)", ok(<<false, str("error in error handling")>>)),
  P("local s, e = xpcall(function() error('x', 0) end, function(m) return pcall(error, m .. 'y', 0) and 1 or m .. 'z' end) return s, e, xpcall(error, 1)", ok(<<false, str("xz"), false, str("error in error handling")>>)),
  P("local n = 0 local function f() n = n + 1 return 1 + f() end local s, e = pcall(f) local m = n n = 0 local s2, e2 = pcall(f) return s, e, s2, e2, m == n", ok(<<false, str("stack overflow"), false, str("stack overflow"), true>>)),
  P("local function f() return f() + 1 end return xpcall(f, function() return f() end)", ok(<<false, str("error in error handling")>>)),
  P("local r = 0 local function f(n) if n == 0 then error('deep', 0) end local s, e = pcall(f, n - 1) r = r + 1 error(e, 0) end local s, e = pcall(f, 4) return e, r", ok(<<str("deep"), num(4)>>)),
  P("local n = 0 local t = setmetatable({}, {__index = function(t, k) n = n + 1 return t[k + 1] end}) local s, e = pcall(function() return t[1] end) local m = n n = 0 return e, pcall(function() return t[1] end), m == n", ok(<<str("C stack overflow"), false, true>>)),
  P("local function it() error('in', 0) end return pcall(function() for i in it do end end), pcall(function() for i in 1 do end end)", ok(<<false, false, str("attempt to call a value")>>)),
  P("return pcall(setmetatable({}, {__call = function(self, a) return a end}), 4)", ok(<<true, num(4)>>)),
  P("error()", error(nil)),
  P("local t = setmetatable({}, {__concat = function(a, b) error('c', 0) end, __eq = 1}) return 1 .. (2 .. t)", error(str("c")))}

C(x) == "local C = coroutine " \o x
Coroutines == {
  P(C("local co = C.create(function(a, b) local c = C.yield(a + b) local d, e = C.yield(c * 2) return d, e end) local s, x = C.resume(co, 1, 2) local s2, y = C.resume(co, 5) return x, y, C.resume(co, 7, 8)"), ok(<<num(3), num(10), true, num(7), num(8)>>)),
  P(C("local co = C.create(function() end) local a = C.status(co) C.resume(co) return a, C.status(co), C.resume(co)"), ok(<<str("suspended"), str("dead"), false, str("cannot resume dead coroutine")>>)),
  P(C("local co co = C.create(function() local d = C.create(function() return C.status(co), C.resume(co) end) return C.status(co), C.resume(d) end) return C.resume(co)"), ok(<<true, str("running"), true, str("normal"), false, str("cannot resume non-suspended coroutine")>>)),
  P(C("local f = C.wrap(function(n) for i = 1, n do C.yield(i) end end) return f(2), f(), (f()), pcall(f)"), ok(<<num(1), num(2), nil, false, str("cannot resume dead coroutine")>>)),
  P(C("local co = C.create(function() local x = {} error(x) end) local s, e = C.resume(co) return s, e == 1, C.status(co), C.resume(co)"), ok(<<false, false, str("dead"), false, str("cannot resume dead coroutine")>>)),
  P(C("local f = C.wrap(function() error('w', 0) end) return pcall(f)"), ok(<<false, str("w")>>)),
  P(C("local co = C.create(function() return pcall(C.yield, 1) end) return C.resume(co)"), ok(<<true, false, str("attempt to yield across metamethod/C-call boundary")>>)),
  P(C("local t = setmetatable({}, {__index = function() return C.yield(1) end}) local co = C.create(function() local s = pcall(function() return t.x end) local y = C.yield(s) return y end) local s, x = C.resume(co) return x, C.resume(co, 3)"), ok(<<false, true, num(3)>>)),
  P(C("local co = C.create(function() for i in C.yield, 1, 2 do return i end end) return C.resume(co)"), ok(<<false, str("attempt to yield across metamethod/C-call boundary")>>)),
  P(C("return pcall(C.yield)"), ok(<<false, str("attempt to yield across metamethod/C-call boundary")>>)),
  P(C("local co = C.create(function(...) return C.yield(...) end) local a, b, c = C.resume(co, 1, 2) return b, c, C.resume(co, 3)"), ok(<<num(1), num(2), true, num(3)>>)),
  P(C("local u = 1 local co = C.create(function() local v = 1 C.yield(function() v = v + u return v end) u = 5 return v end) local s, f = C.resume(co) f() local s2, v = C.resume(co) return v, f(), f()"), ok(<<num(2), num(7), num(12)>>)),
  P(C("local function gen(n) return C.wrap(function() if n > 0 then C.yield(n) for x in gen(n - 1) do C.yield(x) end end end) end local s = 0 for x in gen(2) do s = s * 10 + x end return s"), Nums(<<21>>)),
  P(C("return pcall(C.create, C.yield)"), ok(<<false, str("bad argument")>>)),
  P(C("local co = C.create(function() local function f() return f() + 1 end return pcall(f) end) return C.resume(co)"), ok(<<true, false, str("stack overflow")>>))}

Strings == {
  P("local s = 'abcde' return s:sub(2, -2), s:sub(-3), s:sub(0, 9), s:sub(4, 2), s:byte(-1), #s:rep(3), s:rep(-1)", ok(<<str("bcd"), str("cde"), str("abcde"), str(""), num(101), num(15), str("")>>)),
  P("return ('aBc'):upper(), ('aBc'):lower(), ('abc'):reverse(), string.char(72, 105), ('Hi'):byte(1, -1)", ok(<<str("ABC"), str("abc"), str("cba"), str("Hi"), num(72), num(105)>>)),
  P("local r = '' for k, v in ('a1, b22'):gmatch('(%a)(%d+)') do r = r .. v .. k end for w in ('x'):gmatch('y*') do r = r .. '[' .. w .. ']' end return r", Strs(<<"1a22b[][]">>)),
  P("return ('f(a(b)c)d'):match('%b()'), ('THE (q) x'):gsub('%f[%a]%a+', '%0%0'), ('x=1'):gsub('(%w)=(%w)', '%2=%1', 1)", ok(<<str("(a(b)c)"), str("THETHE (qq) xx"), str("1=x"), num(1)>>)),
  P("return ('a.b'):find('.', 1, true), ('a.b'):find('%.'), ('abc'):find('^b'), ('abc'):find('c$', -1)", ok(<<num(2), num(2), nil, num(3), num(3)>>)),
  P("local n = 0 return ('abc'):gsub('%w', function(c) n = n + 1 if c ~= 'b' then return c .. n end end)", ok(<<str("a1bc3"), num(3)>>)),
  P("return ('abc'):gsub('%w', {a = 1, b = false, c = 'C'}), ('abc'):gsub('b', '%%'), pcall(('x').gsub, 'x', '.', {x = {}})", ok(<<str("1bC"), str("a%c"), false, str("invalid replacement value")>>)),
  P("local s, e = pcall(string.gsub, 'abc', '%w', function(c) if c == 'b' then error('in', 0) end end) return e, (('ab'):gsub('', '-'))", Strs(<<"in", "-a-b-">>)),
  P("local C = coroutine return C.resume(C.create(function() return ('a'):gsub('a', C.yield) end))", ok(<<false, str("attempt to yield across metamethod/C-call boundary")>>)),
  P("return pcall(string.find, 'a', '(a'), pcall(string.find, 'a', '[a'), pcall(string.match, 'a', 'a)')", ok(<<false, false, false, str("invalid pattern capture")>>)),
  P("return pcall(string.rep, 'a'), pcall(string.find, 'aaaa', '()()()()'), pcall(string.find, 'a', '%1')", ok(<<false, false, false, str("invalid capture index")>>)),
  P("return pcall(string.gsub, 'a', 'a', '%2'), pcall(string.find, 'a', '%f'), pcall(string.find, 'a', '%ba'), pcall(string.find, 'a', '%')", ok(<<false, false, false, false, str("malformed pattern")>>)),
  P("return ('x').len, #'x', ('x').y, pcall(function() return ('x').y.z end)", ok(<<<<"cfunction", "len">>, num(1), nil, false, str("attempt to index a value")>>))}

TableFns == {
  P("local t = {3, 1, 2} table.insert(t, 4) table.insert(t, 1, 0) table.sort(t) return table.concat(t, ','), table.remove(t, 2), table.remove(t), #t, table.concat(t)", ok(<<str("0,1,2,3,4"), num(1), num(4), num(3), str("023")>>)),
  P("local t = {'b', 'a', 'ab', '', 'b', 'B'} table.sort(t) return table.concat(t, ',')", Strs(<<",B,a,ab,b,b">>)),
  P("local t = {5, 3, 9, 1, 8, 3, 7, 2} table.sort(t) return unpack(t)", Nums(<<1, 2, 3, 3, 5, 7, 8, 9>>)),
  P("return pcall(table.sort, {1, 'x', 2}), pcall(table.insert, {}, 1, 2, 3), pcall(table.concat, {1, {}})", ok(<<false, false, false, str("bad argument")>>)),
  P("return table.concat({1, 2, 3}, '-', 2), table.concat({}, 'x'), table.concat({1, 2}, ', ', 2, 1), table.remove({}), table.maxn({1, [9] = 2, x = 3}), table.getn({1, 2})", ok(<<str("2-3"), str(""), str(""), nil, num(9), num(2)>>)),
  P("local t = {} for i = 1, 5 do table.insert(t, 1, i) end local r = '' for i, v in ipairs(t) do r = r .. i .. v end return r, unpack(t, 4)", ok(<<str("1524334251"), num(2), num(1)>>))}

Basics == {
  P("return type(nil), type(type), type('x'), select('#', 1, nil), select(-1, 1, 2), select(2, 1, 2, 3)", ok(<<str("nil"), str("function"), str("string"), num(2), num(2), num(2), num(3)>>)),
  P("return tonumber(' 12 '), tonumber('0x10'), tonumber('1x'), tonumber('ff', 16), tonumber('7', 2), tonumber('-3') + '4', tostring(12) .. tostring(nil)", ok(<<num(12), num(16), nil, num(255), nil, num(1), str("12nil")>>)),
  P("return pcall(tonumber, {}, 99), pcall(assert, false), pcall(assert, nil, 'm'), assert(1, 2)", ok(<<false, false, false, num(1), num(2)>>)),
  P("local t = setmetatable({}, {__tostring = function() return 'T' end, __metatable = 'M', __index = function() return 1 end}) return tostring(t), getmetatable(t), rawget(t, 'x'), t.x, rawequal(t, t), getmetatable('').__index == string", ok(<<str("T"), str("M"), nil, num(1), true, true>>)),
  P("local t = setmetatable({}, {__newindex = function() end}) t.x = 1 rawset(t, 'y', 2) return t.x, t.y, unpack({1, 2, 3}, 2, 3)", ok(<<nil, num(2), num(2), num(3)>>)),
  P("local r = 0 for i, v in ipairs({1, 2, nil, 4}) do r = r * 10 + v end return r, pcall(ipairs), pcall(setmetatable, 1, {})", ok(<<num(12), false, false, str("bad argument")>>)),
  P("x = 1 local f = loadstring('local a = ... x = x + a return x, a') return f(2), x, loadstring('return = 1')", ok(<<num(3), num(3), nil, str("unexpected symbol")>>)),
  P("local f = loadstring('return ' .. ('('):rep(8) .. 1 .. (')'):rep(8)) local function deep(n) if n == 0 then return loadstring('return ' .. ('('):rep(8) .. 1 .. (')'):rep(8)) end local s, g = pcall(deep, n - 1) return g end return f(), deep(1)(), deep(4)", ok(<<num(1), num(1), nil>>)),
  P("return tostring(setmetatable({}, {__tostring = function() error('t', 0) end}))", error(str("t")))}

-----------------------------------------------------------------------------
(* Patterns.  The reference gives every way to match the items of a        *)
(* pattern, in the order of preference; the first one is the match.        *)

Item(text, set, rep) == [kind |-> "class", text |-> text, set |-> set, rep |-> rep]
Group(p)             == [kind |-> "group", items |-> p]
Back                 == [kind |-> "back"]
Place                == [kind |-> "place"]

RECURSIVE Written(_)
Written(p) == FoldLeft(LAMBDA t, x : t \o CASE x.kind = "class" -> x.text \o x.rep
                                           [] x.kind = "group" -> "(" \o Written(x.items) \o ")"
                                           [] x.kind = "back"  -> "%1"
                                           [] x.kind = "place" -> "()", "", p)

Lengths(n, rep) == CASE rep = ""  -> IF n >= 1 THEN <<1>> ELSE <<>>
                     [] rep = "*" -> [k \in 1..n + 1 |-> n + 1 - k]
                     [] rep = "+" -> [k \in 1..n |-> n + 1 - k]
                     [] rep = "-" -> [k \in 1..n + 1 |-> k - 1]
                     [] rep = "?" -> IF n >= 1 THEN <<1, 0>> ELSE <<0>>
From(s, i, j) == str(SubSeq(s, i, j - 1))

RECURSIVE Ways(_, _, _)
Step(x, s, w) ==
  LET fit  == {n \in 0..Len(s) + 1 - w.e : \A k \in 0..n - 1 : char(s, w.e + k) \in x.set}
      lens == Lengths(Cardinality(fit) - 1, x.rep)
      into == Ways(x.items, s, [e |-> w.e, cap |-> <<>>])
      same == w.e + Len(w.cap[1][2])
  IN  CASE x.kind = "class" -> [k \in DOMAIN lens |-> [w EXCEPT !.e = @ + lens[k]]]
        [] x.kind = "group" -> [k \in DOMAIN into |->
                                  [e |-> into[k].e, cap |-> w.cap \o <<From(s, w.e, into[k].e)>> \o into[k].cap]]
        [] x.kind = "place" -> <<[w EXCEPT !.cap = Append(@, num(w.e))]>>
        [] x.kind = "back"  -> IF same <= Len(s) + 1 /\ From(s, w.e, same) = w.cap[1]
                               THEN <<[w EXCEPT !.e = same]>> ELSE <<>>
Ways(p, s, w) == IF p = <<>> THEN <<w>>
                 ELSE LET first == Step(p[1], s, w)
                      IN  FlattenSeq([k \in DOMAIN first |-> Ways(Tail(p), s, first[k])])
WaysAt(p, s, i) == Ways(p, s, [e |-> i, cap |-> <<>>])

Found(p, s) ==
  LET at == {i \in 1..Len(s) + 1 : WaysAt(p, s, i) # <<>>}
      i  == Min(at)
      w  == WaysAt(p, s, i)[1]
  IN  IF at = {} THEN <<nil>> ELSE <<num(i), num(w.e - 1)>> \o w.cap

\* each match in turn is put between <>; an empty one leaves a character alone
RECURSIVE Marked(_, _, _)
Marked(p, s, i) ==
  LET w == WaysAt(p, s, i)
      e == w[1].e
      r(j, t) == IF i > Len(s) THEN t ELSE t \o Marked(p, s, j)
  IN  IF w = <<>> THEN r(i + 1, char(s, i))
      ELSE IF e > i THEN "<" \o SubSeq(s, i, e - 1) \o ">" \o Marked(p, s, e)
      ELSE r(i + 1, "<>" \o char(s, i))

Classes(reps) == {Item("a", {"a"}, r) : r \in reps} \cup {Item("[^b]", {"a", "c"}, r) : r \in reps}
Anything(reps) == {Item(".", {"a", "b", "c"}, r) : r \in reps}
Patterns ==
  {<<x, y, z>> : x \in Classes({"*", "-", "?"}), y \in Classes({"", "*", "+"}) \cup Anything({"-"}), z \in {Place, Item("b", {"b"}, "")}}
  \cup {<<Group(<<x, y>>), z, Back>> : x \in Classes({"", "-"}), y \in Anything({"*", "-", "?"}), z \in Classes({"?"}) \cup {Place}}
  \cup {<<Group(<<x, Group(<<y>>)>>), z>> : x \in Anything({"*", "-"}), y \in Classes({"*", "?"}), z \in Classes({"", "+"})}
Subjects == {"aabcaab", "bacacab"}
Q(s) == "'" \o s \o "'"
Matching == {P("return (" \o Q(s) \o "):find(" \o Q(Written(p)) \o ")", ok(Found(p, s))) : p \in Patterns, s \in Subjects}
            \cup {P("return ((" \o Q(s) \o "):gsub(" \o Q(Written(p)) \o ", '<%0>'))", Strs(<<Marked(p, s, 1)>>)) :
                   p \in Patterns, s \in {"aabcab"}}

Bad(src, msg) == P(src, <<"syntax", msg>>)
Syntax == {
  Bad("break", "no loop to break"), Bad("local x = = 1", "unexpected symbol"), Bad("return 1 return 2", "<eof> expected"),
  Bad("if x then", "end expected"), Bad("f() = 1", "unexpected symbol"), Bad("x", "= expected"),
  Bad("for i = 1 do end", ", expected"), Bad("local function t.x() end", "( expected"), Bad("x = 'a", "unfinished string"),
  Bad("x = [[a", "unfinished long string"), Bad("--[[ a", "unfinished long string"), Bad("x = 1e", "malformed number"),
  Bad("x = '\\300'", "escape sequence too large"), Bad("a.1 = 2", "malformed number"),
  Bad("x = function() return ... end", "cannot use '...'"), Bad("f\n(x)", "ambiguous syntax (function call x new statement)"),
  Bad("local a, b, c, d, e, f, g, h, i, j, k, l, m", "too many local variables"),
  Bad("local a, b, c, d, e function f() a, b, c, d, e = 1 end", "too many upvalues"),
  Bad("x = (((((((((((1)))))))))))", "too many syntax levels"),
  Bad("x = {{{{{{{{{{{1}}}}}}}}}}}", "too many syntax levels")}

Pool == Booleans \cup Assignments \cup Flow \cup Closures \cup Tables \cup Varargs \cup Metamethods
        \cup Errors \cup Coroutines \cup Syntax \cup Strings \cup TableFns \cup Basics \cup Matching
=============================================================================
