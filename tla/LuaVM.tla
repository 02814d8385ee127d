------------------------------- MODULE LuaVM -------------------------------
(***************************************************************************)
(* The interpreter of Lua (lvm.c) with its calls, errors and coroutines    *)
(* (ldo.c, lfunc.c, and the functions of lbaselib.c that use them), running*)
(* compiled programs one instruction at a time.                            *)
(*                                                                         *)
(* vm.L has one lua_State per thread; vm.C is the C stack they share: an   *)
(* activation of luaV_execute with its nexeccalls, a luaD_call with what   *)
(* its caller does afterwards, a lua_resume, or a parser.  The protected   *)
(* calls are luaD_calls; an error unwinds vm.C to the innermost of them or *)
(* to a lua_resume.  Stacks do not move and hooks are off; the collector   *)
(* is the subject of LuaGC.                                                *)
(***************************************************************************)
EXTENDS LuaCheck, LuaLib

CONSTANTS Programs,       \* records: src, the text of a chunk, and meaning, what it comes to
          Compile(_, _),  \* the compiler, LuaParser's luaY_parser
          LUAI_MAXCALLS,  \* limit of the CallInfo stack
          BASIC_CI_SIZE,  \* its first size, doubled as needed
          STACKSIZE,      \* slots of a stack
          MAXTAGLOOP

VARIABLES prog, vm

vars == <<prog, vm>>

Main     == 1
Closed   == <<>>
isfunction(v)  == type(v) \in {"function", "cfunction"}

L(m)        == m.L[m.cur]
Slot(m, i)  == L(m).stack[i]
SetSlot(m, i, v) == [m EXCEPT !.L[m.cur].stack[i] = v]
SetTop(m, t)  == [m EXCEPT !.L[m.cur].top = t]
Push(m, v)    == SetTop(SetSlot(m, L(m).top, v), L(m).top + 1)
PushAll(m, s) == FoldLeft(Push, m, s)
Values(m, i)  == SubSeq(L(m).stack, i, L(m).top - 1)     \* from slot i to the top
ci(m)         == Last(L(m).ci)
cl(m)         == m.clo[Slot(m, ci(m).func)[2]]
Code(m)       == cl(m).p.code
Jump(m, d)    == [m EXCEPT !.L[m.cur].savedpc = @ + d]   \* dojump
PushC(m, f)   == [m EXCEPT !.C = Append(@, f)]
PopC(m)       == [m EXCEPT !.C = Front(@)]
Do(m, what)   == [m EXCEPT !.r = what]                    \* before anything else
lua_assert(m, p) == [m EXCEPT !.ok = @ /\ p]

-----------------------------------------------------------------------------
(* Upvalues.                                                               *)

Open(m, t) == {u \in DOMAIN m.uv : m.uv[u].at # Closed /\ m.uv[u].at[1] = t}
ValueOf(m, u) == LET at == m.uv[u].at
                 IN  IF at = Closed THEN m.uv[u].v ELSE m.L[at[1]].stack[at[2]]
SetUp(m, u, v) == LET at == m.uv[u].at
                  IN  IF at = Closed THEN [m EXCEPT !.uv[u].v = v]
                      ELSE [m EXCEPT !.L[at[1]].stack[at[2]] = v]

\* the upvalue of slot i, and the state in which there is one
luaF_findupval(m, i) ==
  LET found == {u \in Open(m, m.cur) : m.uv[u].at[2] = i}
  IN  IF found # {} THEN [m |-> m, u |-> CHOOSE u \in found : TRUE]
      ELSE [m |-> [m EXCEPT !.uv = Append(@, [at |-> <<m.cur, i>>, v |-> nil])],
            u |-> Len(m.uv) + 1]

luaF_close(m, level) ==
  [m EXCEPT !.uv = [u \in DOMAIN @ |-> IF u \in Open(m, m.cur) /\ @[u].at[2] >= level
                                       THEN [at |-> Closed, v |-> ValueOf(m, u)] ELSE @[u]]]

-----------------------------------------------------------------------------
(* Calls and errors.  vm.r is what has to be done before anything else: "c", *)
(* to run the C function that has been entered; "error", to call the error *)
(* handler; the status of a luaD_throw, to unwind; or "lua", to run the    *)
(* function entered, which the caller of luaD_precall sees to.             *)

luaG_errormsg(m) == Do(m, "error")
luaD_throw(m, status) == Do(m, status)
luaG_runerror(m, msg) == luaG_errormsg(Push(m, str(msg)))

\* opens a hole at func for the metamethod
tryfuncTM(m, func) ==
  PushAll(SetTop(m, func), <<luaT_gettmbyobj(m, Slot(m, func), "__call")>> \o Values(m, func))

\* The fixed parameters move above the extra arguments.  LUA_COMPAT_VARARG: a
\* function that names `arg' gets those in a table.
varargs_table(m, extra) ==
  Push(luaH_new(m, [k \in {num(i) : i \in DOMAIN extra} \cup {str("n")} |->
                      IF k = str("n") THEN num(Len(extra)) ELSE extra[k[2]]]), NewTable(m))
move_fixed(m, p, fixed) ==
  LET params == [i \in 1..p.numparams |-> fixed + i - 1]
      moved  == PushAll(m, [i \in DOMAIN params |-> Slot(m, params[i])])
      wiped  == FoldLeft(LAMBDA x, j : SetSlot(x, j, nil), moved, params)
  IN  IF "NEEDSARG" \in p.is_vararg THEN varargs_table(wiped, Values(m, fixed + p.numparams)) ELSE wiped
adjust_varargs(m, p, actual) ==
  LET missing == [i \in 1..p.numparams - actual |-> nil]
  IN  move_fixed(PushAll(m, missing), p, L(m).top - actual)

EnterCI(m, func, base, top, nresults) ==
  [m EXCEPT !.L[m.cur].base = base,
            !.L[m.cur].size_ci = IF Len(L(m).ci) = @ THEN 2 * @ ELSE @,
            !.L[m.cur].ci = Append(@, [func |-> func, base |-> base, top |-> top,
                                       savedpc |-> 0, nresults |-> nresults])]

\* past its limit the stack doubles once more, to handle the error
FullCI(m) == Len(L(m).ci) = L(m).size_ci /\ 2 * L(m).size_ci > LUAI_MAXCALLS
growCI_again(m) == luaG_runerror([m EXCEPT !.L[m.cur].size_ci = 2 * @], "stack overflow")
growCI(m) == IF L(m).size_ci > LUAI_MAXCALLS THEN luaD_throw(m, "ERRERR")
             ELSE luaG_runerror([m EXCEPT !.L[m.cur].size_ci = 2 * @], "stack overflow")

EnterLua(m, func, p, base, nresults) ==
  LET in == EnterCI(m, func, base, base + p.maxstack, nresults)
      nils == [i \in 1..base + p.maxstack - L(m).top |-> nil]
  IN  Do([PushAll(in, nils) EXCEPT !.L[m.cur].savedpc = 0], "lua")

precall_lua(m, func, p, args, nresults) ==
  IF p.is_vararg = {}
  THEN EnterLua(IF args > p.numparams THEN SetTop(m, func + 1 + p.numparams) ELSE m,
                func, p, func + 1, nresults)
  ELSE EnterLua(adjust_varargs(m, p, args), func, p,
                L(m).top + (IF args < p.numparams THEN p.numparams - args ELSE 0), nresults)
precall_function(m, func, nresults) ==
  IF FullCI(m) THEN growCI(m)
  ELSE IF type(Slot(m, func)) = "cfunction"
  THEN Do(EnterCI(m, func, func + 1, L(m).top + 20, nresults), "c")
  ELSE precall_lua(m, func, m.clo[Slot(m, func)[2]].p, L(m).top - func - 1, nresults)

savepc(m) == [m EXCEPT !.L[m.cur].ci[Len(L(m).ci)].savedpc = L(m).savedpc]
luaD_precall(m0, func, nresults) ==
  LET m == IF isfunction(Slot(m0, func)) THEN m0 ELSE tryfuncTM(m0, func)
  IN  IF isfunction(Slot(m, func)) THEN precall_function(savepc(m), func, nresults)
      ELSE luaG_runerror(m0, "attempt to call a value")

luaD_poscall(m, first) ==
  LET c == ci(m)
      below == L(m).ci[Len(L(m).ci) - 1]
      got  == Values(m, first)
      res  == IF c.nresults = MULTRET THEN got
              ELSE [i \in 1..c.nresults |-> IF i <= Len(got) THEN got[i] ELSE nil]
  IN  PushAll(SetTop([m EXCEPT !.L[m.cur].ci = Front(@), !.L[m.cur].base = below.base,
                               !.L[m.cur].savedpc = below.savedpc], c.func), res)

\* A C function returns; an interpreter that called it corrects the top.
Return(m, vals) ==
  LET p == luaD_poscall(PushAll(m, vals), L(m).top)
      i == Code(p)[L(p).savedpc]
  IN  IF Last(p.C).fn = "execute" /\ i.op = "CALL" /\ i.c # 0 THEN SetTop(p, ci(p).top) ELSE p

luaV_execute(m) == IF m.r = "lua" THEN Do(PushC(m, [fn |-> "execute", n |-> 1]), "") ELSE m
counted_call(m, func, nresults) ==
  IF L(m).nCcalls = LUAI_MAXCCALLS THEN luaG_runerror(m, "C stack overflow")
  ELSE IF L(m).nCcalls >= LUAI_MAXCCALLS + LUAI_MAXCCALLS \div 8 THEN luaD_throw(m, "ERRERR")
  ELSE luaV_execute(luaD_precall(m, func, nresults))
luaD_call(m, func, nresults, then) ==
  counted_call(PushC([m EXCEPT !.L[m.cur].nCcalls = @ + 1], then @@ [fn |-> "call"]), func, nresults)

\* luaD_pcall of the function at slot func
luaD_pcall(m, func, errfunc, kind) ==
  luaD_call([m EXCEPT !.L[m.cur].errfunc = errfunc], func, MULTRET,
            [kind |-> kind, func |-> func, ci |-> Len(L(m).ci), nCcalls |-> L(m).nCcalls,
             errfunc |-> L(m).errfunc])

-----------------------------------------------------------------------------
(* Errors.  The error value is on the top of the stack.                    *)

catches(f) == f.fn = "resume" \/ (f.fn = "call" /\ f.kind \in {"pcall", "host"})

unwind(m, status) ==
  LET j    == Max({i \in DOMAIN m.C : catches(m.C[i])})
      f    == m.C[j]
      err  == IF status = "ERRERR" THEN str("error in error handling")
              ELSE Slot(m, L(m).top - 1)
      out  == [m EXCEPT !.C = SubSeq(@, 1, j - 1)]
      cis  == SubSeq(L(m).ci, 1, f.ci)
      back == [Push(SetTop(luaF_close(out, f.func), f.func), err) EXCEPT
                 !.L[m.cur].ci = cis, !.L[m.cur].base = Last(cis).base,
                 !.L[m.cur].savedpc = Last(cis).savedpc, !.L[m.cur].nCcalls = f.nCcalls,
                 !.L[m.cur].errfunc = f.errfunc,
                 !.L[m.cur].size_ci = IF @ > LUAI_MAXCALLS /\ f.ci < LUAI_MAXCALLS
                                      THEN LUAI_MAXCALLS ELSE @]
      dead == [out EXCEPT !.L[m.cur].status = status, !.cur = f.from]
  IN  CASE f.fn = "resume" /\ f.wrap  -> luaG_errormsg(Push(dead, err))
        [] f.fn = "resume" /\ ~f.wrap -> Return(dead, <<bool(FALSE), err>>)
        [] f.fn = "call" /\ f.kind = "pcall" -> Return(back, <<bool(FALSE), err>>)
        [] f.fn = "call" /\ f.kind = "host" -> [back EXCEPT !.result = <<"error", err>>]

call_errfunc(m) ==
  LET h == L(m).errfunc
      n == Push(SetSlot(m, L(m).top - 1, Slot(m, h)), Slot(m, L(m).top - 1))
  IN  IF h = 0 THEN luaD_throw(m, "ERRRUN")
      ELSE IF ~isfunction(Slot(m, h)) THEN luaD_throw(m, "ERRERR")
      ELSE luaD_call(n, L(n).top - 2, 1, [kind |-> "throw"])

-----------------------------------------------------------------------------
(* The C functions, called with their arguments from L.base to the top.    *)

NewThread == [stack |-> [i \in 1..STACKSIZE |-> nil], top |-> 2, base |-> 2, savedpc |-> 0,
              ci |-> <<[func |-> 1, base |-> 2, top |-> 22, savedpc |-> 0, nresults |-> 0]>>,
              size_ci |-> BASIC_CI_SIZE, nCcalls |-> 0, errfunc |-> 0, status |-> "0"]

luaB_xpcall(m, args) ==
  LET base == L(m).base
  IN  luaD_pcall(PushAll(SetTop(m, base), <<args[2], args[1]>>), base + 1, base, "pcall")

luaB_setmetatable(m, args) ==
  IF type(args[2]) \notin {"table", "nil"}
  THEN luaG_runerror(m, "bad argument")
  ELSE IF luaT_gettmbyobj(m, args[1], "__metatable") # nil
  THEN luaG_runerror(m, "cannot change a protected metatable")
  ELSE Return([m EXCEPT !.tab[args[1][2]].mt = args[2]], <<args[1]>>)

luaB_cocreate(m, args, wrap) ==
  LET t  == [NewThread EXCEPT !.stack[2] = args[1], !.top = 3]
      co == Len(m.L) + 1
  IN  Return([m EXCEPT !.L = Append(@, t)],
             <<IF wrap THEN <<"cfunction", "auxwrap", co>> ELSE <<"thread", co>>>>)

\* the interpreter that called it ends
lua_yield_anywhere(m) == PopC([m EXCEPT !.L[m.cur].status = "YIELD"])
lua_yield(m) ==
  IF L(m).nCcalls > 0
  THEN luaG_runerror(m, "attempt to yield across metamethod/C-call boundary")
  ELSE PopC([m EXCEPT !.L[m.cur].status = "YIELD"])

\* m.cur is the coroutine, with the arguments on its stack
resume(m, nargs) ==
  LET first == L(m).top - nargs
      go == [m EXCEPT !.L[m.cur].status = "0"]
      run(x, n) == PushC(x, [fn |-> "execute", n |-> n])
  IN  IF L(m).status = "0" THEN Do(run(luaD_precall(m, first - 1, MULTRET), 1), "")
      ELSE Return(run(SetTop(go, first), Len(L(m).ci) - 2), Values(m, first))

auxresume(m, co, args, wrap) ==
  LET c == m.L[co]
      refuse(x, msg) == IF wrap THEN luaG_runerror(x, msg)
                        ELSE Return(x, <<bool(FALSE), str(msg)>>)
      popped == SetTop(m, L(m).top - Len(args))
      moved  == PushAll([popped EXCEPT !.cur = co], args)
  IN  CASE c.status \in {"ERRRUN", "ERRERR"} \/ (c.status = "0" /\ c.top = c.base) ->
             refuse(popped, "cannot resume dead coroutine")
        [] c.status = "0" /\ c.top # c.base /\ Len(c.ci) > 1 ->
             refuse([popped EXCEPT !.L[co].top = c.base], "cannot resume non-suspended coroutine")
        [] OTHER -> resume(lua_assert(PushC(moved, [fn |-> "resume", from |-> m.cur, wrap |-> wrap]),
                                      c.errfunc = 0 /\ c.nCcalls = 0), Len(args))

costatus(m, co) ==
  LET c == m.L[co]
  IN  CASE m.cur = co -> "running"
        [] m.cur # co /\ c.status = "YIELD" -> "suspended"
        [] m.cur # co /\ c.status = "0" /\ Len(c.ci) > 1 -> "normal"
        [] m.cur # co /\ c.status = "0" /\ Len(c.ci) = 1 /\ c.top > c.base -> "suspended"
        [] OTHER -> "dead"

\* a substitution ends, or calls the function that gives the replacement
gsub_goes_on(m, g) ==
  LET caps == push_captures(g.ms, g.s, g.e)
  IN  IF g.ms.error # "" THEN luaG_runerror(m, g.ms.error)
      ELSE IF g.done THEN Return(m, gsub_result(g))
      ELSE IF caps.error # "" THEN luaG_runerror(m, caps.error)
      ELSE luaD_call(PushAll(m, <<g.repl>> \o caps.vals), L(m).top, 1, [kind |-> "gsub", g |-> g])

Returned(d) == IF d.error # "" THEN luaG_runerror(d.m, d.error) ELSE Return(d.m, d.vals)
CallC(m, f) ==
  LET args == Values(m, L(m).base)
      tm   == luaT_gettmbyobj(m, args[1], "__tostring")
  IN  IF ~accepts(f[2], args) THEN luaG_runerror(m, "bad argument")
      ELSE CASE f[2] = "error"  -> luaG_errormsg(Push(m, Append(args, nil)[1]))
             [] f[2] = "pcall"  -> luaD_pcall(m, L(m).base, 0, "pcall")
             [] f[2] = "xpcall" -> luaB_xpcall(m, args)
             [] f[2] = "setmetatable" -> luaB_setmetatable(m, args)
             [] f[2] \in {"create", "wrap"} -> luaB_cocreate(m, args, f[2] = "wrap")
             [] f[2] = "resume" -> auxresume(m, args[1][2], Tail(args), FALSE)
             [] f[2] = "auxwrap" -> auxresume(m, f[3], args, TRUE)
             [] f[2] = "status" -> Return(m, <<str(costatus(m, args[1][2]))>>)
             [] f[2] = "yield"  -> lua_yield(m)
             [] f[2] = "loadstring" -> PushC(m, [fn |-> "parser", text |-> luaL_checkstring(args, 1)])
             [] f[2] = "gsub"   -> gsub_goes_on(m, gsub_start(m, args))
             [] f[2] = "tostring" /\ tm # nil -> luaD_call(PushAll(m, <<tm, args[1]>>), L(m).top, 1, [kind |-> "callmeta"])
             [] OTHER -> Returned(Library(m, f, args))

-----------------------------------------------------------------------------
(* Metamethods of tables and operators.  Each gives the state after the    *)
(* operation, or the one in which its metamethod has been called.          *)

callTMres(m, f, p1, p2, then) == luaD_call(PushAll(m, <<f, p1, p2>>), L(m).top, 1, then)
callTM(m, f, p1, p2, p3) ==
  luaD_call(PushAll(m, <<f, p1, p2, p3>>), L(m).top, 0, [kind |-> "none"])

RECURSIVE luaV_gettable(_, _, _, _, _), luaV_settable(_, _, _, _, _)
luaV_gettable(m, t, key, val, loop) ==
  LET tm  == luaT_gettmbyobj(m, t, "__index")
      res == luaH_get(m, t, key)
  IN  IF loop = MAXTAGLOOP THEN luaG_runerror(m, "loop in gettable")
      ELSE IF type(t) = "table" /\ (res # nil \/ tm = nil) THEN SetSlot(m, val, res)
      ELSE IF tm = nil THEN luaG_runerror(m, "attempt to index a value")
      ELSE IF isfunction(tm) THEN callTMres(m, tm, t, key, [kind |-> "res", to |-> val])
      ELSE luaV_gettable(m, tm, key, val, loop + 1)

luaV_settable(m, t, key, val, loop) ==
  LET tm  == luaT_gettmbyobj(m, t, "__newindex")
      old == luaH_get(m, t, key)
  IN  IF loop = MAXTAGLOOP THEN luaG_runerror(m, "loop in settable")
      ELSE IF type(t) = "table" /\ key = nil THEN luaG_runerror(m, "table index is nil")
      ELSE IF type(t) = "table" /\ (old # nil \/ tm = nil) THEN luaH_set(m, t, key, val)
      ELSE IF tm = nil THEN luaG_runerror(m, "attempt to index a value")
      ELSE IF isfunction(tm) THEN callTM(m, tm, t, key, val)
      ELSE luaV_settable(m, tm, key, val, loop + 1)

call_binTM(m, p1, p2, event, then, msg) ==
  LET first == luaT_gettmbyobj(m, p1, event)
      tm == IF first # nil THEN first ELSE luaT_gettmbyobj(m, p2, event)
  IN  IF tm = nil THEN luaG_runerror(m, msg) ELSE callTMres(m, tm, p1, p2, then)

Event == [ADD |-> "__add", SUB |-> "__sub", MUL |-> "__mul", DIV |-> "__div", MOD |-> "__mod",
          POW |-> "__pow", UNM |-> "__unm", LT |-> "__lt", LE |-> "__le"]
Arithmetic(m, ra, rb, rc, op) ==
  LET b == luaV_tonumber(rb)
      c == luaV_tonumber(rc)
  IN  IF nil \notin {b, c} THEN SetSlot(m, ra, num(Number(op, b[2], c[2])))
      ELSE call_binTM(m, rb, rc, Event[op], [kind |-> "res", to |-> ra],
                      "attempt to perform arithmetic on a value")

Jumped(m) == Code(m)[L(m).savedpc + 1].b + 1      \* over the jump that follows a test

\* the comparison i at hand came out res: jump, or skip the jump
compared(m, i, res) == Jump(m, IF res = (i.a = 1) THEN Jumped(m) ELSE 1)

get_compTM(m, t1, t2) ==
  LET tm1 == luaT_gettmbyobj(m, t1, "__eq")
  IN  IF luaT_gettmbyobj(m, t2, "__eq") = tm1 THEN tm1 ELSE nil
luaV_equalval(m, i, b, c) ==
  LET tm == get_compTM(m, b, c)
  IN  IF b # c /\ type(b) = "table" /\ type(c) = "table" /\ tm # nil
      THEN callTMres(m, tm, b, c, [kind |-> "cond", not |-> FALSE])
      ELSE compared(m, i, b = c)

order_TM(m, p1, p2, event) ==
  LET tm == luaT_gettmbyobj(m, p1, event)
  IN  IF luaT_gettmbyobj(m, p2, event) = tm THEN tm ELSE nil

\* `<', and `<=' which tries not (c < b) when there is no __le
luaV_lessthan(m, i, b, c) ==
  LET tm == order_TM(m, b, c, Event[i.op])
      lt == order_TM(m, c, b, "__lt")
  IN  CASE type(b) # type(c) -> luaG_runerror(m, "attempt to compare")
        [] type(b) = "number" /\ type(c) = "number" ->
             compared(m, i, b[2] < c[2] \/ (i.op = "LE" /\ b = c))
        [] type(b) = "string" /\ type(c) = "string" ->
             compared(m, i, l_strcmp(b[2], c[2]) \/ (i.op = "LE" /\ b = c))
        [] OTHER ->
             IF tm # nil THEN callTMres(m, tm, b, c, [kind |-> "cond", not |-> FALSE])
             ELSE IF i.op = "LE" /\ lt # nil
             THEN callTMres(m, lt, c, b, [kind |-> "cond", not |-> TRUE])
             ELSE luaG_runerror(m, "attempt to compare")

\* concatenates the registers up to last into the first of them, two or
\* more strings at a time from the right
RECURSIVE luaV_concat(_, _, _, _)
luaV_concat(m, i, total, last) ==
  LET top == L(m).base + last + 1
      x == Slot(m, top - 2)
      y == Slot(m, top - 1)
      runs == {k \in 2..total : \A j \in 1..k : isstring(Slot(m, top - j))}
      n == IF y = str("") THEN 2 ELSE Max(runs)
      all == FoldLeft(LAMBDA s, j : s \o tostring(Slot(m, top - n - 1 + j)), "",
                      [j \in 1..n |-> j])
  IN  IF total = 1 THEN SetSlot(m, L(m).base + i.a, Slot(m, L(m).base + i.b))
      ELSE IF isstring(x) /\ isstring(y)
      THEN luaV_concat(SetSlot(m, top - n, str(all)), i, total - n + 1, last - n + 1)
      ELSE call_binTM(m, x, y, "__concat", [kind |-> "concat", to |-> top - 2, total |-> total - 1,
                                            last |-> last - 1], "attempt to concatenate a value")

-----------------------------------------------------------------------------
(* The instructions.  m has its savedpc past the instruction i; ra is the  *)
(* slot of its register A.                                                 *)

R(m, b)  == Slot(m, L(m).base + b)
K(m, b)  == cl(m).p.k[b + 1]
RKx(m, b) == IF b >= BITRK THEN K(m, b - BITRK) ELSE R(m, b)

op_load(m, i, ra) ==
  CASE i.op = "MOVE"     -> SetSlot(m, ra, R(m, i.b))
    [] i.op = "LOADK"    -> SetSlot(m, ra, K(m, i.b))
    [] i.op = "LOADBOOL" -> Jump(SetSlot(m, ra, bool(i.b = 1)), IF i.c # 0 THEN 1 ELSE 0)
    [] i.op = "LOADNIL"  -> FoldLeft(LAMBDA x, r : SetSlot(x, ra + r - 1, nil), m,
                                     [r \in 1..i.b - i.a + 1 |-> r])
    [] i.op = "GETUPVAL" -> SetSlot(m, ra, ValueOf(m, cl(m).up[i.b + 1]))
    [] i.op = "SETUPVAL" -> SetUp(m, cl(m).up[i.b + 1], Slot(m, ra))

op_table(m, i, ra) ==
  CASE i.op = "GETGLOBAL" -> luaV_gettable(m, Globals, K(m, i.b), ra, 0)
    [] i.op = "GETTABLE"  -> luaV_gettable(m, R(m, i.b), RKx(m, i.c), ra, 0)
    [] i.op = "SETGLOBAL" -> luaV_settable(m, Globals, K(m, i.b), Slot(m, ra), 0)
    [] i.op = "SETTABLE"  -> luaV_settable(m, Slot(m, ra), RKx(m, i.b), RKx(m, i.c), 0)
    [] i.op = "NEWTABLE"  -> luaH_new(SetSlot(m, ra, NewTable(m)), <<>>)
    [] i.op = "SELF"      -> luaV_gettable(SetSlot(m, ra + 1, R(m, i.b)), R(m, i.b), RKx(m, i.c), ra, 0)

op_arith(m, i, ra) == Arithmetic(m, ra, RKx(m, i.b), RKx(m, i.c), i.op)

op_unary(m, i, ra) ==
  LET rb == R(m, i.b)
  IN  CASE i.op = "UNM" -> Arithmetic(m, ra, rb, rb, "UNM")
        [] i.op = "NOT" -> SetSlot(m, ra, bool(l_isfalse(rb)))
        [] i.op = "LEN" /\ type(rb) = "table"  -> SetSlot(m, ra, num(luaH_getn(m, rb)))
        [] i.op = "LEN" /\ type(rb) = "string" -> SetSlot(m, ra, num(Len(rb[2])))
        [] OTHER -> call_binTM(m, rb, nil, "__len", [kind |-> "res", to |-> ra],
                               "attempt to get length of a value")

op_concat(m, i, ra) == luaV_concat(m, i, i.c - i.b + 1, i.c)

op_jmp(m, i, ra) == Jump(m, i.b)

op_compare(m, i, ra) ==
  IF i.op = "EQ" THEN luaV_equalval(m, i, RKx(m, i.b), RKx(m, i.c))
  ELSE luaV_lessthan(m, i, RKx(m, i.b), RKx(m, i.c))

op_test(m, i, ra) ==
  LET rb == IF i.op = "TEST" THEN Slot(m, ra) ELSE R(m, i.b)
  IN  IF l_isfalse(rb) = (i.c = 1) THEN Jump(m, 1) ELSE Jump(SetSlot(m, ra, rb), Jumped(m))

Args(m, i, ra) == IF i.b # 0 THEN SetTop(m, ra + i.b) ELSE m

reentry(p) == IF p.r = "lua" THEN Do([p EXCEPT !.C[Len(p.C)].n = @ + 1], "") ELSE p
op_call(m, i, ra) == reentry(luaD_precall(Args(m, i, ra), ra, i.c - 1))

\* the frame of the called function takes the place of the caller's
replace_frame(p, old, new) ==
  LET base == old.func + new.base - new.func
      down == PushAll(SetTop(luaF_close(p, old.base), old.func), Values(p, new.func))
      in   == [old EXCEPT !.base = base, !.top = L(down).top]
  IN  lua_assert([Do(down, "") EXCEPT !.L[p.cur].base = base,
                                      !.L[p.cur].ci = Append(Front(Front(@)), in)],
                 L(down).top = base + cl(p).p.maxstack)
tailcalled(p) == IF p.r # "lua" THEN p ELSE replace_frame(p, L(p).ci[Len(L(p).ci) - 1], ci(p))
op_tailcall(m, i, ra) == tailcalled(luaD_precall(Args(m, i, ra), ra, MULTRET))

op_return_open(m, i, ra) ==
  LET top == IF i.b # 0 THEN SetTop(m, ra + i.b - 1) ELSE m
      ret == luaD_poscall(top, ra)
      more == [ret EXCEPT !.C[Len(m.C)].n = @ - 1]
  IN  IF Last(m.C).n = 1 THEN PopC(ret)
      ELSE IF ci(m).nresults # MULTRET THEN SetTop(more, ci(ret).top) ELSE more
op_return(m, i, ra) ==
  LET top == IF i.b # 0 THEN SetTop(m, ra + i.b - 1) ELSE m
      ret == luaD_poscall(luaF_close(top, L(m).base), ra)
      more == [ret EXCEPT !.C[Len(m.C)].n = @ - 1]
  IN  IF Last(m.C).n = 1 THEN PopC(ret)
      ELSE lua_assert(IF ci(m).nresults # MULTRET THEN SetTop(more, ci(ret).top) ELSE more,
                      Code(ret)[L(ret).savedpc].op = "CALL")

op_forloop(m, i, ra) ==
  LET step == Slot(m, ra + 2)[2]
      idx  == Slot(m, ra)[2] + step
      lim  == Slot(m, ra + 1)[2]
  IN  IF IF step > 0 THEN idx <= lim ELSE lim <= idx
      THEN SetSlot(SetSlot(Jump(m, i.b), ra, num(idx)), ra + 3, num(idx)) ELSE m

op_forprep(m, i, ra) ==
  LET v == [k \in 0..2 |-> luaV_tonumber(Slot(m, ra + k))]
      set == FoldLeft(LAMBDA x, k : SetSlot(x, ra + k, v[k]), m, <<1, 2>>)
  IN  IF \E k \in 0..2 : v[k] = nil THEN luaG_runerror(m, "'for' value must be a number")
      ELSE Jump(SetSlot(set, ra, num(v[0][2] - v[2][2])), i.b)

op_tforloop(m, i, ra) ==
  luaD_call(PushAll(SetTop(m, ra + 3), [k \in 1..3 |-> Slot(m, ra + k - 1)]), ra + 3, i.c,
            [kind |-> "tforloop", ra |-> ra])

\* n items for the block in the instruction, or in the word behind it
setlist(m, i, ra, n) ==
  LET block == IF i.c = 0 THEN Code(m)[L(m).savedpc + 1].b ELSE i.c
      first == (block - 1) * LFIELDS_PER_FLUSH
  IN  FoldLeft(LAMBDA x, k : luaH_set(x, Slot(m, ra), num(first + k), Slot(m, ra + k)),
               IF i.c = 0 THEN Jump(m, 1) ELSE m, [k \in 1..n |-> k])
op_setlist_open(m, i, ra) == setlist(m, i, ra, IF i.b = 0 THEN L(m).top - ra - 1 ELSE i.b)
op_setlist(m, i, ra) ==
  IF i.b = 0 THEN setlist(SetTop(m, ci(m).top), i, ra, L(m).top - ra - 1) ELSE setlist(m, i, ra, i.b)

op_close(m, i, ra) == luaF_close(m, ra)

\* the instructions after it say which upvalues the closure has
op_closure(m, i, ra) ==
  LET p == cl(m).p.p[i.b + 1]
      capture(a, j) ==
        LET u == Code(m)[L(m).savedpc + j]
            f == luaF_findupval(a.m, L(m).base + u.b)
        IN  IF u.op = "GETUPVAL" THEN [a EXCEPT !.up = Append(@, cl(m).up[u.b + 1])]
            ELSE [m |-> f.m, up |-> Append(a.up, f.u)]
      c == FoldLeft(capture, [m |-> m, up |-> <<>>], [j \in 1..p.nups |-> j])
      new == [c.m EXCEPT !.clo = Append(@, [p |-> p, up |-> c.up])]
  IN  Jump(SetSlot(new, ra, <<"function", Len(new.clo)>>), p.nups)

op_vararg(m, i, ra) ==
  LET n == ci(m).base - ci(m).func - cl(m).p.numparams - 1
      b == IF i.b = 0 THEN n ELSE i.b - 1
      set == FoldLeft(LAMBDA x, j : SetSlot(x, ra + j - 1, IF j <= n THEN Slot(m, ci(m).base - n + j - 1)
                                                         ELSE nil), m, [j \in 1..b |-> j])
  IN  IF i.b = 0 THEN SetTop(set, ra + n) ELSE set

-----------------------------------------------------------------------------
(* What follows the return of a luaD_call or of a lua_resume.              *)

\* for a metamethod's result, what the instruction i does with it
Finish(m, then, i) ==
  LET v == Slot(m, L(m).top - 1)
      popped == SetTop(m, L(m).top - 1)
      full == SetTop(m, ci(m).top)
      cb == then.ra + 3
  IN  CASE then.kind = "res"  -> SetSlot(popped, then.to, v)
        [] then.kind = "none" -> m
        [] then.kind = "cond" -> compared(popped, i, l_isfalse(v) = then.not)
        [] then.kind = "concat" -> luaV_concat(SetSlot(popped, then.to, v), i, then.total, then.last)
        [] then.kind = "tforloop" ->
             IF Slot(m, cb) = nil THEN Jump(full, 1)
             ELSE Jump(SetSlot(full, cb - 1, Slot(m, cb)), Jumped(m))
        [] then.kind = "gsub"  -> gsub_goes_on(popped, gsub_loop(advance(add_value(then.g, v))))
        [] then.kind = "callmeta" -> Return(popped, <<v>>)
        [] then.kind = "throw" -> luaD_throw(m, "ERRRUN")
        [] then.kind = "pcall" -> Return([m EXCEPT !.L[m.cur].errfunc = then.errfunc],
                                         <<bool(TRUE)>> \o Values(m, then.func))
        [] then.kind = "host"  -> [m EXCEPT !.result = <<"ok", Values(m, then.func)>>]

call_returns ==
  LET m == PopC([vm EXCEPT !.L[vm.cur].nCcalls = @ - 1])
      i == Code(m)[L(m).savedpc]
  IN  vm' = Finish(m, Last(vm.C), i)

resume_returns ==
  LET f == Last(vm.C)
      m == PopC([SetTop(vm, L(vm).base) EXCEPT !.cur = f.from])
  IN  vm' = Return(m, (IF f.wrap THEN <<>> ELSE <<bool(TRUE)>>) \o Values(vm, L(vm).base))

\* luaB_loadstring: the program is compiled while it runs
protected_parser ==
  LET c == Compile(Last(vm.C).text, L(vm).nCcalls)
      m == lua_assert(PopC(vm), c.ok)
      new == [m EXCEPT !.clo = Append(@, [p |-> c.proto, up |-> <<>>])]
  IN  vm' = IF c.error # "" THEN Return(m, <<nil, str(c.error)>>)
            ELSE Return(new, <<<<"function", Len(new.clo)>>>>)

-----------------------------------------------------------------------------

\* the host compiles a chunk and calls it with lua_pcall
Start(c) ==
  LET main == [NewThread EXCEPT !.stack[2] = <<"function", 1>>, !.top = 3]
      m == [L |-> <<main>>, cur |-> Main, C |-> <<>>, tab |-> [i \in DOMAIN luaL_openlibs |-> [h |-> <<>>, mt |-> nil]], uv |-> <<>>,
            clo |-> <<[p |-> c.proto, up |-> <<>>]>>, r |-> "", ok |-> c.ok,
            result |-> IF c.error = "" THEN <<>> ELSE <<"syntax", c.error>>]
  IN  IF c.error = "" THEN luaD_pcall(m, 2, 0, "host") ELSE m

Init == \E p \in Programs : prog = p /\ vm = Start(Compile(p.src, 0))

Running == vm.result = <<>>
Fetch   == Code(vm)[L(vm).savedpc + 1]
Doing(what) == Running /\ vm.r = what /\ UNCHANGED prog
Calling(fn) == Doing("") /\ Last(vm.C).fn = fn

Execute(ops, op(_, _, _)) ==
  /\ Calling("execute") /\ Fetch.op \in ops
  /\ vm' = op(Jump(vm, 1), Fetch, L(vm).base + Fetch.a)

Next ==
  \/ Execute({"MOVE", "LOADK", "LOADBOOL", "LOADNIL", "GETUPVAL", "SETUPVAL"}, op_load)
  \/ Execute({"GETGLOBAL", "GETTABLE", "SETGLOBAL", "SETTABLE", "NEWTABLE", "SELF"}, op_table)
  \/ Execute(Arith, op_arith)
  \/ Execute({"UNM", "NOT", "LEN"}, op_unary)
  \/ Execute({"CONCAT"}, op_concat)
  \/ Execute({"JMP"}, op_jmp)
  \/ Execute({"EQ", "LT", "LE"}, op_compare)
  \/ Execute({"TEST", "TESTSET"}, op_test)
  \/ Execute({"CALL"}, op_call)
  \/ Execute({"TAILCALL"}, op_tailcall)
  \/ Execute({"RETURN"}, op_return)
  \/ Execute({"FORLOOP"}, op_forloop)
  \/ Execute({"FORPREP"}, op_forprep)
  \/ Execute({"TFORLOOP"}, op_tforloop)
  \/ Execute({"SETLIST"}, op_setlist)
  \/ Execute({"CLOSE"}, op_close)
  \/ Execute({"CLOSURE"}, op_closure)
  \/ Execute({"VARARG"}, op_vararg)
  \/ Calling("call") /\ call_returns
  \/ Calling("resume") /\ resume_returns
  \/ Calling("parser") /\ protected_parser
  \/ Doing("c") /\ vm' = CallC(Do(vm, ""), Slot(vm, ci(vm).func))
  \/ Doing("error") /\ vm' = call_errfunc(Do(vm, ""))
  \/ Doing(vm.r) /\ vm.r \in {"ERRRUN", "ERRERR"} /\ vm' = unwind(Do(vm, ""), vm.r)
  \/ ~Running /\ UNCHANGED vars

Spec == Init /\ [][Next]_vars

-----------------------------------------------------------------------------
(* Properties *)

\* C frame j belongs to the thread of the next lua_resume above it.
ThreadOf(j) == LET above == {i \in j + 1..Len(vm.C) : vm.C[i].fn = "resume"}
               IN  IF above = {} THEN vm.cur ELSE vm.C[Min(above)].from
On(t, fn)   == {j \in DOMAIN vm.C : vm.C[j].fn = fn /\ ThreadOf(j) = t}
Dead(t)     == vm.L[t].status \in {"ERRRUN", "ERRERR"}
LuaFrames(t) == {c \in DOMAIN vm.L[t].ci : type(vm.L[t].stack[vm.L[t].ci[c].func]) = "function"}
Threads     == DOMAIN vm.L

\* ldo.c, ldebug.c: luaD_growCI and luaD_call stop a program that calls
\* without end, an error handler that runs at the limit included.
LimitsHold == \A t \in Threads :
  /\ vm.L[t].top <= STACKSIZE + 1
  /\ Len(vm.L[t].ci) <= vm.L[t].size_ci /\ vm.L[t].size_ci <= 2 * LUAI_MAXCALLS
  /\ vm.L[t].nCcalls <= LUAI_MAXCCALLS + LUAI_MAXCCALLS \div 8
  /\ vm.r \in {"", "c"} /\ (\A j \in On(t, "call") : vm.C[j].kind # "throw")
       => vm.L[t].nCcalls < LUAI_MAXCCALLS

\* lcode.c, lparser.c, lvm.c: a chunk comes to what the manual says of its
\* text, however the compiler places its values, jumps and upvalues.
MeansWhatItSays == Running \/ vm.result = prog.meaning

\* lvm.c, lcode.c, lparser.c, ldo.c: no lua_assert fails, those at the head of
\* the interpreter's loop included, which are about the top that open results
\* leave.
AssertsHold ==
  /\ vm.ok
  /\ Running /\ vm.r = "" /\ Last(vm.C).fn = "execute" =>
       /\ L(vm).base = ci(vm).base /\ L(vm).base <= L(vm).top
       /\ L(vm).top = ci(vm).top \/ luaG_checkopenop(Fetch)

\* lfunc.c, ldo.c: an open upvalue is a register of a function that is still
\* there, after any return, tail call, break or error; a register has one.
OpenUpvaluesInFrames == \A t \in Threads :
  /\ \A u \in Open(vm, t) : \E c \in LuaFrames(t) :
        vm.L[t].ci[c].base <= vm.uv[u].at[2] /\ vm.uv[u].at[2] < vm.L[t].ci[c].top
  /\ \A u, v \in Open(vm, t) : vm.uv[u].at = vm.uv[v].at => u = v

\* ldo.c: the C stack and the stacks of the threads tell the same story: of a
\* thread that has not died by an error, nCcalls counts the C calls that are
\* open, luaV_execute is active for each Lua function it is in, and it has
\* no C frame while it is suspended.
FramesAgree == \A t \in Threads : Dead(t) \/
  LET lua == IF vm.L[t].status = "YIELD" THEN 0 ELSE Cardinality(LuaFrames(t))
  IN  /\ vm.L[t].nCcalls = Cardinality(On(t, "call"))
      /\ vm.L[t].status = "YIELD" => On(t, "call") \cup On(t, "execute") = {}
      /\ lua = FoldSet(LAMBDA j, n : n + vm.C[j].n, 0, On(t, "execute"))
=============================================================================
