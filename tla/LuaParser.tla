----------------------------- MODULE LuaParser -----------------------------
(***************************************************************************)
(* The parser of Lua (lparser.c): one pass over the tokens of a chunk that *)
(* keeps scopes, registers and upvalues and calls the code generator.      *)
(*                                                                         *)
(* The state s of LuaCode holds the tokens still to read as well, and, in  *)
(* s.prev, the state of the enclosing function.  A token is [t, v, line]:  *)
(* its kind, the name, number or string it carries, and the line it ends   *)
(* on.  Each rule takes the state and gives the state after the rule,      *)
(* its expression in s.e.  Line numbers of instructions are left out.      *)
(***************************************************************************)
EXTENDS LuaCheck

CONSTANTS LUAI_MAXVARS, LUAI_MAXUPVALUES

Scanner == INSTANCE LuaLex

EOS == [t |-> "<eof>", v |-> "", line |-> 0]
token(s)      == IF s.toks = <<>> THEN EOS ELSE s.toks[1]
peek(s)       == token(s).t
luaX_next(s)  == IF s.toks = <<>> THEN s ELSE [s EXCEPT !.toks = Tail(@), !.lastline = token(s).line]
lookahead(s)  == IF Len(s.toks) < 2 THEN EOS ELSE s.toks[2]
luaX_lookahead(s) == [s EXCEPT !.toks[1].line = lookahead(s).line]     \* the scanner is there now

check(s, t)     == IF peek(s) = t THEN s ELSE fail(s, t \o " expected")
checknext(s, t) == luaX_next(check(s, t))
check_condition(s, c, msg) == IF c THEN s ELSE fail(s, msg)
luaY_checklimit(s, v, limit, what) == IF v > limit THEN fail(s, "too many " \o what) ELSE s

hasmultret(e) == e.k \in {"VCALL", "VVARARG"}
codestring(s, str) == LET c == constant(s, <<"string", str>>)
                      IN  With(c, init_exp("VK", c.e.info))
checkname(s) == luaX_next(codestring(check(s, "name"), token(s).v))

-----------------------------------------------------------------------------
(* Functions, scopes and variables.                                        *)

open_func(s) ==
  [toks |-> s.toks, lastline |-> s.lastline, level |-> s.level, error |-> s.error, ok |-> s.ok, prev |-> s,
   e |-> s.e, list |-> {}, code |-> <<>>, k |-> <<>>, p |-> <<>>,
   lasttarget |-> -1, jpc |-> {}, freereg |-> 0, nactvar |-> 0, actvar |-> <<>>,
   bl |-> <<>>, upvalues |-> <<>>, maxstack |-> 2, numparams |-> 0, is_vararg |-> {}]

new_localvar(s0, name, n) ==
  LET s == luaY_checklimit(s0, s0.nactvar + n + 1, LUAI_MAXVARS, "local variables")
  IN  [s EXCEPT !.actvar = Append(SubSeq(@, 1, s.nactvar + n), name)]

adjustlocalvars(s, nvars) == [s EXCEPT !.nactvar = @ + nvars]
removevars(s, tolevel)    == [s EXCEPT !.nactvar = tolevel]

\* a name bound twice stands for the later variable
searchvar(s, n) ==
  LET at == {i \in 1..s.nactvar : s.actvar[i] = n}
  IN  IF at = {} THEN -1 ELSE Max(at) - 1

markupval(s, level) ==
  LET in == {b \in DOMAIN s.bl : s.bl[b].nactvar <= level}
  IN  IF in = {} THEN s ELSE [s EXCEPT !.bl[Max(in)].upval = TRUE]

indexupvalue(s0, d) ==
  LET s == luaY_checklimit(s0, Len(s0.upvalues) + 1, LUAI_MAXUPVALUES, "upvalues")
      at(f) == CHOOSE i \in 0..Len(f.upvalues) - 1 : f.upvalues[i + 1] = d
      new == [s EXCEPT !.upvalues = Append(@, d)]
  IN  IF Contains(s0.upvalues, d) THEN Become(s0, "VUPVAL", at(s0))
      ELSE Become(new, "VUPVAL", at(new))

\* the outermost state, that of luaY_parser, has no function
RECURSIVE singlevaraux(_, _, _)
singlevaraux(s, n, base) ==
  LET v == searchvar(s, n)
      up == singlevaraux(s.prev, n, FALSE)
      outer == With([s EXCEPT !.prev = up], up.e)
  IN  CASE ~ "code" \in DOMAIN s -> With(s, init_exp("VGLOBAL", NO_REG))
        [] v >= 0 -> With(IF base THEN s ELSE markupval(s, v), init_exp("VLOCAL", v))
        [] up.e.k = "VGLOBAL" -> outer
        [] OTHER -> indexupvalue(IF up.error = "" THEN outer ELSE fail(outer, up.error),
                                 [k |-> up.e.k, info |-> up.e.info])

singlevar(s0) ==
  LET name == token(s0).v
      s == singlevaraux(luaX_next(check(s0, "name")), name, TRUE)
      g == addk(s, <<"string", name>>)
  IN  IF s.e.k = "VGLOBAL" THEN [g EXCEPT !.e.info = kindex(g, <<"string", name>>)] ELSE s

enterblock(s, isbreakable) ==
  [assert(s, s.freereg = s.nactvar) EXCEPT
     !.bl = Append(@, [breaklist |-> {}, nactvar |-> s.nactvar, upval |-> FALSE,
                       isbreakable |-> isbreakable])]

leaveblock(s) ==
  LET b == Last(s.bl)
      out == removevars([s EXCEPT !.bl = Front(@)], b.nactvar)
      closed == IF b.upval THEN luaK_code(out, "CLOSE", b.nactvar, 0, 0) ELSE out
  IN  luaK_patchtohere(assert([closed EXCEPT !.freereg = b.nactvar],
                              ~(b.isbreakable /\ b.upval) /\ b.nactvar <= s.nactvar), b.breaklist)

Proto(s) == [code |-> s.code, k |-> s.k, p |-> s.p, numparams |-> s.numparams,
             is_vararg |-> s.is_vararg, maxstack |-> s.maxstack, nups |-> Len(s.upvalues)]

close_func(s0) ==
  LET s == assert(luaK_ret(removevars(s0, 0), 0, 0), s0.bl = <<>>)
  IN  [s.prev EXCEPT !.toks = s.toks, !.lastline = s.lastline, !.level = s.level, !.error = s.error, !.ok = s.ok,
                     !.p = Append(@, Proto(s))]

pushclosure(s, upvalues) ==
  LET c == luaK_code(s, "CLOSURE", 0, Len(s.p) - 1, 0)
      capture(f, u) == luaK_code(f, IF u.k = "VLOCAL" THEN "MOVE" ELSE "GETUPVAL", 0, u.info, 0)
  IN  With(FoldLeft(capture, c, upvalues), init_exp("VRELOCABLE", pc(c) - 1))

adjust_assign(s, nvars, nexps) ==
  LET extra == nvars - nexps
      more  == IF extra + 1 < 0 THEN 0 ELSE extra + 1     \* includes the call itself
      open  == luaK_setreturns(s, more)
      closed == IF s.e.k = "VVOID" THEN s ELSE luaK_exp2nextreg(s)
  IN  IF hasmultret(s.e)
      THEN IF more > 1 THEN luaK_reserveregs(open, more - 1) ELSE open
      ELSE IF extra > 0 THEN luaK_nil(luaK_reserveregs(closed, extra), closed.freereg, extra)
      ELSE closed

enterlevel(s) == LET n == [s EXCEPT !.level = @ + 1]
                 IN  check_condition(n, n.level <= LUAI_MAXCCALLS, "too many syntax levels")
leavelevel(s) == [s EXCEPT !.level = @ - 1]

-----------------------------------------------------------------------------
(* Expressions.                                                            *)

RECURSIVE subexpr(_, _), chunk(_), statement(_), explist(_, _), primarysuffix(_), fields(_, _), parlist(_, _)

expr(s) == subexpr(s, 0)
explist1(s) == explist(expr(s), 1)     \* the number of expressions in s.n
explist(s, n) ==
  IF peek(s) = "," THEN explist(expr(luaX_next(luaK_exp2nextreg(s))), n + 1)
  ELSE [s |-> s, n |-> n]

field(s) == LET t == luaK_exp2anyreg(s) IN luaK_indexed(checkname(luaX_next(t)), t.e)
yindex(s) == checknext(luaK_exp2val(expr(luaX_next(s))), "]")

\* cc: the list item read last (v), the list items so far (na), how many of
\* them are not stored yet (tostore), and the record items (nh)
recfield(s, cc) ==
  LET key == checknext(IF peek(s) = "name" THEN checkname(s) ELSE yindex(s), "=")
      rk  == luaK_exp2RK(key)
      val == luaK_exp2RK(expr(rk))
  IN  [s |-> [luaK_code(val, "SETTABLE", cc.t, RK(rk.e), RK(val.e)) EXCEPT !.freereg = s.freereg],
       cc |-> [cc EXCEPT !.nh = @ + 1]]

listfield(s, cc) ==
  LET v == expr(s)
  IN  [s |-> v, cc |-> [cc EXCEPT !.v = v.e, !.na = @ + 1, !.tostore = @ + 1]]

closelistfield(s, cc) ==
  LET v == luaK_exp2nextreg(With(s, cc.v))
      flush == cc.tostore = LFIELDS_PER_FLUSH
  IN  IF cc.v.k = "VVOID" THEN [s |-> s, cc |-> cc]
      ELSE [s  |-> IF flush THEN luaK_setlist(v, cc.t, cc.na, cc.tostore) ELSE v,
            cc |-> [cc EXCEPT !.v.k = "VVOID", !.tostore = IF flush THEN 0 ELSE @]]

lastlistfield(s, cc) ==
  IF cc.tostore = 0 THEN s
  ELSE IF hasmultret(cc.v)
  THEN luaK_setlist(luaK_setreturns(With(s, cc.v), MULTRET), cc.t, cc.na, MULTRET)
  ELSE luaK_setlist(IF cc.v.k = "VVOID" THEN s ELSE luaK_exp2nextreg(With(s, cc.v)),
                    cc.t, cc.na, cc.tostore)

fields(s0, cc0) ==
  LET s == assert(s0, cc0.v.k = "VVOID" \/ cc0.tostore > 0)
      c == closelistfield(IF peek(s) = "name" THEN luaX_lookahead(s) ELSE s, cc0)
      i == IF peek(s) = "[" \/ (peek(s) = "name" /\ lookahead(s).t = "=")
           THEN recfield(c.s, c.cc) ELSE listfield(c.s, c.cc)
  IN  IF peek(s) = "}" THEN [s |-> s, cc |-> cc0]
      ELSE IF peek(i.s) \in {",", ";"} THEN fields(luaX_next(i.s), i.cc) ELSE i

constructor(s0) ==
  LET new == luaK_code(s0, "NEWTABLE", 0, 0, 0)
      at  == pc(new)
      s   == luaK_exp2nextreg(With(new, init_exp("VRELOCABLE", at - 1)))
      i   == fields(checknext(s, "{"), [v |-> init_exp("VVOID", 0), t |-> s.e.info,
                                        nh |-> 0, na |-> 0, tostore |-> 0])
      size(cc) == IF cc.tostore # 0 /\ hasmultret(cc.v) THEN cc.na - 1 ELSE cc.na
  IN  With([lastlistfield(checknext(i.s, "}"), i.cc) EXCEPT !.code[at].b = size(i.cc),
                                                            !.code[at].c = i.cc.nh], s.e)

\* LUA_COMPAT_VARARG: a vararg function has a parameter `arg' as well
parlist(s, n) ==
  LET more(f) == IF peek(f) = "," THEN parlist(luaX_next(f), n + 1) ELSE [s |-> f, n |-> n + 1]
  IN  CASE peek(s) = "name" -> more(luaX_next(new_localvar(s, token(s).v, n)))
        [] peek(s) = "..."  -> [s |-> [new_localvar(luaX_next(s), "arg", n) EXCEPT
                                         !.is_vararg = {"HASARG", "NEEDSARG", "ISVARARG"}],
                                n |-> n + 1]
        [] OTHER -> [s |-> fail(s, "<name> or '...' expected"), n |-> n]

body(s0, needself) ==
  LET open == checknext(open_func(s0), "(")
      self == IF needself THEN adjustlocalvars(new_localvar(open, "self", 0), 1) ELSE open
      par  == IF peek(self) = ")" THEN [s |-> self, n |-> 0] ELSE parlist(self, 0)
      args == adjustlocalvars(par.s, par.n)
      regs == luaK_reserveregs([args EXCEPT !.numparams =
                 args.nactvar - IF "HASARG" \in args.is_vararg THEN 1 ELSE 0], args.nactvar)
      f    == checknext(chunk(checknext(regs, ")")), "end")
  IN  pushclosure(close_func(f), f.upvalues)

\* the function is in the register s.e.info, and is the last one reserved
funcargs(s) ==
  LET base == s.e.info
      next == luaX_next(s)
      args == CASE peek(s) = "(" /\ token(s).line # s.lastline ->
                     fail(s, "ambiguous syntax (function call x new statement)")
                [] peek(s) = "(" /\ peek(next) = ")" -> luaX_next(Become(next, "VVOID", 0))
                [] peek(s) = "(" -> checknext(luaK_setreturns(explist1(next).s, MULTRET), ")")
                [] peek(s) = "{" -> constructor(s)
                [] peek(s) = "string" -> luaX_next(codestring(s, token(s).v))
                [] OTHER -> fail(s, "function arguments expected")
      open == hasmultret(args.e)
      a    == IF open \/ args.e.k = "VVOID" THEN args ELSE luaK_exp2nextreg(args)
      c    == luaK_code(assert(a, s.e.k = "VNONRELOC"), "CALL", base,
                        IF open THEN 0 ELSE a.freereg - base, 2)
  IN  With([c EXCEPT !.freereg = base + 1], init_exp("VCALL", pc(c) - 1))

prefixexp(s) ==
  CASE peek(s) = "(" -> luaK_dischargevars(checknext(expr(luaX_next(s)), ")"))
    [] peek(s) = "name" -> singlevar(s)
    [] OTHER -> fail(s, "unexpected symbol")

primarysuffix(s) ==
  LET t   == luaK_exp2anyreg(s)
      key == checkname(luaX_next(s))
  IN  CASE peek(s) = "." -> primarysuffix(field(s))
        [] peek(s) = "[" -> primarysuffix(luaK_indexed(yindex(t), t.e))
        [] peek(s) = ":" -> primarysuffix(funcargs(luaK_self(With(key, s.e), key.e)))
        [] peek(s) \in {"(", "string", "{"} -> primarysuffix(funcargs(luaK_exp2nextreg(s)))
        [] OTHER -> s

primaryexp(s) == primarysuffix(prefixexp(s))

simpleexp(s) ==
  LET literal(k, info) == luaX_next(With(s, init_exp(k, info)))
      dots == luaK_code([check_condition(s, s.is_vararg # {}, "cannot use '...'") EXCEPT
                           !.is_vararg = @ \ {"NEEDSARG"}], "VARARG", 0, 1, 0)
  IN  CASE peek(s) = "number" -> literal("VKNUM", token(s).v)
        [] peek(s) = "string" -> luaX_next(codestring(s, token(s).v))
        [] peek(s) = "nil"    -> literal("VNIL", 0)
        [] peek(s) = "true"   -> literal("VTRUE", 0)
        [] peek(s) = "false"  -> literal("VFALSE", 0)
        [] peek(s) = "..."    -> luaX_next(With(dots, init_exp("VVARARG", pc(dots) - 1)))
        [] peek(s) = "{"      -> constructor(s)
        [] peek(s) = "function" -> body(luaX_next(s), FALSE)
        [] OTHER -> primaryexp(s)

UnOpr == [t \in {"not", "-", "#"} |->
            CASE t = "not" -> "NOT" [] t = "-" -> "UNM" [] t = "#" -> "LEN"]

\* the operator of a token, and its left and right priority
priority == [t \in {"+", "-", "*", "/", "%", "^", "..", "~=", "==", "<", "<=", ">", ">=",
                    "and", "or"} |->
  CASE t = "+" -> <<"ADD", 6, 6>>     [] t = "-" -> <<"SUB", 6, 6>>
    [] t = "*" -> <<"MUL", 7, 7>>     [] t = "/" -> <<"DIV", 7, 7>>
    [] t = "%" -> <<"MOD", 7, 7>>     [] t = "^" -> <<"POW", 10, 9>>
    [] t = ".." -> <<"CONCAT", 5, 4>> [] t = "~=" -> <<"NE", 3, 3>>
    [] t = "==" -> <<"EQ", 3, 3>>     [] t = "<" -> <<"LT", 3, 3>>
    [] t = "<=" -> <<"LE", 3, 3>>     [] t = ">" -> <<"GT", 3, 3>>
    [] t = ">=" -> <<"GE", 3, 3>>     [] t = "and" -> <<"AND", 2, 2>>
    [] t = "or" -> <<"OR", 1, 1>>]
UNARY_PRIORITY == 8

RECURSIVE binary(_, _)
binary(s, limit) ==
  LET op  == priority[peek(s)]
      inf == luaK_infix(luaX_next(s), op[1])
  IN  IF peek(s) \in DOMAIN priority /\ op[2] > limit
      THEN binary(luaK_posfix(subexpr(inf, op[3]), op[1], inf.e), limit) ELSE s

subexpr(s0, limit) ==
  LET s == enterlevel(s0)
      e == IF peek(s) \in DOMAIN UnOpr
           THEN luaK_prefix(subexpr(luaX_next(s), UNARY_PRIORITY), UnOpr[peek(s)])
           ELSE simpleexp(s)
  IN  leavelevel(binary(e, limit))

-----------------------------------------------------------------------------
(* Statements.                                                             *)

block_follow == {"else", "elseif", "end", "until", "<eof>"}

block(s) ==
  LET c == chunk(enterblock(s, FALSE))
  IN  leaveblock(assert(c, Last(c.bl).breaklist = {}))

check_conflict_none(s, lhs) == [s |-> s, lhs |-> lhs]
\* lhs: the variables on the left so far; those that the local variable in
\* s.e indexes, or is indexed by, get a copy of it
check_conflict(s, lhs) ==
  LET uses(v) == v.k = "VINDEXED" /\ s.e.info \in {v.info, v.aux}
      safe(v) == IF v.k # "VINDEXED" THEN v
                 ELSE [v EXCEPT !.info = IF @ = s.e.info THEN s.freereg ELSE @,
                                !.aux  = IF @ = s.e.info THEN s.freereg ELSE @]
  IN  [s   |-> IF \E i \in DOMAIN lhs : uses(lhs[i])
               THEN luaK_reserveregs(luaK_code(s, "MOVE", s.freereg, s.e.info, 0), 1) ELSE s,
       lhs |-> [i \in DOMAIN lhs |-> safe(lhs[i])]]

storelast(s, var) == luaK_storevar(With(s, init_exp("VNONRELOC", s.freereg - 1)), var)

RECURSIVE assignment(_, _)
assignment(s0, lhs0) ==
  LET s  == check_condition(s0, s0.e.k \in {"VLOCAL", "VUPVAL", "VGLOBAL", "VINDEXED"},
                            "syntax error")
      nv == primaryexp(luaX_next(s))
      cf == IF nv.e.k = "VLOCAL" THEN check_conflict(nv, Append(lhs0, s.e))
            ELSE [s |-> nv, lhs |-> Append(lhs0, s.e)]
      lhs == Append(lhs0, s.e)
      r  == explist1(checknext(s, "="))
      adj == adjust_assign(r.s, Len(lhs), r.n)
      vals == IF r.n > Len(lhs) THEN [adj EXCEPT !.freereg = @ - (r.n - Len(lhs))] ELSE adj
      store(f, i) == storelast(f, lhs[Len(lhs) + 1 - i])
      rest == [i \in 1..Len(lhs) - 1 |-> i + 1]
  IN  IF s.error # "" THEN s
      ELSE IF peek(s) = "," THEN assignment(cf.s, cf.lhs)
      ELSE IF r.n = Len(lhs)
      THEN FoldLeft(store, luaK_storevar(luaK_setoneret(r.s), Last(lhs)), rest)
      ELSE FoldLeft(store, vals, <<1>> \o rest)

\* the jumps taken when the condition is false are in s.e.f
cond(s0) == LET s == expr(s0)
            IN  luaK_goiftrue(IF s.e.k = "VNIL" THEN [s EXCEPT !.e.k = "VFALSE"] ELSE s)

breakstat(s) ==
  LET loops == {b \in DOMAIN s.bl : s.bl[b].isbreakable}
      b == Max(loops)
      upval == \E i \in b + 1..Len(s.bl) : s.bl[i].upval
      j == luaK_jump(IF upval THEN luaK_code(s, "CLOSE", s.bl[b].nactvar, 0, 0) ELSE s)
  IN  IF loops = {} THEN fail(s, "no loop to break")
      ELSE [j EXCEPT !.bl[b].breaklist = @ \cup j.list]

whilestat(s) ==
  LET c == cond(luaK_getlabel(luaX_next(s)))
      b == luaK_jump(block(checknext(enterblock(c, TRUE), "do")))
  IN  luaK_patchtohere(leaveblock(checknext(luaK_patchlist(b, b.list, pc(s)), "end")), c.e.f)

repeatstat(s) ==
  LET in == enterblock(enterblock(luaK_getlabel(s), TRUE), FALSE)
      c  == cond(checknext(chunk(luaX_next(in)), "until"))
      again == luaK_jump(leaveblock(luaK_patchtohere(breakstat(c), c.e.f)))
  IN  IF c.error # "" THEN c
      ELSE IF ~Last(c.bl).upval
      THEN leaveblock(luaK_patchlist(leaveblock(c), c.e.f, pc(s)))
      ELSE leaveblock(luaK_patchlist(again, again.list, pc(s)))

exp1(s) == luaK_exp2nextreg(expr(s))

forbody(s0, base, nvars, isnum) ==
  LET s    == checknext(adjustlocalvars(s0, 3), "do")
      prep == IF isnum THEN [luaK_code(s, "FORPREP", base, NO_JUMP, 0) EXCEPT !.list = {pc(s)}]
              ELSE luaK_jump(s)
      in   == luaK_reserveregs(adjustlocalvars(enterblock(prep, FALSE), nvars), nvars)
      done == luaK_patchtohere(leaveblock(block(in)), prep.list)
      loop == IF isnum
              THEN [luaK_code(done, "FORLOOP", base, NO_JUMP, 0) EXCEPT !.list = {pc(done)}]
              ELSE luaK_jump(luaK_code(done, "TFORLOOP", base, 0, nvars))
  IN  luaK_patchlist(loop, loop.list, pc(s) + 1)

fornum(s, name) ==
  LET vars == FoldLeft(LAMBDA f, i : new_localvar(f, <<"for index", "for limit", "for step",
                                                       name>>[i], i - 1), s, <<1, 2, 3, 4>>)
      lim  == exp1(checknext(exp1(checknext(vars, "=")), ","))
      one  == addk(lim, <<"number", 1>>)
      step == IF peek(lim) = "," THEN exp1(luaX_next(lim))
              ELSE luaK_reserveregs(luaK_code(one, "LOADK", one.freereg,
                                              kindex(one, <<"number", 1>>), 0), 1)
  IN  forbody(step, s.freereg, 1, TRUE)

RECURSIVE namelist(_, _)     \* { `,' NAME } from the n-th new variable on
namelist(s, n) ==
  IF peek(s) # "," THEN [s |-> s, n |-> n]
  ELSE LET v == check(luaX_next(s), "name")
       IN  namelist(luaX_next(new_localvar(v, token(v).v, n)), n + 1)

forlist(s, name) ==
  LET vars == FoldLeft(LAMBDA f, i : new_localvar(f, <<"for generator", "for state",
                                         "for control", name>>[i], i - 1), s, <<1, 2, 3, 4>>)
      l == namelist(vars, 4)
      r == explist1(checknext(l.s, "in"))
  IN  forbody(luaK_checkstack(adjust_assign(r.s, 3, r.n), 3), s.freereg, l.n - 3, FALSE)

forstat(s) ==
  LET v == check(luaX_next(enterblock(s, TRUE)), "name")
      f == luaX_next(v)
  IN  leaveblock(checknext(
        CASE peek(f) = "=" -> fornum(f, token(v).v)
          [] peek(f) \in {",", "in"} -> forlist(f, token(v).v)
          [] OTHER -> fail(f, "'=' or 'in' expected"), "end"))

\* the jumps taken when the condition is false are in s.list
test_then_block(s) ==
  LET c == cond(luaX_next(s)) IN [block(checknext(c, "then")) EXCEPT !.list = c.e.f]

RECURSIVE ifrest(_, _)
ifrest(s, escapelist) ==
  LET flist == s.list
      j == luaK_jump(s)
      next == luaK_patchtohere(j, flist)
  IN  CASE peek(s) = "elseif" -> ifrest(test_then_block(next), escapelist \cup j.list)
        [] peek(s) = "else" -> luaK_patchtohere(block(luaX_next(next)), escapelist \cup j.list)
        [] OTHER -> luaK_patchtohere(s, escapelist \cup flist)
ifstat(s) == checknext(ifrest(test_then_block(s), {}), "end")

localfunc(s0) ==
  LET s == check(s0, "name")
      v == init_exp("VLOCAL", s.freereg)
      in == adjustlocalvars(luaK_reserveregs(luaX_next(new_localvar(s, token(s).v, 0)), 1), 1)
  IN  luaK_storevar(body(in, FALSE), v)

localstat(s0) ==
  LET s == check(s0, "name")
      l == namelist(luaX_next(new_localvar(s, token(s).v, 0)), 1)
      r == IF peek(l.s) = "=" THEN explist1(luaX_next(l.s))
           ELSE [s |-> Become(l.s, "VVOID", 0), n |-> 0]
  IN  adjustlocalvars(adjust_assign(r.s, l.n, r.n), l.n)

RECURSIVE funcname(_)
funcname(s) == CASE peek(s) = "." -> funcname(field(s))
                 [] peek(s) = ":" -> [s |-> field(s), self |-> TRUE]
                 [] OTHER -> [s |-> s, self |-> FALSE]

funcstat(s) == LET n == funcname(singlevar(luaX_next(s)))
               IN  luaK_storevar(body(n.s, n.self), n.s.e)

exprstat(s0) ==
  LET s == primaryexp(s0)
  IN  IF s.error # "" THEN s
      ELSE IF s.e.k = "VCALL" THEN [s EXCEPT !.code[s.e.info + 1].c = 1]
      ELSE assignment(s, <<>>)

retstat(s0) ==
  LET s == luaX_next(s0)
      r == explist1(s)
      e == r.s.e
      open == luaK_setreturns(r.s, MULTRET)
      tail == e.k = "VCALL" /\ r.n = 1
      one == luaK_exp2anyreg(r.s)
      all == luaK_exp2nextreg(r.s)
  IN  CASE peek(s) \in block_follow \cup {";"} -> luaK_ret(s, 0, 0)
        [] r.s.error # "" -> r.s
        [] hasmultret(e) ->
             luaK_ret(assert(IF tail THEN [open EXCEPT !.code[e.info + 1].op = "TAILCALL"] ELSE open,
                             tail => Instr(open, e.info).a = s.nactvar), s.nactvar, MULTRET)
        [] r.n = 1 -> luaK_ret(one, one.e.info, 1)
        [] OTHER -> luaK_ret(assert(all, r.n = all.freereg - s.nactvar), s.nactvar, r.n)

statement(s) ==
  LET next == luaX_next(s)
  IN  CASE peek(s) = "if" -> ifstat(s)
        [] peek(s) = "while" -> whilestat(s)
        [] peek(s) = "do" -> checknext(block(next), "end")
        [] peek(s) = "for" -> forstat(s)
        [] peek(s) = "repeat" -> repeatstat(s)
        [] peek(s) = "function" -> funcstat(s)
        [] peek(s) = "local" -> IF peek(next) = "function" THEN localfunc(luaX_next(next))
                                ELSE localstat(next)
        [] peek(s) = "return" -> retstat(s)
        [] peek(s) = "break" -> breakstat(next)
        [] OTHER -> exprstat(s)

\* `return' and `break' end a chunk
RECURSIVE statlist(_)
statlist(s) ==
  LET st == statement(s)
      sc == IF peek(st) = ";" THEN luaX_next(st) ELSE st
      ok == assert(sc, sc.maxstack >= sc.freereg /\ sc.freereg >= sc.nactvar)
      done == [ok EXCEPT !.freereg = ok.nactvar]
  IN  IF peek(s) \in block_follow THEN s
      ELSE IF peek(s) \in {"return", "break"} THEN done ELSE statlist(done)

chunk(s) == leavelevel(statlist(enterlevel(s)))

\* the nesting of the text adds to the C calls that are open
luaY_parser(text, nCcalls) ==
  LET lex == Scanner!luaX_setinput(text)
      top == [toks |-> lex.toks, lastline |-> 1, level |-> nCcalls, error |-> "", ok |-> TRUE, p |-> <<>>,
              e |-> init_exp("VVOID", 0)]
      c == check(chunk([open_func(top) EXCEPT !.is_vararg = {"ISVARARG"}]), "<eof>")
      f == close_func(c)
      error == IF lex.error = "" THEN f.error ELSE lex.error
  IN  [proto |-> f.p[1], error |-> error,
       ok |-> error # "" \/ (f.ok /\ c.upvalues = <<>> /\ luaG_checkcode(f.p[1]))]
=============================================================================
