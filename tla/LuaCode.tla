------------------------------ MODULE LuaCode ------------------------------
(***************************************************************************)
(* The code generator of Lua (lcode.c): what the one-pass parser calls to  *)
(* turn expressions into instructions and registers.                       *)
(*                                                                         *)
(* Every operator takes the state of the function being compiled and gives *)
(* the state after the call.  The state s is a FuncState together with the *)
(* expression at hand, s.e, and the jump list at hand, s.list.  A jump     *)
(* list, which the code threads through the offsets of its jumps, is the   *)
(* set of its jumps.  What the code asserts is collected in s.ok.          *)
(***************************************************************************)
EXTENDS Integers, Sequences, SequencesExt

CONSTANTS MAXINDEXRK,         \* the last constant an RK operand can name
          LFIELDS_PER_FLUSH,  \* list items stored by one SETLIST
          MAXARG_C,           \* the last block of them that it can name
          MAXSTACK,           \* registers of a function
          LUAI_MAXCCALLS      \* C calls and nesting of the text

BITRK   == 256
NO_REG  == 255
NO_JUMP == -1
MULTRET == -1
TMode   == {"EQ", "LT", "LE", "TEST", "TESTSET", "TFORLOOP"}

pc(s)         == Len(s.code)
Instr(s, q)   == s.code[q + 1]
With(s, e)    == [s EXCEPT !.e = e]
Become(s, k, info) == [s EXCEPT !.e.k = k, !.e.info = info]
init_exp(k, info)  == [k |-> k, info |-> info, aux |-> 0, t |-> {}, f |-> {}]
fail(s, msg)  == IF s.error = "" THEN [s EXCEPT !.error = msg, !.toks = <<>>] ELSE s
assert(s, p)  == [s EXCEPT !.ok = @ /\ (p \/ s.error # "")]

hasjumps(e)  == e.t # e.f
isnumeral(e) == e.k = "VKNUM" /\ e.t = {} /\ e.f = {}

-----------------------------------------------------------------------------
(* Jumps.  The control of a jump is the test just before it, if there is one; *)
(* a TESTSET also moves the value it tests to a register.                  *)

getjumpcontrol(s, q) == IF q >= 1 /\ Instr(s, q - 1).op \in TMode THEN q - 1 ELSE q

ByValue(s, list)    == {q \in list : Instr(s, getjumpcontrol(s, q)).op = "TESTSET"}
need_value(s, list) == ByValue(s, list) # list

patchtestreg(i, reg) ==
  IF reg # NO_REG /\ reg # i.b THEN [i EXCEPT !.a = reg]
  ELSE [op |-> "TEST", a |-> i.b, b |-> 0, c |-> i.c]

removevalues(s, list) ==
  [s EXCEPT !.code = [i \in DOMAIN @ |->
     IF i \in ByValue(s, list) THEN patchtestreg(@[i], NO_REG) ELSE @[i]]]

\* jumps that carry a value go to vtarget, the others to dtarget
patchlistaux(s, list, vtarget, reg, dtarget) ==
  LET v == ByValue(s, list)
      target(q) == IF q \in v THEN vtarget ELSE dtarget
  IN  assert([s EXCEPT !.code = [i \in DOMAIN @ |->
                CASE i - 1 \in list -> [@[i] EXCEPT !.b = target(i - 1) - i]
                  [] i \in v        -> patchtestreg(@[i], reg)
                  [] OTHER          -> @[i]]],
             \A q \in list : target(q) # NO_JUMP)

dischargejpc(s) == [patchlistaux(s, s.jpc, pc(s), NO_REG, pc(s)) EXCEPT !.jpc = {}]

luaK_code(s, op, a, b, c) ==
  [dischargejpc(s) EXCEPT !.code = Append(@, [op |-> op, a |-> a, b |-> b, c |-> c])]

luaK_getlabel(s) == [s EXCEPT !.lasttarget = pc(s)]
luaK_patchtohere(s, list) == [luaK_getlabel(s) EXCEPT !.jpc = @ \cup list]
luaK_patchlist(s, list, target) ==
  IF target = pc(s) THEN luaK_patchtohere(s, list)
  ELSE assert(patchlistaux(s, list, target, NO_REG, target), target < pc(s))

\* the jumps to here are kept on hold, in the list of the new jump
luaK_jump(s) ==
  [luaK_code([s EXCEPT !.jpc = {}], "JMP", 0, NO_JUMP, 0) EXCEPT !.list = s.jpc \cup {pc(s)}]

condjump(s, op, a, b, c) == luaK_jump(luaK_code(s, op, a, b, c))

luaK_ret(s, first, nret) == luaK_code(s, "RETURN", first, nret + 1, 0)

luaK_nil(s, from, n) ==
  LET last  == Instr(s, pc(s) - 1)
      free  == pc(s) > s.lasttarget      \* no jumps to the current position
      joins == pc(s) > 0 /\ last.op = "LOADNIL" /\ last.a <= from /\ from <= last.b + 1
  IN  IF free /\ pc(s) = 0 /\ from >= s.nactvar THEN s
      ELSE IF free /\ joins
      THEN [s EXCEPT !.code[pc(s)].b = IF from + n - 1 > @ THEN from + n - 1 ELSE @]
      ELSE luaK_code(s, "LOADNIL", from, from + n - 1, 0)

-----------------------------------------------------------------------------
(* Registers and constants.                                                *)

luaK_checkstack(s, n) ==
  IF s.freereg + n <= s.maxstack THEN s
  ELSE IF s.freereg + n >= MAXSTACK THEN fail(s, "function or expression too complex")
  ELSE [s EXCEPT !.maxstack = s.freereg + n]

luaK_reserveregs(s, n) == [luaK_checkstack(s, n) EXCEPT !.freereg = @ + n]

freereg(s, reg) ==
  IF reg < BITRK /\ reg >= s.nactvar
  THEN assert([s EXCEPT !.freereg = @ - 1], reg = s.freereg - 1) ELSE s

freeexp(s, e) == IF e.k = "VNONRELOC" THEN freereg(s, e.info) ELSE s

addk(s, v)   == IF Contains(s.k, v) THEN s ELSE [s EXCEPT !.k = Append(@, v)]
kindex(s, v) == CHOOSE i \in 0..Len(s.k) - 1 : s.k[i + 1] = v
constant(s, v) == LET a == addk(s, v) IN Become(a, "VK", kindex(a, v))

KValue(e) == CASE e.k = "VNIL"   -> <<"nil">>
               [] e.k = "VTRUE"  -> <<"boolean", TRUE>>
               [] e.k = "VFALSE" -> <<"boolean", FALSE>>
               [] e.k = "VKNUM"  -> <<"number", e.info>>

-----------------------------------------------------------------------------
(* Expressions to values and registers.                                    *)

luaK_setreturns(s, n) ==
  CASE s.e.k = "VCALL"   -> [s EXCEPT !.code[s.e.info + 1].c = n + 1]
    [] s.e.k = "VVARARG" -> luaK_reserveregs([s EXCEPT !.code[s.e.info + 1].b = n + 1,
                                                       !.code[s.e.info + 1].a = s.freereg], 1)
    [] OTHER -> s

luaK_setoneret(s) ==
  CASE s.e.k = "VCALL"   -> Become(s, "VNONRELOC", Instr(s, s.e.info).a)
    [] s.e.k = "VVARARG" -> [s EXCEPT !.code[s.e.info + 1].b = 2, !.e.k = "VRELOCABLE"]
    [] OTHER -> s

relocable(s) == Become(s, "VRELOCABLE", pc(s) - 1)

luaK_dischargevars(s) ==
  CASE s.e.k = "VLOCAL"   -> [s EXCEPT !.e.k = "VNONRELOC"]
    [] s.e.k = "VUPVAL"   -> relocable(luaK_code(s, "GETUPVAL", 0, s.e.info, 0))
    [] s.e.k = "VGLOBAL"  -> relocable(luaK_code(s, "GETGLOBAL", 0, s.e.info, 0))
    [] s.e.k = "VINDEXED" -> relocable(luaK_code(freereg(freereg(s, s.e.aux), s.e.info),
                                                 "GETTABLE", 0, s.e.info, s.e.aux))
    [] OTHER -> luaK_setoneret(s)

discharge2reg(s0, reg) ==
  LET s == luaK_dischargevars(s0)
      d == CASE s.e.k = "VNIL" -> luaK_nil(s, reg, 1)
             [] s.e.k \in {"VTRUE", "VFALSE"} ->
                  luaK_code(s, "LOADBOOL", reg, IF s.e.k = "VTRUE" THEN 1 ELSE 0, 0)
             [] s.e.k = "VK"    -> luaK_code(s, "LOADK", reg, s.e.info, 0)
             [] s.e.k = "VKNUM" -> LET a == addk(s, KValue(s.e))
                                   IN  luaK_code(a, "LOADK", reg, kindex(a, KValue(s.e)), 0)
             [] s.e.k = "VRELOCABLE" -> [s EXCEPT !.code[s.e.info + 1].a = reg]
             [] s.e.k = "VNONRELOC" /\ reg # s.e.info -> luaK_code(s, "MOVE", reg, s.e.info, 0)
             [] OTHER -> s
  IN  IF s.e.k \in {"VVOID", "VJMP"} THEN s ELSE Become(d, "VNONRELOC", reg)

discharge2anyreg(s) ==
  IF s.e.k = "VNONRELOC" THEN s
  ELSE LET r == luaK_reserveregs(s, 1) IN discharge2reg(r, r.freereg - 1)

code_label(s, a, b, jump) == luaK_code(luaK_getlabel(s), "LOADBOOL", a, b, jump)

exp2reg(s0, reg) ==
  LET s == LET d == discharge2reg(s0, reg)
           IN  IF d.e.k = "VJMP" THEN [d EXCEPT !.e.t = @ \cup {d.e.info}] ELSE d
      need == need_value(s, s.e.t) \/ need_value(s, s.e.f)
      over == IF s.e.k = "VJMP" THEN [s EXCEPT !.list = {}] ELSE luaK_jump(s)
      p_f  == IF need THEN pc(over) ELSE NO_JUMP
      p_t  == IF need THEN pc(over) + 1 ELSE NO_JUMP
      loads == luaK_patchtohere(code_label(code_label(over, reg, 0, 1), reg, 1, 0), over.list)
      final == luaK_getlabel(IF need THEN loads ELSE s)
      patched == patchlistaux(patchlistaux(final, s.e.f, pc(final), reg, p_f),
                              s.e.t, pc(final), reg, p_t)
  IN  With(IF hasjumps(s.e) THEN patched ELSE s, init_exp("VNONRELOC", reg))

luaK_exp2nextreg(s0) ==
  LET s == luaK_dischargevars(s0)
      r == luaK_reserveregs(freeexp(s, s.e), 1)
  IN  exp2reg(r, r.freereg - 1)

luaK_exp2anyreg(s0) ==
  LET s == luaK_dischargevars(s0)
  IN  IF s.e.k = "VNONRELOC" /\ ~hasjumps(s.e) THEN s
      ELSE IF s.e.k = "VNONRELOC" /\ s.e.info >= s.nactvar THEN exp2reg(s, s.e.info)
      ELSE luaK_exp2nextreg(s)

luaK_exp2val(s) == IF hasjumps(s.e) THEN luaK_exp2anyreg(s) ELSE luaK_dischargevars(s)

\* the RK operand that e stands for after luaK_exp2RK
RK(e) == IF e.k = "VK" THEN BITRK + e.info ELSE e.info

luaK_exp2RK(s0) ==
  LET s == luaK_exp2val(s0)
  IN  CASE s.e.k \in {"VKNUM", "VTRUE", "VFALSE", "VNIL"} /\ Len(s.k) <= MAXINDEXRK ->
             constant(s, KValue(s.e))
        [] s.e.k = "VK" /\ s.e.info <= MAXINDEXRK -> s
        [] OTHER -> luaK_exp2anyreg(s)

luaK_storevar(s, var) ==
  LET any == luaK_exp2anyreg(s)
      rk  == luaK_exp2RK(s)
  IN  CASE var.k = "VLOCAL"  -> exp2reg(freeexp(s, s.e), var.info)
        [] var.k = "VUPVAL"  ->
             freeexp(luaK_code(any, "SETUPVAL", any.e.info, var.info, 0), any.e)
        [] var.k = "VGLOBAL" ->
             freeexp(luaK_code(any, "SETGLOBAL", any.e.info, var.info, 0), any.e)
        [] OTHER -> freeexp(luaK_code(assert(rk, var.k = "VINDEXED"),
                                      "SETTABLE", var.info, var.aux, RK(rk.e)), rk.e)

luaK_self(s0, key) ==
  LET s == LET a == luaK_exp2anyreg(s0) IN freeexp(a, a.e)
      k == luaK_exp2RK(With(luaK_reserveregs(s, 2), key))
  IN  With(freeexp(luaK_code(k, "SELF", s.freereg, s.e.info, RK(k.e)), k.e),
           [s.e EXCEPT !.k = "VNONRELOC", !.info = s.freereg])

luaK_indexed(s0, t) ==
  LET s == luaK_exp2RK(s0) IN With(s, [t EXCEPT !.k = "VINDEXED", !.aux = RK(s.e)])

-----------------------------------------------------------------------------
(* Logic: conditions jump, and their jumps carry values only when needed.  *)

invertjump(s) ==
  LET c == getjumpcontrol(s, s.e.info)
  IN  assert([s EXCEPT !.code[c + 1].a = 1 - @], Instr(s, c).op \in {"EQ", "LT", "LE"})

jumponcond(s, cond) ==
  LET i == Instr(s, s.e.info)
      d == discharge2anyreg(s)
  IN  IF s.e.k = "VRELOCABLE" /\ i.op = "NOT"
      THEN condjump([s EXCEPT !.code = Front(@)], "TEST", i.b, 0, 1 - cond)
      ELSE condjump(freeexp(d, d.e), "TESTSET", NO_REG, d.e.info, cond)

luaK_goiftrue(s0) ==
  LET s == luaK_dischargevars(s0)
      j == CASE s.e.k \in {"VK", "VKNUM", "VTRUE"} -> [s EXCEPT !.list = {}]
             [] s.e.k = "VFALSE" -> luaK_jump(s)
             [] s.e.k = "VJMP"   -> [invertjump(s) EXCEPT !.list = {s.e.info}]
             [] OTHER            -> jumponcond(s, 0)
  IN  [luaK_patchtohere(j, j.e.t) EXCEPT !.e.f = @ \cup j.list, !.e.t = {}]

luaK_goiffalse(s0) ==
  LET s == luaK_dischargevars(s0)
      j == CASE s.e.k \in {"VNIL", "VFALSE"} -> [s EXCEPT !.list = {}]
             [] s.e.k = "VTRUE" -> luaK_jump(s)
             [] s.e.k = "VJMP"  -> [s EXCEPT !.list = {s.e.info}]
             [] OTHER           -> jumponcond(s, 1)
  IN  [luaK_patchtohere(j, j.e.f) EXCEPT !.e.t = @ \cup j.list, !.e.f = {}]

codenot(s0) ==
  LET s == luaK_dischargevars(s0)
      d == discharge2anyreg(s)
      n == CASE s.e.k \in {"VNIL", "VFALSE"}        -> Become(s, "VTRUE", s.e.info)
             [] s.e.k \in {"VK", "VKNUM", "VTRUE"}  -> Become(s, "VFALSE", s.e.info)
             [] s.e.k = "VJMP" -> invertjump(s)
             [] OTHER -> relocable(luaK_code(freeexp(d, d.e), "NOT", 0, d.e.info, 0))
  IN  removevalues([n EXCEPT !.e.t = n.e.f, !.e.f = n.e.t], n.e.t \cup n.e.f)

-----------------------------------------------------------------------------
(* Operators.                                                              *)

Number(op, a, b) ==
  CASE op = "ADD" -> a + b [] op = "SUB" -> a - b [] op = "MUL" -> a * b
    [] op = "DIV" -> a \div b [] op = "POW" -> a ^ b
    [] op = "MOD" -> IF b > 0 THEN a % b ELSE 0 - ((0 - a) % (0 - b))
    [] op = "UNM" -> 0 - a

constfolding(op, e1, e2) ==
  /\ isnumeral(e1) /\ isnumeral(e2)
  /\ op \in {"ADD", "SUB", "MUL", "DIV", "MOD", "POW", "UNM"}
  /\ op \in {"DIV", "MOD"} => e2.info # 0

codearith(s, op, e1) ==
  LET unary == op \in {"UNM", "LEN"}
      two == IF unary THEN s ELSE luaK_exp2RK(s)
      o2  == IF unary THEN 0 ELSE RK(two.e)
      one == luaK_exp2RK(With(two, e1))
      o1  == RK(one.e)
      freed == IF o1 > o2 THEN freeexp(freeexp(one, one.e), two.e)
               ELSE freeexp(freeexp(one, two.e), one.e)
  IN  IF constfolding(op, e1, s.e)
      THEN With(s, [e1 EXCEPT !.info = Number(op, e1.info, s.e.info)])
      ELSE relocable(luaK_code(freed, op, 0, o1, o2))

codecomp(s, op, cond, e1) ==
  LET one == luaK_exp2RK(With(s, e1))
      two == luaK_exp2RK(With(one, s.e))
      freed == With(freeexp(freeexp(two, two.e), one.e), one.e)
      c == IF cond = 0 /\ op # "EQ"     \* exchange the operands for `<' or `<='
           THEN condjump(freed, op, 1, RK(two.e), RK(one.e))
           ELSE condjump(freed, op, cond, RK(one.e), RK(two.e))
  IN  Become(c, "VJMP", pc(c) - 1)

luaK_prefix(s, op) ==
  LET any == luaK_exp2anyreg(s)
      operand == IF op = "LEN" \/ s.e.k = "VK" THEN any ELSE s
  IN  IF op = "NOT" THEN codenot(s)
      ELSE codearith(With(operand, init_exp("VKNUM", 0)), op, operand.e)

Arith == {"ADD", "SUB", "MUL", "DIV", "MOD", "POW"}

luaK_infix(s, op) ==
  CASE op = "AND"    -> luaK_goiftrue(s)
    [] op = "OR"     -> luaK_goiffalse(s)
    [] op = "CONCAT" -> luaK_exp2nextreg(s)
    [] op \in Arith /\ isnumeral(s.e) -> s
    [] OTHER         -> luaK_exp2RK(s)

Comparison == [EQ |-> <<"EQ", 1>>, NE |-> <<"EQ", 0>>, LT |-> <<"LT", 1>>, LE |-> <<"LE", 1>>,
               GT |-> <<"LT", 0>>, GE |-> <<"LE", 0>>]

luaK_posfix(s, op, e1) ==
  LET d == luaK_dischargevars(s)
      v == luaK_exp2val(s)
  IN  CASE op = "AND" -> assert([d EXCEPT !.e.f = @ \cup e1.f], e1.t = {})
        [] op = "OR"  -> assert([d EXCEPT !.e.t = @ \cup e1.t], e1.f = {})
        [] op = "CONCAT" ->
             IF v.e.k = "VRELOCABLE" /\ Instr(v, v.e.info).op = "CONCAT"
             THEN With(assert([freeexp(v, e1) EXCEPT !.code[v.e.info + 1].b = e1.info],
                              e1.info = Instr(v, v.e.info).b - 1),
                       [e1 EXCEPT !.k = "VRELOCABLE", !.info = v.e.info])
             ELSE codearith(luaK_exp2nextreg(v), op, e1)
        [] op \in Arith -> codearith(s, op, e1)
        [] OTHER -> codecomp(s, Comparison[op][1], Comparison[op][2], e1)

\* the number of a later block is a word of its own behind the instruction
luaK_setlist(s, base, nelems, tostore) ==
  LET block == (nelems - 1) \div LFIELDS_PER_FLUSH + 1
      items == IF tostore = MULTRET THEN 0 ELSE tostore
      setlist(c) == luaK_code(assert(s, tostore # 0), "SETLIST", base, items, c)
  IN  [IF block <= MAXARG_C THEN setlist(block) ELSE luaK_code(setlist(0), "COUNT", 0, block, 0)
       EXCEPT !.freereg = base + 1]
=============================================================================
