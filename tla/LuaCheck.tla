------------------------------ MODULE LuaCheck ------------------------------
(***************************************************************************)
(* The instruction formats of lopcodes.c and the code checker of ldebug.c, *)
(* which the interpreter relies on: it checks nothing itself.              *)
(***************************************************************************)
EXTENDS LuaCode

\* for each opcode, the formats of b and c (N unused, U used, R register or
\* jump, K register or constant) and the shape of the instruction
luaP_opmodes ==
  [MOVE |-> "RNabc", LOADK |-> "KNabx", LOADBOOL |-> "UUabc", LOADNIL |-> "RNabc",
   GETUPVAL |-> "UNabc", GETGLOBAL |-> "KNabx", GETTABLE |-> "RKabc",
   SETGLOBAL |-> "KNabx", SETUPVAL |-> "UNabc", SETTABLE |-> "KKabc",
   NEWTABLE |-> "UUabc", SELF |-> "RKabc", ADD |-> "KKabc", SUB |-> "KKabc",
   MUL |-> "KKabc", DIV |-> "KKabc", MOD |-> "KKabc", POW |-> "KKabc",
   UNM |-> "RNabc", NOT |-> "RNabc", LEN |-> "RNabc", CONCAT |-> "RRabc",
   JMP |-> "RNsbx", EQ |-> "KKabc", LT |-> "KKabc", LE |-> "KKabc",
   TEST |-> "RUabc", TESTSET |-> "RUabc", CALL |-> "UUabc", TAILCALL |-> "UUabc",
   RETURN |-> "UNabc", FORLOOP |-> "RNsbx", FORPREP |-> "RNsbx",
   TFORLOOP |-> "NUabc", SETLIST |-> "UUabc", CLOSE |-> "NNabc",
   CLOSURE |-> "UNabx", VARARG |-> "UNabc"]
Mode(i, n)  == SubSeq(luaP_opmodes[i.op], n, n)
Shape(i)    == SubSeq(luaP_opmodes[i.op], 3, 5)

sizecode(f) == Len(f.code)
checkreg(f, reg) == reg < f.maxstack

checkArgMode(f, r, mode) ==
  CASE mode = "N" -> r = 0
    [] mode = "U" -> TRUE
    [] mode = "R" -> checkreg(f, r)
    [] mode = "K" -> IF r >= BITRK THEN r - BITRK < Len(f.k) ELSE r < f.maxstack

\* what may follow an instruction that leaves an open number of values
luaG_checkopenop(i) == i.op \in {"CALL", "TAILCALL", "RETURN", "SETLIST"} /\ i.b = 0

precheck(f) ==
  /\ f.maxstack <= MAXSTACK
  /\ f.numparams + (IF "HASARG" \in f.is_vararg THEN 1 ELSE 0) <= f.maxstack
  /\ "NEEDSARG" \in f.is_vararg => "HASARG" \in f.is_vararg
  /\ f.code[sizecode(f)].op = "RETURN"

\* a SETLIST followed by the number of its block
Counted(i) == i.op = "SETLIST" /\ i.c = 0

\* instruction i at pc, of the function f
symbexec(f, pc0, i) ==
  LET open == luaG_checkopenop(f.code[pc0 + 2])
  IN
  /\ checkreg(f, i.a)
  /\ Shape(i) = "abc" => checkArgMode(f, i.b, Mode(i, 1)) /\ checkArgMode(f, i.c, Mode(i, 2))
  /\ Shape(i) = "abx" /\ Mode(i, 1) = "K" => i.b < Len(f.k)
  /\ Shape(i) = "sbx" => LET dest == pc0 + 1 + i.b
                         IN  /\ dest \in 0..sizecode(f) - 1
                             /\ dest > 0 => ~Counted(f.code[dest])
  /\ i.op \in TMode => pc0 + 2 < sizecode(f) /\ f.code[pc0 + 2].op = "JMP"
  /\ CASE i.op = "LOADBOOL" -> i.c = 0 \/ pc0 + 2 < sizecode(f)
       [] i.op \in {"GETUPVAL", "SETUPVAL"} -> i.b < f.nups
       [] i.op \in {"GETGLOBAL", "SETGLOBAL"} -> f.k[i.b + 1][1] = "string"
       [] i.op = "SELF"     -> checkreg(f, i.a + 1)
       [] i.op = "CONCAT"   -> i.b < i.c
       [] i.op = "TFORLOOP" -> i.c >= 1 /\ checkreg(f, i.a + 2 + i.c)
       [] i.op \in {"FORLOOP", "FORPREP"} -> checkreg(f, i.a + 3)
       [] i.op \in {"CALL", "TAILCALL"} ->
            /\ i.b # 0 => checkreg(f, i.a + i.b - 1)
            /\ IF i.c = 0 THEN open ELSE i.c > 1 => checkreg(f, i.a + i.c - 2)
       [] i.op = "RETURN"   -> i.b > 1 => checkreg(f, i.a + i.b - 2)
       [] i.op = "SETLIST"  -> i.b > 0 => checkreg(f, i.a + i.b)
       [] i.op = "CLOSURE"  ->
            /\ i.b < Len(f.p) /\ pc0 + f.p[i.b + 1].nups < sizecode(f)
            /\ \A j \in 1..f.p[i.b + 1].nups : f.code[pc0 + 1 + j].op \in {"GETUPVAL", "MOVE"}
       [] i.op = "VARARG"   ->
            /\ "ISVARARG" \in f.is_vararg /\ "NEEDSARG" \notin f.is_vararg
            /\ i.b = 0 => open
            /\ checkreg(f, i.a + i.b - 2)
       [] OTHER -> TRUE

\* a function and the functions in it
RECURSIVE luaG_checkcode(_)
luaG_checkcode(f) ==
  /\ precheck(f)
  /\ \A j \in DOMAIN f.code : (j > 1 /\ Counted(f.code[j - 1])) \/ symbexec(f, j - 1, f.code[j])
  /\ \A j \in DOMAIN f.p : luaG_checkcode(f.p[j])
=============================================================================
