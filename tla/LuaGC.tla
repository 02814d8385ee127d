------------------------------- MODULE LuaGC -------------------------------
(***************************************************************************)
(* The incremental garbage collector of Lua (lgc.c), which owns every      *)
(* object the DLL and its scripts handle, against a program that goes on   *)
(* between any two of its steps.                                           *)
(*                                                                         *)
(* The program is what lvm.c and lapi.c let it be: it holds values on the  *)
(* stacks of its threads, reads what they refer to, makes objects, and     *)
(* stores references, each store with the barrier the code has there.      *)
(*                                                                         *)
(* luaC_step is one or more of these steps in a row: how many depends on   *)
(* sizes, so the program may come in between any two.                      *)
(***************************************************************************)
EXTENDS Integers, Sequences, FiniteSets, SequencesExt

CONSTANTS
    Objs,            \* what may be allocated, Main and Registry included
    Main, Registry,  \* the main thread, and the table that holds globals
    nil,
    Pools,           \* kinds of objects, of metatables, and bodies to begin with
    Slots,           \* of a stack
    MaxSteps         \* bound on what the program does in all

Kinds == {"table", "userdata", "function", "upval", "thread", "string"}
Plain == "plain"     \* a key that is not collectable

\* What an object of kind k holds when it refers to objects of A only:
\* upvalues are no values, and metatables are tables.
Bodies(p, k, A) ==
    LET values == {o \in A : p[o].kind # "upval"}
        tables == {o \in A : p[o].kind = "table"}
        cells  == values \cup {Plain}
    IN CASE k = "table"    -> [entries : SUBSET (cells \X cells), mt : tables \cup {nil}]
         [] k = "userdata" -> [mt : tables \cup {nil}]
         [] k = "function" -> [up : A \cup {nil}]
         [] k = "upval"    -> [at : {<<>>} \cup ({o \in A : p[o].kind = "thread"} \X Slots),
                               v : values \cup {nil}]
         [] k = "thread"   -> [stack : [Slots -> values \cup {nil}]]
         [] k = "string"   -> [len : {0}]

\* A pool begins with the heap that some program has built: what is allocated
\* refers to what is allocated.
ASSUME ObjsAssumption == IsFiniteSet(Objs) /\ Main \in Objs /\ Registry \in Objs /\ Main # Registry
                         /\ Plain \notin Objs /\ nil \notin Objs \cup {Plain}
ASSUME PoolsAssumption == \A p \in Pools :
    LET here == {o \in Objs : p[o].body # nil}
    IN /\ DOMAIN p = Objs /\ {Main, Registry} \subseteq here
       /\ p[Main].kind = "thread" /\ p[Registry].kind = "table"
       /\ \A o \in Objs : /\ p[o].kind \in Kinds /\ p[o].meta \subseteq {"k", "v", "gc"}
                          /\ p[o].meta # {} => p[o].kind = "table"
                          /\ o \in here => p[o].body \in Bodies(p, p[o].kind, here)
ASSUME NilAssumption == \A p \in Pools : \A k \in Kinds : nil \notin Bodies(p, k, Objs)
ASSUME BoundsAssumption == Slots \subseteq Nat /\ MaxSteps \in Nat

VARIABLES
    pool,                  \* the kinds of this behaviour
    body,                  \* what an object holds; nil when it is not allocated
    gmt,                   \* g->mt: the metatable of a basic type
    g,                     \* colours, and the lists gray, grayagain and weak
    gcstate, currentwhite,
    rootgc,                \* all objects but strings, open upvalues and tmudata
    sweepgc,               \* what the sweep has still before it
    tmudata,               \* userdata to finalize
    finalized,             \* userdata with the bit FINALIZEDBIT
    steps,                 \* how many steps the program has taken
    fin,                   \* the userdata on the stacks of running finalizers
    called, doomed,        \* history: calls of finalizers, what no root
    missed                 \* reached when this collection began, and whether
                           \* lua_setupvalue put a white value in a black upvalue

heap == <<pool, body, gmt, fin>>
lists == <<rootgc, sweepgc, tmudata, finalized, called>>
phase == <<gcstate, currentwhite>>
vars == <<heap, g, phase, lists, steps, doomed, missed>>

Kind(o)  == pool[o].kind
Alive    == {o \in Objs : body[o] # nil}
Of(k)    == {o \in Alive : Kind(o) = k}
Whites   == {"white0", "white1"}
White(m, o) == m.color[o] \in Whites
otherwhite  == IF currentwhite = "white0" THEN "white1" ELSE "white0"
isdead(o)   == g.color[o] = otherwhite
Closed      == <<>>

\* s, less what is in S
Without(s, S) ==
    LET upto[n \in 0..Len(s)] == IF n = 0 THEN <<>>
                                 ELSE IF s[n] \in S THEN upto[n - 1] ELSE Append(upto[n - 1], s[n])
    IN upto[Len(s)]

States == {"pause", "propagate", "sweep", "finalize"}

-----------------------------------------------------------------------------
(* What refers to what *)

Open(u)      == Kind(u) = "upval" /\ body[u].at # Closed
OpenOn(th)   == {u \in Of("upval") : Open(u) /\ body[u].at[1] = th}
upvalue(u)   == IF Open(u) THEN body[body[u].at[1]].stack[body[u].at[2]] ELSE body[u].v
Modes(t)     == IF body[t].mt = nil THEN {} ELSE pool[body[t].mt].meta
StackOf(th)  == {body[th].stack[s] : s \in Slots} \cup IF th = Main THEN Range(fin) ELSE {}

\* The references of an object that keep what they refer to.
Strong(o) == Objs \cap
    CASE Kind(o) = "table" -> {body[o].mt}
                              \cup {e[1] : e \in IF "k" \in Modes(o) THEN {} ELSE body[o].entries}
                              \cup {e[2] : e \in IF "v" \in Modes(o) THEN {} ELSE body[o].entries}
      [] Kind(o) = "userdata" -> {body[o].mt}
      [] Kind(o) = "function" -> {body[o].up}
      [] Kind(o) = "upval"    -> {upvalue(o)}
      [] Kind(o) = "thread"   -> StackOf(o)
      [] Kind(o) = "string"   -> {}

Weak(o) == IF Kind(o) = "table" THEN Objs \cap UNION {{e[1], e[2]} : e \in body[o].entries} ELSE {}

\* Strings count as values, so a weak table holds them as well.
Holds(o) == Strong(o) \cup {v \in Weak(o) : Kind(v) = "string"}

Roots == Objs \cap ({Main, Registry, gmt} \cup Range(tmudata))

\* The least set that holds S and what its members refer to.
From(S, refs) ==
    LET closed == {U \in SUBSET (Objs \ S) : \A o \in S \cup U : refs[o] \subseteq S \cup U}
    IN {o \in Objs : o \in S \/ \A U \in closed : o \in U}

Refs(S) == [o \in Objs |-> IF o \in Alive \ S THEN Holds(o) ELSE {}]

\* What the program and the finalizers to come can get at, over any number of
\* references, and what the program can get at without going through one of
\* the userdata that wait for their finalizers.
Reach == From(Roots, Refs({}))
InUse == From(Objs \cap {Main, Registry, gmt}, Refs(Range(tmudata)))

\* What is on the list of all objects, or on tmudata
Listed == {o \in Alive : Kind(o) # "string" /\ ~Open(o)}

HeapOK ==
    /\ pool \in Pools /\ DOMAIN body = Objs /\ {Main, Registry} \subseteq Alive
    /\ \A o \in Alive : body[o] \in Bodies(pool, Kind(o), Objs)
    /\ gmt \in Of("table") \cup {nil} /\ fin \in Seq(Objs) /\ Range(fin) \subseteq Of("userdata")
Marks == [color : [Objs -> Whites \cup {"gray", "black"}],
          gray : SUBSET Objs, grayagain : SUBSET Objs, weak : SUBSET Objs]
ListsOK ==
    /\ rootgc \in Seq(Objs) /\ tmudata \in Seq(Objs) /\ sweepgc \in Seq(Alive)
    /\ Range(rootgc) \cup Range(tmudata) = Listed /\ Range(rootgc) \cap Range(tmudata) = {}
    /\ IsInjective(rootgc) /\ IsInjective(tmudata)
    /\ finalized \subseteq Of("userdata") /\ called \in [Objs -> Nat]
TypeOK ==
    /\ HeapOK /\ ListsOK /\ g \in Marks /\ gcstate \in States /\ currentwhite \in Whites
    /\ steps \in 0..MaxSteps /\ doomed \subseteq Alive /\ missed \in BOOLEAN

NewTable  == [entries |-> {}, mt |-> nil]
NewThread == [stack |-> [s \in Slots |-> nil]]

\* A collection is about to begin; what the program has built so far is white.
Init ==
    /\ pool \in Pools /\ body = [o \in Objs |-> pool[o].body]
    /\ gmt = nil /\ fin = <<>> /\ sweepgc = <<>> /\ tmudata = <<>> /\ steps = 0
    /\ rootgc = SetToSeq(Listed \ (Of("userdata") \cup {Main})) \o <<Main>> \o SetToSeq(Of("userdata"))
    /\ g = [color |-> [o \in Objs |-> "white0"], gray |-> {}, grayagain |-> {}, weak |-> {}]
    /\ gcstate = "pause" /\ currentwhite = "white0"
    /\ finalized = {} /\ called = [o \in Objs |-> 0] /\ doomed = {} /\ missed = FALSE

-----------------------------------------------------------------------------
(* Marking *)

\* markobject and markvalue: userdata and closed upvalues turn black at once,
\* and what they refer to is marked with them; what has a gclist goes gray.
mark(m, S) ==
    LET W0 == {o \in S \cap Objs : White(m, o)}
        W1 == W0 \cup {v \in {upvalue(u) : u \in {o \in W0 : Kind(o) = "upval"}} \cap Objs : White(m, v)}
        W2 == W1 \cup {v \in {body[u].mt : u \in {o \in W1 : Kind(o) = "userdata"}} \cap Objs : White(m, v)}
        black == {o \in W2 : Kind(o) = "userdata" \/ (Kind(o) = "upval" /\ ~Open(o))}
    IN [m EXCEPT !.color = [o \in Objs |-> IF o \in black THEN "black"
                                           ELSE IF o \in W2 THEN "gray" ELSE @[o]],
                 !.gray = @ \cup {o \in W2 : Kind(o) \in {"table", "function", "thread"}}]

IsWeak(o)   == Kind(o) = "table" /\ Modes(o) \cap {"k", "v"} # {}
IsThread(o) == Kind(o) = "thread"

\* The objects of S have been traversed: weak tables and threads go to a list
\* on which they wait for `atomic', and no string or open upvalue turns black.
traversed(m, S) ==
    LET gray == {o \in S : IsWeak(o) \/ Kind(o) \in {"thread", "string"} \/ (Kind(o) = "upval" /\ Open(o))}
    IN [m EXCEPT !.color = [o \in Objs |-> IF o \in gray THEN "gray" ELSE IF o \in S THEN "black" ELSE @[o]],
                 !.gray = @ \ S, !.weak = @ \cup {o \in S : IsWeak(o)},
                 !.grayagain = @ \cup {o \in S : IsThread(o)}]

\* Mutant of propagatemark: weak tables are traversed like all others.
propagatemark_strong(m, o) ==
    mark([m EXCEPT !.color[o] = IF Kind(o) = "thread" THEN "gray" ELSE "black", !.gray = @ \ {o},
                   !.grayagain = @ \cup {x \in {o} : Kind(x) = "thread"}], Strong(o) \cup Weak(o))

\* traversetable, traverseclosure (with its prototype), traversestack
propagatemark(m, o) == mark(traversed(m, {o}), Strong(o))

\* propagatemark on and on: in whatever order it goes, what the gray objects
\* lead to over white ones is traversed.
propagateall(m) ==
    traversed(m, From(m.gray, [o \in Objs |-> IF o \in Alive THEN {v \in Strong(o) : White(m, v)} ELSE {}]))

markroot ==
    /\ gcstate = "pause"
    /\ gcstate' = "propagate"
    /\ g' = mark([g EXCEPT !.gray = {}, !.grayagain = {}, !.weak = {}], {Main, Registry, gmt})
    /\ UNCHANGED <<heap, currentwhite, lists>>

propagate ==
    /\ gcstate = "propagate"
    /\ \E o \in g.gray : g' = propagatemark(g, o)
    /\ UNCHANGED <<heap, phase, lists>>

HasGC(u) == body[u].mt # nil /\ "gc" \in pool[body[u].mt].meta

\* Mutant of dying: FINALIZEDBIT is not looked at.
dying_again(m) == {u \in Range(rootgc) : Kind(u) = "userdata" /\ White(m, u)}

\* luaC_separateudata: white userdata are finalized, now or not at all, and
\* those that have a __gc are to go to tmudata in the order of the list.
dying(m) == {u \in Range(rootgc) \ finalized : Kind(u) = "userdata" /\ White(m, u)}
separateudata(m) == Without(rootgc, Objs \ {u \in dying(m) : HasGC(u)})

\* marktmu: what the finalizers will see is kept for this collection.
marktmu(m, tmu) ==
    mark([m EXCEPT !.color = [o \in Objs |-> IF o \in tmu THEN currentwhite ELSE @[o]]], tmu)

\* Strings in weak tables count as values, and get marked; a userdata that is
\* being finalized stays as a key and not as a value.
iscleared(m, fz, o, iskey) ==
    /\ o \in Objs /\ Kind(o) # "string"
    /\ White(m, o) \/ (~iskey /\ o \in fz)

\* cleartable: what is left of a weak table
cleartable(m, fz, t) ==
    {e \in body[t].entries : ~iscleared(m, fz, e[1], TRUE) /\ ~iscleared(m, fz, e[2], FALSE)}

\* ... and the strings it has looked at; it does not look at the value when
\* the key is cleared.
kept(m, t) == {o \in Weak(t) : Kind(o) = "string" /\ \E e \in body[t].entries :
                                  o = e[1] \/ (o = e[2] /\ ~iscleared(m, {}, e[1], TRUE))}

openvalues(m) == {upvalue(u) : u \in {x \in Of("upval") : Open(x) /\ m.color[x] = "gray"}}

atomic ==
    /\ gcstate = "propagate" /\ g.gray = {}
    /\ LET m1  == propagateall(mark(g, openvalues(g)))
           m2  == propagateall(mark([m1 EXCEPT !.gray = m1.weak, !.weak = {}], {gmt}))
           m3  == propagateall([m2 EXCEPT !.gray = m2.grayagain, !.grayagain = {}])
           tmu == tmudata \o separateudata(m3)
           m4  == propagateall(marktmu(m3, Range(tmu)))
           fz  == finalized \cup dying(m3)
           strings == UNION {kept(m4, t) : t \in m4.weak}
       IN /\ tmudata' = tmu
          /\ finalized' = fz
          /\ rootgc' = Without(rootgc, Range(tmu))
          /\ body' = [t \in Objs |-> IF t \in m4.weak THEN [body[t] EXCEPT !.entries = cleartable(m4, fz, t)]
                                     ELSE body[t]]
          /\ g' = [m4 EXCEPT !.color = [o \in Objs |-> IF o \in strings THEN "gray" ELSE @[o]]]
    /\ sweepgc' = SetToSeq(Of("string")) \o rootgc'
    /\ gcstate' = "sweep" /\ currentwhite' = otherwhite
    /\ UNCHANGED <<pool, gmt, fin, called>>

-----------------------------------------------------------------------------
(* Sweeping and finalizing *)

\* GCSsweepstring and GCSsweep, object by object; a thread brings its open
\* upvalues, and one that is freed closes those that live on
\* (luaE_freethread).
sweeplist ==
    /\ gcstate = "sweep" /\ sweepgc # <<>>
    /\ LET o == Head(sweepgc)
           opens  == IF Kind(o) = "thread" THEN OpenOn(o) ELSE {}
           freed  == {x \in opens \cup {o} : isdead(x)}
           closed == IF o \in freed THEN opens \ freed ELSE {}
       IN /\ body' = [x \in Objs |-> IF x \in freed THEN nil
                                     ELSE IF x \in closed THEN [at |-> Closed, v |-> upvalue(x)] ELSE body[x]]
          /\ g' = [g EXCEPT !.color = [x \in Objs |-> IF x \in (opens \cup {o}) \ freed THEN currentwhite ELSE @[x]]]
          /\ rootgc' = SetToSeq(closed) \o Without(rootgc, freed)
          /\ finalized' = finalized \ freed
          /\ called' = [x \in Objs |-> IF x \in freed THEN 0 ELSE called[x]]
    /\ sweepgc' = Tail(sweepgc)
    /\ UNCHANGED <<pool, gmt, fin, phase, tmudata>>

sweep_done ==
    /\ gcstate = "sweep" /\ sweepgc = <<>>
    /\ gcstate' = "finalize"
    /\ UNCHANGED <<heap, g, currentwhite, lists>>

\* luaC_link, and luaS_newudata and GCTM: userdata go after the main thread.
link(o) == IF Kind(o) = "userdata"
           THEN LET here == CHOOSE i \in 1..Len(rootgc) : rootgc[i] = Main IN InsertAt(rootgc, here + 1, o)
           ELSE <<o>> \o rootgc

\* The first of tmudata goes back to the list, and its finalizer is called,
\* also from a finalizer that runs a collection.
GCTM ==
    /\ gcstate = "finalize" /\ tmudata # <<>>
    /\ LET u == Head(tmudata) IN
       /\ rootgc' = link(u)
       /\ g' = [g EXCEPT !.color[u] = currentwhite]
       /\ fin' = IF HasGC(u) THEN <<u>> \o fin ELSE fin
       /\ called' = [called EXCEPT ![u] = IF HasGC(u) THEN @ + 1 ELSE @]
    /\ tmudata' = Tail(tmudata)
    /\ UNCHANGED <<pool, body, gmt, phase, finalized, sweepgc>>

finalizer_return ==
    /\ fin # <<>>
    /\ fin' = Tail(fin)
    /\ UNCHANGED <<pool, body, gmt, g, phase, lists>>

cycle_done ==
    /\ gcstate = "finalize" /\ tmudata = <<>>
    /\ gcstate' = "pause"
    /\ UNCHANGED <<heap, g, currentwhite, lists>>

\* luaC_fullgc gives a mark phase up by a sweep that frees nothing, and from
\* finalize it goes on at once, whatever is in tmudata: all is marked anew.
luaC_fullgc ==
    /\ gcstate \in {"propagate", "finalize"}
    /\ gcstate' = "propagate"
    /\ LET white == [o \in Objs |-> IF o \in Range(tmudata) THEN g.color[o] ELSE currentwhite]
       IN g' = mark([color |-> white, gray |-> {}, grayagain |-> {}, weak |-> {}], {Main, Registry, gmt})
    /\ UNCHANGED <<heap, currentwhite, lists>>

Begin == markroot \/ luaC_fullgc
Goon  == propagate \/ atomic \/ sweeplist \/ sweep_done \/ GCTM \/ finalizer_return \/ cycle_done

-----------------------------------------------------------------------------
(* Barriers *)

\* luaC_barrier and luaC_objbarrier: while marking, the new reference is
\* marked; later the object turns white, to avoid other barriers.
barrier(m, o, v) ==
    IF v \in Objs /\ White(m, v) /\ m.color[o] = "black"
    THEN IF gcstate = "propagate" THEN mark(m, {v}) ELSE [m EXCEPT !.color[o] = currentwhite]
    ELSE m

\* Mutant of barriert: the colour of the table is not looked at.
barriert_always(m, t, v) ==
    IF v \in Objs /\ White(m, v)
    THEN [m EXCEPT !.color[t] = "gray", !.grayagain = @ \cup {t}] ELSE m

\* luaC_barriert and luaC_objbarriert: a black table is to be traversed again.
barriert(m, t, v) ==
    IF v \in Objs /\ White(m, v) /\ m.color[t] = "black"
    THEN [m EXCEPT !.color[t] = "gray", !.grayagain = @ \cup {t}] ELSE m

-----------------------------------------------------------------------------
(* The program *)

Running == {Main} \cup {th \in StackOf(Main) \cap Objs : Kind(th) = "thread"}
InHand  == (UNION {StackOf(th) : th \in Running}) \ {nil, Main, Registry}
Hands(k) == {o \in InHand \cup {Registry} : Kind(o) = k}

\* What one instruction or call of the API reads from a value at hand
Readable(h) == (Strong(h) \cup Weak(h) \cup
    (IF Kind(h) = "function" /\ body[h].up \in Of("upval") THEN {upvalue(body[h].up)} ELSE {}))
    \ ({nil} \cup {u \in Objs : Kind(u) = "upval"})

put(th, s, v) == body' = [body EXCEPT ![th].stack[s] = v]

\* A stack slot is assigned nil, or a value that the program can read.
assign(th, s) ==
    /\ \E v \in ((UNION {Readable(h) : h \in InHand \cup {Registry}}) \cup InHand \cup {gmt, nil}) \ {body[th].stack[s]} :
          put(th, s, v)
    /\ UNCHANGED <<pool, gmt, fin, g, phase, lists>>

\* luaC_link: objects are born white; userdata go after the main thread.
new_object(th, s, o) ==
    /\ o \notin Alive /\ Kind(o) \in {"table", "userdata", "thread"}
    /\ body' = [body EXCEPT ![o] = CASE Kind(o) = "table" -> NewTable
                                     [] Kind(o) = "thread" -> NewThread
                                     [] Kind(o) = "userdata" -> [mt |-> nil],
                            ![th].stack[s] = o]
    /\ g' = [g EXCEPT !.color[o] = currentwhite]
    /\ rootgc' = link(o)
    /\ UNCHANGED <<pool, gmt, fin, phase, sweepgc, tmudata, finalized, called>>

\* Mutant of luaS_newlstr: a dead string is handed out as it is.
luaS_newlstr_dead(th, s, o) ==
    /\ Kind(o) = "string"
    /\ body' = [body EXCEPT ![o] = [len |-> 0], ![th].stack[s] = o]
    /\ g' = IF o \notin Alive THEN [g EXCEPT !.color[o] = currentwhite] ELSE g
    /\ UNCHANGED <<pool, gmt, fin, phase, lists>>

\* A string is found in the string table, dead or not, or made.
luaS_newlstr(th, s, o) ==
    /\ Kind(o) = "string"
    /\ body' = [body EXCEPT ![o] = [len |-> 0], ![th].stack[s] = o]
    /\ g' = IF o \notin Alive \/ isdead(o) THEN [g EXCEPT !.color[o] = currentwhite] ELSE g
    /\ UNCHANGED <<pool, gmt, fin, phase, lists>>

\* lua_pushcclosure with a value, and OP_CLOSURE with an upvalue of the
\* running function (OP_GETUPVAL)
pushcclosure(th, s, o) ==
    /\ o \notin Alive /\ Kind(o) = "function"
    /\ \E v \in InHand \cup {body[c].up : c \in Hands("function")} :
          body' = [body EXCEPT ![o] = [up |-> v], ![th].stack[s] = o]
    /\ g' = [g EXCEPT !.color[o] = currentwhite]
    /\ rootgc' = link(o)
    /\ UNCHANGED <<pool, gmt, fin, phase, sweepgc, tmudata, finalized, called>>

\* OP_CLOSURE over a local variable: luaF_findupval finds the open upvalue of
\* slot l, and resurrects it when it is dead, or makes one.
op_closure(th, s, l, o, u) ==
    /\ o \notin Alive /\ Kind(o) = "function"
    /\ Kind(u) = "upval"
    /\ \/ u \in OpenOn(th) /\ body[u].at[2] = l
       \/ u \notin Alive /\ \A x \in OpenOn(th) : body[x].at[2] # l
    /\ body' = [body EXCEPT ![u] = [at |-> <<th, l>>, v |-> nil],
                            ![o] = [up |-> u], ![th].stack[s] = o]
    /\ g' = [g EXCEPT !.color[o] = currentwhite,
                      !.color[u] = IF u \notin Alive \/ isdead(u) THEN currentwhite ELSE @]
    /\ rootgc' = link(o)
    /\ UNCHANGED <<pool, gmt, fin, phase, sweepgc, tmudata, finalized, called>>

\* Mutant of luaF_close: there is no luaC_linkupval.
luaF_close_unlinked(th, level) ==
    LET closing == {u \in OpenOn(th) : body[u].at[2] >= level} IN
    /\ closing # {}
    /\ body' = [u \in Objs |-> IF u \in closing THEN [at |-> Closed, v |-> upvalue(u)] ELSE body[u]]
    /\ UNCHANGED <<pool, gmt, fin, g, phase, lists>>

\* luaF_close: the upvalues from a level on take their values over, and
\* luaC_linkupval puts them under the rules for closed ones.
luaF_close(th, level) ==
    LET closing == {u \in OpenOn(th) : body[u].at[2] >= level}
        live    == {u \in closing : ~isdead(u)}
        gray    == {u \in live : g.color[u] = "gray"}
    IN /\ closing # {}
       /\ body' = [u \in Objs |-> IF u \notin closing THEN body[u]
                                  ELSE IF u \in live THEN [at |-> Closed, v |-> upvalue(u)] ELSE nil]
       /\ g' = IF gcstate = "propagate"
               THEN mark([g EXCEPT !.color = [u \in Objs |-> IF u \in gray THEN "black" ELSE @[u]]],
                         {upvalue(u) : u \in gray})
               ELSE [g EXCEPT !.color = [u \in Objs |-> IF u \in gray THEN currentwhite ELSE @[u]]]
       /\ rootgc' = SetToSeq(live) \o rootgc
       /\ UNCHANGED <<pool, gmt, fin, phase, sweepgc, tmudata, finalized, called>>

\* Mutant of settable: there is no barrier.
settable_unbarred(t, k, v) ==
    LET rest == {e \in body[t].entries : e[1] # k} IN
    /\ body' = [body EXCEPT ![t].entries = IF v = nil THEN rest ELSE rest \cup {<<k, v>>}]
    /\ body[t].entries # body'[t].entries
    /\ UNCHANGED <<pool, g, gmt, fin, phase, lists>>

\* luaV_settable and lua_rawset, with the barrier of luaH_set for a new key
settable(t, k, v) ==
    LET rest == {e \in body[t].entries : e[1] # k} IN
    /\ body' = [body EXCEPT ![t].entries = IF v = nil THEN rest ELSE rest \cup {<<k, v>>}]
    /\ body[t].entries # body'[t].entries
    /\ g' = barriert(IF rest = body[t].entries THEN barriert(g, t, k) ELSE g, t, v)
    /\ UNCHANGED <<pool, gmt, fin, phase, lists>>

lua_setmetatable(o, m) ==
    /\ \/ Kind(o) = "table" /\ g' = barriert(g, o, m)
       \/ Kind(o) = "userdata" /\ g' = barrier(g, o, m)
    /\ body[o].mt # m
    /\ body' = [body EXCEPT ![o].mt = m]
    /\ UNCHANGED <<pool, gmt, fin, phase, lists>>

\* The metatable of a basic type has no barrier.
setmetatable_basic(m) ==
    /\ gmt # m /\ gmt' = m
    /\ UNCHANGED <<pool, body, fin, g, phase, lists>>

SetUp(u, v) == body' = IF Open(u) THEN [body EXCEPT ![body[u].at[1]].stack[body[u].at[2]] = v]
                       ELSE [body EXCEPT ![u].v = v]

\* OP_SETUPVAL: the barrier is about the upvalue.
op_setupval(c, v) ==
    /\ body[c].up \in Of("upval") /\ upvalue(body[c].up) # v
    /\ SetUp(body[c].up, v)
    /\ g' = barrier(g, body[c].up, v)
    /\ UNCHANGED <<pool, gmt, fin, phase, lists>>

\* lua_setupvalue, which debug.setupvalue calls: the barrier is about the
\* closure, also when the value goes into an upvalue, which other closures may
\* have made black.
lua_setupvalue(c, v) ==
    LET u == body[c].up IN
    /\ u # nil
    /\ \/ u \in Of("upval") /\ upvalue(u) # v /\ SetUp(u, v)
       \/ u \notin Of("upval") /\ u # v /\ body' = [body EXCEPT ![c].up = v]
    /\ g' = barrier(g, c, v)
    /\ missed' = (missed \/ (/\ gcstate = "propagate" /\ u \in Of("upval")
                             /\ g'.color[u] = "black" /\ White(g', v)))
    /\ UNCHANGED <<pool, gmt, fin, phase, lists>>

\* Tables have one entry at a time here, of which the key or the value is
\* collectable.
Entries == {Plain} \X (InHand \cup {nil}) \cup InHand \X {Plain, nil}

Program ==
    /\ steps < MaxSteps
    /\ \/ \E th \in Running, s \in Slots :
             \/ assign(th, s) \/ luaF_close(th, s)
             \/ \E o \in Objs : \/ new_object(th, s, o) \/ luaS_newlstr(th, s, o)
                                \/ pushcclosure(th, s, o)
                                \/ \E l \in Slots \ {s}, u \in Objs : op_closure(th, s, l, o, u)
       \/ \E t \in Hands("table"), e \in Entries :
             /\ t = Registry => e[1] = Plain
             /\ {f[1] : f \in body[t].entries} \subseteq {e[1]}
             /\ settable(t, e[1], e[2])
       \/ \E m \in {h \in InHand : pool[h].meta # {}} :
             \/ setmetatable_basic(m)
             \/ \E o \in InHand : lua_setmetatable(o, m)
       \/ \E o \in InHand : lua_setmetatable(o, nil)
       \/ \E c \in Hands("function"), v \in InHand : op_setupval(c, v)

Setupvalue == steps < MaxSteps /\ \E c \in Hands("function"), v \in InHand : lua_setupvalue(c, v)

\* What has been freed in use, as only a missed barrier can make it, is no
\* object any more: the behaviour ends there.
Undefined == missed /\ \E o \in Reach : o \notin Alive \/ ~(Weak(o) \subseteq Alive)

\* `doomed' is what has been unreachable ever since the collection began, from
\* the userdata that `atomic' finds dead too, before it clears weak tables.
Next ==
    \/ ~Undefined /\ Begin /\ UNCHANGED <<steps, missed>> /\ doomed' = Alive \ Reach
    \/ /\ ~Undefined
       /\ \/ Goon /\ UNCHANGED <<steps, missed>>
          \/ Program /\ steps' = steps + 1 /\ UNCHANGED missed
          \/ Setupvalue /\ steps' = steps + 1
       /\ doomed' = IF doomed = {} THEN {} ELSE (doomed \ (Reach' \cup From(Roots', Refs({})))) \cap Alive'
    \/ Undefined /\ UNCHANGED vars

Spec == Init /\ [][Next]_vars

-----------------------------------------------------------------------------
(* Properties *)

\* lua-5.1.2/doc/manual.html: the collector collects "objects that are no
\* longer accessible from Lua".  What the program can get at is allocated and
\* not about to be freed, whatever the program did between two steps.
OnlyLostIsDead ==
    \A o \in Reach : \A r \in {o} \cup Weak(o) : r \in Alive /\ ~isdead(r)

\* So it is as long as lua_setupvalue has not missed a barrier.
NothingInUseIsDead == ~missed => OnlyLostIsDead

\* The invariant the barriers keep: while marking, nothing black refers to
\* anything white.  Only the barrier of lua_setupvalue can be missed.
BlackNeverSeesWhite ==
    gcstate = "propagate" /\ ~missed =>
        \A o \in Alive \ Range(tmudata) : g.color[o] = "black" => \A v \in Strong(o) : ~White(g, v)

\* The lists share the field gclist, so an object is on one of them only.
ListsDisjoint ==
    gcstate = "propagate" =>
        g.gray \cap g.grayagain = {} /\ g.gray \cap g.weak = {} /\ g.grayagain \cap g.weak = {}

\* A collection frees all that was garbage when it began.
CycleCollects == gcstate = "pause" => doomed = {}

\* A userdata has its finalizer called once.
FinalizedOnce == \A o \in Objs : called[o] <= 1

\* Only a userdata that the program has lost is given to its finalizer, unless
\* lua_setupvalue has hidden it; one that still waits for its own finalizer may
\* lead to it.
NotFinalizedInUse ==
    [][~missed => \A u \in Range(tmudata') \ Range(tmudata) : u \notin InUse]_vars
=============================================================================
