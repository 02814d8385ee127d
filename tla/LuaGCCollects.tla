--------------------------- MODULE LuaGCCollects ---------------------------
(***************************************************************************)
(* A theorem about LuaGC: a collection frees all that was garbage when it  *)
(* began, but for what weak tables and finalizers have brought back.       *)
(***************************************************************************)
EXTENDS LuaGCProofs

-----------------------------------------------------------------------------
(* The inductive invariant *)

\* No root is lost, and nothing but what is lost refers to what is lost.
Lost ==
    /\ doomed \subseteq Alive /\ doomed \cap Roots = {}
    /\ \A o \in Alive \ doomed : Holds(o) \cap doomed = {}

\* Marking does not come to what is lost, the sweep finds it dead, and after
\* the sweep there is none of it.
Doom ==
    /\ Lost
    /\ gcstate = "propagate" => \A x \in doomed : White(g, x)
    /\ gcstate = "sweep" => \A x \in doomed : isdead(x)
    /\ gcstate \in {"pause", "finalize"} => doomed = {}

\* What has been lost so far, and still is after the step
StillLost == doomed' = (doomed \ (Reach' \cup From(Roots', Refs({})))) \cap Alive'

\* The step adds to what an object refers to only if the roots reach the
\* object or what is added.
Grow == \A o \in Alive' : o \in Reach' \/ (o \in Alive /\ Holds(o)' \subseteq Holds(o) \cup Reach')

\* It leaves the colours of what is lost.
Pale == \A x \in doomed \cap Alive' : x \in Reach' \/ g'.color[x] = g.color[x]

-----------------------------------------------------------------------------
(* What the roots reach *)

AtHand ==
    /\ Roots \subseteq Reach /\ Reach \subseteq Alive /\ {Main, Registry} \subseteq Reach
    /\ \A o \in Reach : Holds(o) \subseteq Reach
    /\ \A th \in Reach : Kind(th) = "thread" => Objs \cap StackOf(th) \subseteq Reach
    /\ Running \subseteq Reach /\ InHand \cap Objs \subseteq Reach

\* The roots reach whatever is at hand.
LEMMA HandReach == Safe => AtHand
<1> SUFFICES ASSUME Safe PROVE AtHand
    OBVIOUS
<1>1. HeapOK /\ Homed /\ Reach \subseteq Alive /\ Roots \in SUBSET Objs
    BY ReachLive DEF Safe, Live, Roots
<1>2. /\ Roots \subseteq Reach /\ \A o \in Reach : Refs({})[o] \subseteq Reach
    BY <1>1, RefsFacts, FromFacts DEF Reach
<1>3. \A o \in Reach : Holds(o) \subseteq Reach
    BY <1>1, <1>2, RefsFacts
<1>4. {Main, Registry} \subseteq Reach /\ Kind(Main) = "thread"
    BY <1>1, <1>2, ObjsAssumption, PoolFacts DEF Roots, HeapOK
<1>5. \A th \in Reach : Kind(th) = "thread" => Objs \cap StackOf(th) \subseteq Reach
    <2>1. \A th \in Reach : Kind(th) = "thread" => Strong(th) = Objs \cap StackOf(th)
        BY <1>1, StrongFacts
    <2> QED
        BY <1>3, <2>1 DEF Holds
<1>6. Running \subseteq Reach /\ \A th \in Running : Kind(th) = "thread"
    BY <1>4, <1>5 DEF Running
<1>7. InHand \cap Objs \subseteq Reach
    BY <1>5, <1>6 DEF InHand
<1> QED
    BY <1>1, <1>2, <1>3, <1>4, <1>5, <1>6, <1>7 DEF AtHand

\* ... also after the step.
LEMMA HandReachNext == Safe' => AtHand'
BY HandReach, PTL

\* The program does not reach what is lost.
LEMMA LostUnreached ==
    ASSUME Safe, Lost
    PROVE  Reach \cap doomed = {}
<1> DEFINE T == Objs \ doomed
<1>1. HeapOK /\ Homed /\ Roots \in SUBSET Objs /\ Roots \subseteq T /\ T \in SUBSET Objs
    BY DEF Safe, Lost, Roots
<1>2. ASSUME NEW o \in T
      PROVE  Refs({})[o] \subseteq T
    <2>1. CASE o \in Alive
        <3>1. Refs({})[o] = Holds(o) /\ Holds(o) \subseteq Objs
            BY <1>1, <2>1, RefsFacts
        <3> QED
            BY <2>1, <3>1 DEF Lost
    <2>2. CASE o \notin Alive
        BY <1>1, <2>2, RefsFacts
    <2> QED
        BY <2>1, <2>2
<1> HIDE DEF T
<1>3. Reach \subseteq T
    BY <1>1, <1>2, RefsFacts, FromFacts DEF Reach
<1> QED
    BY <1>3 DEF T

\* What is lost after the step was lost before, and nothing else refers to it.
LEMMA LostStep ==
    ASSUME Safe, Safe', Lost, Grow, StillLost
    PROVE  Lost'
<1> DEFINE F == From(Roots', Refs({}))
<1>1. /\ Roots' \subseteq Reach' /\ \A o \in Reach' : Holds(o)' \subseteq Reach'
    BY HandReachNext DEF AtHand
<1>2. HeapOK /\ Homed /\ Roots' \in SUBSET Objs
    BY DEF Safe, Roots
<1>3. /\ \A o \in F : Refs({})[o] \subseteq F
    BY <1>2, RefsFacts, FromFacts
<1>4. doomed' = (doomed \ (Reach' \cup F)) \cap Alive'
    BY DEF StillLost
<1> HIDE DEF F
<1>5. ASSUME NEW o \in Alive' \ doomed', NEW v \in Holds(o)', v \in doomed'
      PROVE  FALSE
    <2>1. o \notin Reach' /\ v \notin Reach' /\ v \notin F /\ v \in doomed
        BY <1>1, <1>4, <1>5
    <2>2. o \in Alive /\ v \in Holds(o)
        BY <1>5, <2>1 DEF Grow
    <2>3. o \in F
        BY <1>4, <1>5, <2>1, <2>2 DEF Lost
    <2>4. Refs({})[o] = Holds(o)
        BY <1>2, <2>2, RefsFacts
    <2> QED
        BY <1>3, <2>1, <2>2, <2>3, <2>4
<1> QED
    BY <1>1, <1>4, <1>5 DEF Lost

\* A step that does not touch the heap leaves the references.
LEMMA HoldsHeap ==
    ASSUME UNCHANGED heap
    PROVE  Alive' = Alive /\ \A x : Holds(x)' = Holds(x) /\ Kind(x)' = Kind(x)
<1>1. pool' = pool /\ body' = body /\ gmt' = gmt /\ fin' = fin
    BY DEF heap
<1>2. Alive' = Alive /\ \A x : Kind(x)' = Kind(x) /\ (Open(x)' <=> Open(x))
    BY <1>1 DEF Alive, Kind, Open, Closed
<1>3. \A x : upvalue(x)' = upvalue(x) /\ Modes(x)' = Modes(x) /\ StackOf(x)' = StackOf(x)
    BY <1>1, <1>2 DEF upvalue, Modes, StackOf
<1>4. \A x : Strong(x)' = Strong(x) /\ Weak(x)' = Weak(x)
    BY <1>1, <1>2, <1>3 DEF Strong, Weak
<1>5. \A x : Holds(x)' = Holds(x)
    BY <1>2, <1>4 DEF Holds
<1> QED
    BY <1>2, <1>5

\* Outside X, the step changes no more than stacks and upvalues, and these
\* get nothing but what the roots reach.
Grows(X) ==
    /\ X \cap Alive' \subseteq Reach'
    /\ \A x \in Alive' \ X :
          /\ x \in Alive /\ (Kind(x) \in {"thread", "upval"} \/ body'[x] = body[x])
          /\ Kind(x) = "thread" => Objs \cap StackOf(x)' \subseteq StackOf(x) \cup Reach'
          /\ Kind(x) = "upval" => Objs \cap {upvalue(x)'} \subseteq {upvalue(x)} \cup Reach'

\* Such a step adds to what an object refers to as Grow allows.
LEMMA GrowFacts ==
    ASSUME Safe, Safe', pool' = pool, NEW X, Grows(X)
    PROVE  Grow
<1> SUFFICES ASSUME NEW o \in Alive', o \notin Reach'
             PROVE  o \in Alive /\ Holds(o)' \subseteq Holds(o) \cup Reach'
    BY DEF Grow
<1>1. /\ o \in Alive /\ (Kind(o) \in {"thread", "upval"} \/ body'[o] = body[o])
      /\ Kind(o) = "thread" => Objs \cap StackOf(o)' \subseteq StackOf(o) \cup Reach'
      /\ Kind(o) = "upval" => Objs \cap {upvalue(o)'} \subseteq {upvalue(o)} \cup Reach'
    BY DEF Grows
<1>2. HeapOK /\ Homed /\ o \in Objs /\ (\A x : Kind(x)' = Kind(x)) /\ o # Main
    <2>1. Main \in Reach'
        BY HandReachNext DEF AtHand
    <2> QED
        BY <1>1, <2>1 DEF Safe, Kind, Alive
<1>3. CASE Kind(o) = "thread"
    BY <1>1, <1>2, <1>3 DEF Holds, Strong, Weak
<1>4. CASE Kind(o) = "upval"
    BY <1>1, <1>2, <1>4 DEF Holds, Strong, Weak
<1>5. CASE Kind(o) \notin {"thread", "upval"}
    <2>1. Strong(o)' = Strong(o) /\ Weak(o)' = Weak(o)
        BY <1>1, <1>2, <1>5, SameRefs
    <2> QED
        BY <1>1, <1>2, <2>1 DEF Holds
<1> QED
    BY <1>1, <1>3, <1>4, <1>5

\* Marking from what is not lost does not come to what is.
LEMMA MarkSpares ==
    ASSUME HeapOK, Homed, Sealed, NEW m \in Marks, NEW S, NEW D, S \cap Objs \subseteq Alive \ D,
           \A o \in Alive \ D : Strong(o) \cap D = {}
    PROVE  \A x \in Objs \cap D : mark(m, S).color[x] = m.color[x]
<1> DEFINE n == mark(m, S)
           W == New(m, n)
           T == Objs \ D
<1>1. /\ \A o \in Objs \ W : n.color[o] = m.color[o]
      /\ \A U \in SUBSET Objs :
            S \cap Objs \subseteq U /\ (\A o \in U \cap Alive : Strong(o) \subseteq U) => W \subseteq U
    <2>1. S \cap Objs \subseteq Alive
        OBVIOUS
    <2> QED
        BY <2>1, MarkFacts
<1>2. T \in SUBSET Objs /\ S \cap Objs \subseteq T /\ \A o \in T \cap Alive : Strong(o) \subseteq T
    BY StrongFacts
<1> HIDE DEF n, W, T
<1>3. W \subseteq T
    BY <1>1, <1>2
<1> QED
    BY <1>1, <1>3 DEF n, T

\* All that is lost is white.
LEMMA DoomWhite ==
    ASSUME Safe, Doom
    PROVE  \A x \in doomed : x \in Alive /\ x \in Objs /\ White(g, x)
<1>1. gcstate \in States /\ currentwhite \in Whites /\ Alive \subseteq Objs
    BY DEF Safe, Marked, Alive
<1>2. \A x : isdead(x) => White(g, x)
    BY DEF isdead, White, Whites, otherwhite
<1> HIDE DEF Safe
<1> QED
    BY <1>1, <1>2 DEF Doom, Lost, States

-----------------------------------------------------------------------------
(* Steps of the collector *)

\* When a collection begins, what is lost is white but for the userdata that
\* wait for their finalizers, and marking the roots does not come to it.
LEMMA BeginDoom ==
    ASSUME Safe, Begin, doomed' = Alive \ Reach
    PROVE  Doom'
<1> DEFINE D == Alive \ Reach
           S == {Main, Registry, gmt}
           white == [o \in Objs |-> IF o \in Range(tmudata) THEN g.color[o] ELSE currentwhite]
<1>1. /\ UNCHANGED heap /\ gcstate' = "propagate" /\ gcstate # "sweep" /\ Roots' = Roots
    BY DEF Begin, markroot, luaC_fullgc, lists, heap, Roots
<1>2. /\ HeapOK /\ Homed /\ Sealed /\ Alive \subseteq Objs /\ g \in Marks /\ currentwhite \in Whites
    BY <1>1, AllLive DEF Safe, Marked, Alive
<1>3. /\ Alive' = Alive /\ \A x : Holds(x)' = Holds(x)
    BY <1>1, HoldsHeap
<1>4. /\ Roots \subseteq Reach /\ Reach \subseteq Alive /\ \A o \in Reach : Holds(o) \subseteq Reach
    BY HandReach DEF AtHand
<1>5. D \cap Roots = {} /\ \A o \in Alive \ D : Holds(o) \cap D = {}
    BY <1>4
<1>6. Lost'
    BY <1>1, <1>3, <1>5 DEF Lost
<1>7. S \cap Objs \subseteq Alive \ D /\ \A o \in Alive \ D : Strong(o) \cap D = {}
    <2>1. S \cap Objs \subseteq Roots
        BY DEF Roots
    <2> QED
        BY <1>4, <1>5, <2>1 DEF Holds
<1>8. \E m \in Marks : g' = mark(m, S) /\ \A x \in D : White(m, x)
    <2>1. CASE markroot
        <3> DEFINE m == [g EXCEPT !.gray = {}, !.grayagain = {}, !.weak = {}]
        <3>1. g' = mark(m, S) /\ gcstate = "pause"
            BY <2>1 DEF markroot
        <3>2. m \in Marks /\ m.color = g.color
            BY <1>2 DEF Marks
        <3>3. \A x \in Alive : g.color[x] = currentwhite
            <4>1. sweepgc = <<>> /\ tmudata = <<>>
                BY <3>1 DEF Safe, Sweeping
            <4>2. Range(sweepgc) = {} /\ Tmu = {}
                BY <4>1 DEF Range, Tmu
            <4> QED
                BY <3>1, <4>2 DEF Safe, Colours, Awaiting
        <3>4. \A x \in D : White(m, x)
            BY <1>2, <3>2, <3>3 DEF White
        <3> HIDE DEF m
        <3> QED
            BY <3>1, <3>2, <3>4
    <2>2. CASE luaC_fullgc
        <3> DEFINE m == [color |-> white, gray |-> {}, grayagain |-> {}, weak |-> {}]
        <3>1. g' = mark(m, S)
            BY <2>2 DEF luaC_fullgc
        <3>2. white \in [Objs -> Whites \cup {"gray", "black"}]
            BY <1>2 DEF Marks
        <3>3. Tmu \cap D = {}
            <4>1. Tmu \subseteq Roots
                BY DEF Roots, Tmu, Safe, Sweeping, Of, Alive
            <4> QED
                BY <1>4, <4>1
        <3>4. \A x \in D : white[x] = currentwhite
            BY <1>2, <3>3 DEF Tmu
        <3> HIDE DEF white
        <3>5. m \in Marks /\ m.color = white
            BY <3>2 DEF Marks
        <3>6. \A x \in D : White(m, x)
            BY <1>2, <3>4, <3>5 DEF White
        <3> HIDE DEF m
        <3> QED
            BY <3>1, <3>5, <3>6
    <2> QED
        BY <2>1, <2>2 DEF Begin
<1>9. PICK m \in Marks : g' = mark(m, S) /\ \A x \in D : White(m, x)
    BY <1>8
<1> HIDE DEF D, S
<1>10. \A x \in Objs \cap D : mark(m, S).color[x] = m.color[x]
    BY <1>2, <1>7, MarkSpares
<1>11. D \subseteq Objs /\ doomed' = D
    BY <1>2 DEF D
<1>12. \A x \in doomed' : White(g', x)
    BY <1>9, <1>10, <1>11 DEF White
<1> QED
    BY <1>1, <1>6, <1>12 DEF Doom, White

\* Nothing changes in the heap.
LEMMA SameGrow ==
    ASSUME UNCHANGED heap
    PROVE  Grow
BY HoldsHeap DEF Grow

\* Marking goes from gray objects, which are not lost, to what they refer to.
LEMMA PropagateDoom ==
    ASSUME Safe, Safe', Doom, StillLost, propagate
    PROVE  Doom'
<1>1. PICK o \in g.gray : g' = propagatemark(g, o)
    BY DEF propagate
<1>2. gcstate = "propagate" /\ gcstate' = "propagate" /\ UNCHANGED heap /\ currentwhite' = currentwhite
    BY DEF propagate, phase
<1>3. Lost'
    BY <1>2, SameGrow, LostStep DEF Doom
<1>4. /\ HeapOK /\ Homed /\ Sealed /\ Alive \subseteq Objs /\ g \in Marks /\ o \in Alive /\ Gray(g, o)
    BY <1>2, AllLive DEF Safe, Marked, Marking, Tri, Queues, Alive
<1> DEFINE F == {o}
           t == traversed(g, F)
           S == Strong(o)
<1>5. g' = mark(t, S)
    BY <1>1 DEF propagatemark
<1>6. t \in Marks /\ \A x \in Objs \ F : t.color[x] = g.color[x]
    BY <1>4, TraversedFacts
<1>7. /\ o \notin doomed /\ S \subseteq Alive /\ S \cap doomed = {}
      /\ \A x \in Alive \ doomed : Strong(x) \cap doomed = {}
    <2>1. o \notin doomed
        BY <1>2, <1>4 DEF Doom, Gray, White, Whites
    <2> QED
        BY <1>4, <2>1 DEF Doom, Lost, Holds, Sealed, All
<1> HIDE DEF t, S
<1>8. \A x \in Objs \cap doomed : mark(t, S).color[x] = t.color[x]
    BY <1>4, <1>6, <1>7, MarkSpares
<1>9. \A x \in doomed : g'.color[x] = g.color[x]
    BY <1>4, <1>5, <1>6, <1>7, <1>8 DEF Doom, Lost
<1>10. \A x \in doomed' : White(g', x)
    BY <1>2, <1>9 DEF StillLost, Doom, White
<1> QED
    BY <1>2, <1>3, <1>10 DEF Doom, White

\* After the sweep, nothing that was dead is left.
LEMMA SweptDoom ==
    ASSUME Safe, Safe', Doom, StillLost, sweep_done
    PROVE  Doom'
<1>1. gcstate = "sweep" /\ sweepgc = <<>> /\ gcstate' = "finalize"
    BY DEF sweep_done
<1>2. Range(sweepgc) = {} /\ currentwhite \in Whites /\ otherwhite # currentwhite
    BY <1>1 DEF Range, Safe, Marked, otherwhite, Whites
<1>3. Tmu \subseteq Roots
    BY DEF Roots, Tmu, Safe, Sweeping, Of, Alive
<1>4. doomed = {}
    <2>1. ASSUME NEW x \in doomed
          PROVE  FALSE
        <3>1. x \in Alive \ Tmu /\ g.color[x] = otherwhite
            BY <1>1, <1>3, <2>1 DEF Doom, Lost, isdead
        <3> QED
            BY <1>1, <1>2, <3>1 DEF Safe, Colours, Awaiting
    <2> QED
        BY <2>1
<1>5. doomed' = {}
    BY <1>4 DEF StillLost
<1> QED
    BY <1>1, <1>5 DEF Doom, Lost

\* What is not lost stays so when none is lost.
LEMMA NoneDoom ==
    ASSUME doomed = {}, StillLost
    PROVE  Doom'
<1>1. doomed' = {}
    BY DEF StillLost
<1> QED
    BY <1>1 DEF Doom, Lost

\* A finalizer gives its argument up.
LEMMA ReturnDoom ==
    ASSUME Safe, Safe', Doom, StillLost, finalizer_return
    PROVE  Doom'
<1>1. Range(fin') \subseteq Range(fin) /\ pool' = pool /\ body' = body /\ g' = g /\ gcstate' = gcstate /\ currentwhite' = currentwhite
    <2>1. fin \in Seq(Objs) /\ fin # <<>> /\ fin' = Tail(fin)
        BY DEF finalizer_return, Safe, HeapOK
    <2>2. Range(Tail(fin)) \subseteq Range(fin)
        BY <2>1, TailFacts
    <2> QED
        BY <2>1, <2>2 DEF finalizer_return, phase
<1>2. Alive' = Alive
    BY <1>1 DEF Alive
<1> DEFINE X == {}
<1>3. Grows(X)
    <2>1. \A x : StackOf(x)' \subseteq StackOf(x)
        BY <1>1 DEF StackOf
    <2>2. \A x : upvalue(x)' = upvalue(x)
        BY <1>1 DEF upvalue, Open, Kind, Closed
    <2> QED
        BY <1>1, <1>2, <2>1, <2>2, ObjsAssumption DEF Grows
<1> HIDE DEF X
<1>4. Lost'
    BY <1>1, <1>3, GrowFacts, LostStep DEF Doom
<1>5. doomed' \subseteq doomed
    BY DEF StillLost
<1> QED
    BY <1>1, <1>4, <1>5 DEF Doom, White, isdead, otherwhite

\* The sweep frees what is dead of what it meets, and turns the rest white.
LEMMA SweepDoom ==
    ASSUME Safe, Safe', Doom, StillLost, sweeplist
    PROVE  Doom'
<1> DEFINE o == Head(sweepgc)
           opens  == IF Kind(o) = "thread" THEN OpenOn(o) ELSE {}
           freed  == {x \in opens \cup {o} : isdead(x)}
           closed == IF o \in freed THEN opens \ freed ELSE {}
           shut(u) == [at |-> Closed, v |-> upvalue(u)]
           col == [x \in Objs |-> IF x \in (opens \cup {o}) \ freed THEN currentwhite ELSE g.color[x]]
<1>1. /\ gcstate = "sweep" /\ gcstate' = "sweep" /\ currentwhite' = currentwhite
      /\ body' = [x \in Objs |-> IF x \in freed THEN nil ELSE IF x \in closed THEN shut(x) ELSE body[x]]
      /\ g' = [g EXCEPT !.color = col]
      /\ pool' = pool /\ fin' = fin
    BY DEF sweeplist, phase
<1>2. /\ \A x \in opens : Kind(x) = "upval" /\ x \in Alive
      /\ closed \subseteq opens /\ closed \cap freed = {}
      /\ \A x \in (opens \cup {o}) \ freed : ~isdead(x)
      /\ \A x \in freed : isdead(x)
    BY DEF OpenOn, Of
<1>3. g \in Marks /\ nil \notin Objs /\ Alive \subseteq Objs /\ Alive' \subseteq Objs
    BY ObjsAssumption DEF Safe, Marked, Alive
<1>4. g'.color = col
    BY <1>1, <1>3 DEF Marks
<1>5. /\ \A x \in Objs : x \in freed => body'[x] = nil
      /\ \A x \in Objs \ freed : x \in closed => body'[x] = shut(x)
      /\ \A x \in Objs \ (freed \cup closed) : body'[x] = body[x]
      /\ \A x \in Objs : isdead(x) /\ x \notin freed => g'.color[x] = g.color[x]
    BY <1>1, <1>2, <1>4
<1>6. \A x : shut(x).at = Closed /\ shut(x).v = upvalue(x)
    OBVIOUS
<1> HIDE DEF o, opens, freed, closed, shut, col
<1>7. \A x \in Alive' : x \notin freed /\ x \in Alive /\ (x \in closed \/ body'[x] = body[x])
    <2>1. \A x \in Alive' : x \in Objs /\ body'[x] # nil
        BY DEF Alive
    <2> QED
        BY <1>2, <1>5, <2>1 DEF Alive
<1>8. \A x \in Alive' : Kind(x) = "thread" => body'[x] = body[x] /\ StackOf(x)' = StackOf(x)
    <2>1. \A x \in closed : Kind(x) = "upval"
        BY <1>2
    <2>2. \A x \in Alive' : Kind(x) = "thread" => body'[x] = body[x]
        BY <1>7, <2>1
    <2> QED
        BY <1>1, <2>2 DEF StackOf
<1>9. ASSUME NEW x \in Alive', Kind(x) = "upval"
      PROVE  upvalue(x)' = upvalue(x)
    <2>1. CASE x \in closed
        <3>1. body'[x] = shut(x)
            BY <1>3, <1>5, <1>7, <2>1
        <3>2. ~Open(x)' /\ body'[x].v = upvalue(x)
            BY <1>6, <3>1 DEF Open
        <3> QED
            BY <3>2 DEF upvalue
    <2>2. CASE body'[x] = body[x] /\ ~Open(x)
        <3>1. ~Open(x)'
            BY <1>1, <2>2 DEF Open, Kind, Closed
        <3> QED
            BY <2>2, <3>1 DEF upvalue
    <2>3. CASE body'[x] = body[x] /\ Open(x)
        <3>1. Open(x)' /\ x \in Of("upval")' /\ body'[x].at[1] = body[x].at[1] /\ body'[x].at[2] = body[x].at[2]
            BY <1>1, <1>9, <2>3 DEF Open, Kind, Closed, Of
        <3>2. body[x].at[1] \in Alive' /\ Kind(body[x].at[1]) = "thread"
            <4>1. body'[x].at[1] \in Alive'
                BY <3>1 DEF Safe, Homed
            <4>2. x \in Of("upval")
                BY <1>7, <1>9 DEF Of
            <4> QED
                BY <2>3, <3>1, <4>1, <4>2, UpvalueFacts
        <3> QED
            BY <1>8, <2>3, <3>1, <3>2 DEF upvalue
    <2> QED
        BY <1>7, <2>1, <2>2, <2>3
<1> DEFINE X == {}
<1>10. Grows(X)
    BY <1>2, <1>7, <1>8, <1>9 DEF Grows
<1> HIDE DEF X
<1>11. Lost'
    BY <1>1, <1>10, GrowFacts, LostStep DEF Doom
<1>12. \A x \in doomed' : isdead(x)'
    <2>1. \A x \in doomed' : x \in Alive' /\ isdead(x)
        BY <1>1 DEF StillLost, Doom
    <2>2. \A x \in doomed' : g'.color[x] = g.color[x]
        BY <1>3, <1>5, <1>7, <2>1
    <2> QED
        BY <1>1, <2>1, <2>2 DEF isdead, otherwhite
<1> QED
    BY <1>1, <1>11, <1>12 DEF Doom

\* The atomic step clears entries of weak tables, and adds no reference.
LEMMA AtomicGrow ==
    ASSUME Safe, atomic
    PROVE  Grow
<1>1. /\ HeapOK /\ Homed /\ HeapOK' /\ Homed' /\ Alive' = Alive /\ \A x : Kind(x)' = Kind(x)
      /\ \A x \in Alive \ Marks4.weak : body'[x] = body[x] /\ All(x)' = All(x)
      /\ \A t \in Marks4.weak : /\ t \in Of("table") /\ body'[t].mt = body[t].mt
                                /\ body'[t].entries = cleartable(Marks4, Finals4, t)
    BY AtomicHeap DEF Safe
<1>2. pool' = pool /\ Alive \subseteq Objs /\ Kind(Main) = "thread"
    BY AtomicIs, PoolFacts DEF Alive, Safe, HeapOK
<1>3. ASSUME NEW o \in Alive
      PROVE  Holds(o)' \subseteq Holds(o)
    <2>1. CASE o \in Marks4.weak
        <3>1. /\ Kind(o) = "table" /\ body'[o].mt = body[o].mt /\ body'[o].entries \subseteq body[o].entries
            BY <1>1, <2>1 DEF cleartable, Of
        <3>2. Modes(o)' = Modes(o) /\ Kind(o)' = "table"
            BY <1>1, <1>2, <3>1 DEF Modes
        <3>3. Strong(o)' \subseteq Strong(o) /\ Weak(o)' \subseteq Weak(o)
            BY <3>1, <3>2 DEF Strong, Weak
        <3> QED
            BY <1>1, <3>3 DEF Holds
    <2>2. CASE o \notin Marks4.weak /\ Kind(o) = "table"
        <3>1. Strong(o)' = Strong(o) /\ Weak(o)' = Weak(o)
            BY <1>1, <1>2, <2>2, SameRefs
        <3> QED
            BY <1>1, <3>1 DEF Holds
    <2>3. CASE o \notin Marks4.weak /\ Kind(o) # "table"
        <3>1. All(o)' = All(o) /\ Kind(o)' # "table"
            BY <1>1, <2>3
        <3>2. Weak(o) = {} /\ Weak(o)' = {}
            BY <2>3, <3>1 DEF Weak
        <3> QED
            BY <3>1, <3>2 DEF All, Holds
    <2> QED
        BY <2>1, <2>2, <2>3
<1> QED
    BY <1>1, <1>3 DEF Grow

\* The atomic step marks what the roots reach, and what the finalizers to come
\* will reach; what is left is dead.
LEMMA AtomicDoom ==
    ASSUME Safe, Safe', Doom, StillLost, atomic
    PROVE  Doom'
<1>1. /\ gcstate = "propagate" /\ g.gray = {} /\ tmudata' = Tmu4
      /\ g' = [Marks4 EXCEPT !.color = [o \in Objs |-> IF o \in Strings4 THEN "gray" ELSE @[o]]]
      /\ gcstate' = "sweep" /\ currentwhite' = otherwhite
    BY AtomicIs
<1>2. /\ HeapOK /\ Homed /\ Marks4 \in Marks /\ Queued(Marks4) /\ Darker(g, Marks4)
      /\ Range(Tmu4) \subseteq Of("userdata") /\ Alive \subseteq Objs
      /\ \A T : Within(T) /\ Dark(g) \cup (Objs \cap {gmt}) \subseteq T => Dark(Marks3) \subseteq T
      /\ \A T : Within(T) /\ Dark(Marks3) \cup Range(Tmu4) \subseteq T => Dark(Marks4) \subseteq T
    BY <1>1, AtomicMarks DEF Alive
<1>3. Lost'
    BY AtomicGrow, LostStep DEF Doom
<1> DEFINE F == From(Roots', Refs({}))
           T == Objs \ (doomed \ F)
<1>4. /\ Roots' \subseteq F /\ \A o \in F : Refs({})[o] \subseteq F
    <2>1. Roots' \in SUBSET Objs
        BY DEF Roots
    <2> QED
        BY <1>2, <2>1, RefsFacts, FromFacts
<1>5. doomed' \subseteq (doomed \ F) \cap Alive'
    BY DEF StillLost
<1> HIDE DEF F
<1>6. ASSUME NEW o \in T \cap Alive
      PROVE  Holds(o) \subseteq T
    <2>1. Holds(o) \subseteq Objs /\ Refs({})[o] = Holds(o)
        BY <1>2, RefsFacts
    <2>2. CASE o \in doomed
        BY <1>4, <2>1, <2>2
    <2>3. CASE o \notin doomed
        BY <2>1, <2>3 DEF Doom, Lost
    <2> QED
        BY <2>2, <2>3
<1>7. Dark(g) \cup (Objs \cap {gmt}) \subseteq T /\ Range(Tmu4) \subseteq T
    <2>1. Dark(g) \cap doomed = {} /\ Dark(g) \subseteq Objs
        BY <1>1 DEF Doom, Dark
    <2>2. Objs \cap {gmt} \cap doomed = {}
        BY DEF Doom, Lost, Roots
    <2>3. Range(Tmu4) \subseteq Roots'
        BY <1>1, <1>2 DEF Roots, Of
    <2> QED
        BY <1>2, <1>4, <2>1, <2>2, <2>3 DEF Of
<1>8. Within(T)
    BY <1>6 DEF Within, Holds
<1>9. T \subseteq Objs /\ T \cap (doomed \ F) = {}
    OBVIOUS
<1> HIDE DEF T
<1>10. Dark(Marks4) \subseteq T
    <2>1. Dark(Marks3) \subseteq T
        BY <1>2, <1>7, <1>8
    <2> QED
        BY <1>2, <1>7, <1>8, <2>1
<1>11. Strings4 \subseteq T
    <2> SUFFICES ASSUME NEW t \in Marks4.weak, NEW s \in kept(Marks4, t)
                 PROVE  s \in T
        BY DEF Strings4
    <2>1. t \in T \cap Alive
        BY <1>2, <1>10 DEF Queued
    <2>2. s \in Holds(t)
        BY DEF kept, Holds
    <2> QED
        BY <1>6, <2>1, <2>2
<1>12. ASSUME NEW x \in doomed'
       PROVE  isdead(x)'
    <2>1. x \in doomed /\ x \in Objs /\ x \in Alive /\ x \notin Dark(Marks4) /\ x \notin Strings4
        BY <1>2, <1>5, <1>9, <1>10, <1>11, <1>12 DEF Doom, Lost
    <2>2. White(Marks4, x)
        BY <2>1 DEF Dark
    <2>3. Marks4.color[x] = g.color[x] /\ g'.color[x] = Marks4.color[x]
        <3>1. g'.color = [o \in Objs |-> IF o \in Strings4 THEN "gray" ELSE Marks4.color[o]]
            BY <1>1, <1>2 DEF Marks
        <3> QED
            BY <1>2, <2>1, <2>2, <3>1 DEF Darker
    <2>4. g.color[x] = currentwhite /\ currentwhite \in Whites
        BY <1>1, <2>1, <2>2, <2>3 DEF Safe, Marked, Colours, isdead, otherwhite, White, Whites
    <2>5. otherwhite' = currentwhite
        BY <1>1, <2>4 DEF otherwhite, Whites
    <2> QED
        BY <2>3, <2>4, <2>5 DEF isdead
<1> QED
    BY <1>1, <1>3, <1>12 DEF Doom

\* Every step of the collector.
LEMMA GoonDoom ==
    ASSUME Safe, Safe', Doom, StillLost, Goon
    PROVE  Doom'
<1>1. CASE GCTM \/ cycle_done
    <2>1. gcstate = "finalize"
        BY <1>1 DEF GCTM, cycle_done
    <2> QED
        BY <2>1, NoneDoom DEF Doom
<1> HIDE DEF Safe, Doom
<1> QED
    BY <1>1, PropagateDoom, AtomicDoom, SweepDoom, SweptDoom, ReturnDoom DEF Goon

-----------------------------------------------------------------------------
(* Steps of the program *)

\* What the program leaves as it is keeps this.
LEMMA ProgramDoom ==
    ASSUME Safe, Safe', Doom, StillLost, Grow, Pale, gcstate' = gcstate, currentwhite' = currentwhite
    PROVE  Doom'
<1>1. Lost'
    BY LostStep DEF Doom
<1>2. \A x \in doomed' : x \in doomed /\ g'.color[x] = g.color[x]
    BY DEF StillLost, Pale
<1>3. doomed = {} => doomed' = {}
    BY DEF StillLost
<1> QED
    BY <1>1, <1>2, <1>3 DEF Doom, White, isdead, otherwhite

\* The steps that put a value on a stack
LEMMA PutGrow ==
    ASSUME Safe, Safe', Doom, NEW th \in Running, NEW s, NEW v, NEW F, Puts(th, s, v, F),
           \A x \in F : x = v \/ (v \in F /\ x \in Strong(v)')
    PROVE  Grow /\ Pale
<1>1. /\ pool' = pool /\ fin' = fin /\ th \in Alive /\ Kind(th) = "thread" /\ s \in Slots /\ th \in Objs
      /\ F \subseteq Objs /\ th \notin F
      /\ \A x \in F : x \in Alive => Kind(x) = "string" \/ Kind(x) = "upval"
      /\ body'[th] = [body[th] EXCEPT !.stack[s] = v]
      /\ \A x \in Objs \ (F \cup {th}) : body'[x] = body[x]
      /\ \A x \in Objs \ F : g'.color[x] = g.color[x]
    BY DEF Puts, HeapPut, Open, Alive
<1>2. /\ Main \in Alive /\ Kind(Main) = "thread" /\ Alive \subseteq Objs /\ nil \notin Objs
      /\ Alive' \subseteq Objs /\ \A x : Kind(x)' = Kind(x)
    BY <1>1, PoolFacts, ObjsAssumption DEF Safe, HeapOK, Alive, Kind
<1>3. th \in Running'
    <2>1. CASE th = Main
        BY <2>1 DEF Running
    <2>2. CASE th # Main
        <3>1. body'[Main] = body[Main]
            BY <1>1, <1>2, <2>2
        <3>2. StackOf(Main)' = StackOf(Main)
            BY <1>1, <3>1 DEF StackOf
        <3> QED
            BY <1>2, <3>2 DEF Running
    <2> QED
        BY <2>1, <2>2
<1>4. th \in Reach' /\ Objs \cap StackOf(th)' \subseteq Reach'
    BY <1>1, <1>2, <1>3, HandReachNext DEF AtHand
<1>5. body'[th].stack[s] = v /\ v \in StackOf(th)'
    <2>1. HeapOK /\ v \in Values
        BY DEF Puts, HeapPut, Safe
    <2>2. \A t \in Slots : [body[th] EXCEPT !.stack[s] = v].stack[t] = IF t = s THEN v ELSE body[th].stack[t]
        BY <1>1, <2>1, StackPut
    <2> QED
        BY <1>1, <2>2 DEF StackOf
<1>6. F \subseteq Reach'
    <2>1. v \in Objs => v \in Reach'
        BY <1>4, <1>5
    <2>2. v \in Reach' => Strong(v)' \subseteq Reach'
        BY HandReachNext DEF AtHand, Holds
    <2> QED
        BY <1>1, <2>1, <2>2
<1> DEFINE X == {th} \cup F
<1>7. \A x \in Alive' \ X : x \in Alive /\ body'[x] = body[x]
    BY <1>1, <1>2 DEF Alive
<1>8. \A x \in Alive' \ X : StackOf(x)' = StackOf(x)
    BY <1>1, <1>7 DEF StackOf
<1>9. ASSUME NEW x \in Alive' \ X, Kind(x) = "upval"
      PROVE  Objs \cap {upvalue(x)'} \subseteq {upvalue(x)} \cup Reach'
    <2>1. x \in Alive /\ body'[x] = body[x] /\ (Open(x)' <=> Open(x)) /\ x \in Of("upval")
        BY <1>2, <1>7, <1>9 DEF Open, Closed, Of
    <2>2. CASE ~Open(x)
        BY <2>1, <2>2 DEF upvalue
    <2>3. CASE Open(x)
        <3> DEFINE y == body[x].at[1]
        <3>1. y \in Alive /\ Kind(y) = "thread" /\ body[x].at[2] \in Slots
            BY <2>1, <2>3, UpvalueFacts
        <3>2. CASE y = th
            <4>1. upvalue(x)' \in StackOf(th)'
                BY <2>1, <2>3, <3>1, <3>2 DEF upvalue, StackOf
            <4> QED
                BY <1>4, <4>1
        <3>3. CASE y # th
            <4>1. body'[y] = body[y]
                BY <1>1, <1>2, <3>1, <3>3
            <4> QED
                BY <2>1, <2>3, <4>1 DEF upvalue
        <3> QED
            BY <3>2, <3>3
    <2> QED
        BY <2>2, <2>3
<1>10. Grows(X)
    BY <1>4, <1>6, <1>7, <1>8, <1>9 DEF Grows
<1> HIDE DEF X
<1>11. Grow
    BY <1>1, <1>10, GrowFacts
<1>12. Pale
    BY <1>1, <1>2, <1>6 DEF Pale
<1> QED
    BY <1>11, <1>12

\* As long as the stacks stay, what is at hand does.
LEMMA HandSame ==
    ASSUME Safe, pool' = pool, fin' = fin, \A th \in Alive : Kind(th) = "thread" => body'[th] = body[th]
    PROVE  Running' = Running /\ InHand' = InHand /\ \A k : Hands(k)' = Hands(k)
<1>1. /\ Main \in Alive /\ Kind(Main) = "thread" /\ \A th \in Running : th \in Alive /\ Kind(th) = "thread"
    BY HandFacts, PoolFacts DEF Safe, HeapOK, Live
<1>2. /\ \A th \in Running : StackOf(th)' = StackOf(th) /\ StackOf(Main)' = StackOf(Main)
      /\ \A x : Kind(x)' = Kind(x)
    BY <1>1 DEF StackOf, Kind
<1>3. Running' = Running
    BY <1>1, <1>2 DEF Running
<1>4. InHand' = InHand
    BY <1>2, <1>3 DEF InHand
<1> QED
    BY <1>2, <1>3, <1>4 DEF Hands

\* The step changes objects that the roots reach, and no stack.
LEMMA HeldGrow ==
    ASSUME Safe, Safe', pool' = pool, fin' = fin, NEW X, X \subseteq Reach', \A x \in X : Kind(x) # "thread",
           \A x \in Objs \ X : body'[x] = body[x]
    PROVE  Grow
<1>1. /\ \A x : Kind(x)' = Kind(x)
      /\ \A x \in Alive' \ X : x \in Alive /\ x \in Objs /\ body'[x] = body[x]
    BY DEF Kind, Alive
<1>2. \A x \in Alive' \ X : StackOf(x)' = StackOf(x)
    BY <1>1 DEF StackOf
<1>3. ASSUME NEW x \in Alive' \ X, Kind(x) = "upval"
      PROVE  upvalue(x)' = upvalue(x)
    <2>1. x \in Of("upval") /\ body'[x] = body[x] /\ (Open(x)' <=> Open(x))
        BY <1>1, <1>3 DEF Of, Open, Closed
    <2>2. CASE ~Open(x)
        BY <2>1, <2>2 DEF upvalue
    <2>3. CASE Open(x)
        <3>1. body[x].at[1] \in Objs /\ body[x].at[1] \notin X
            BY <2>1, <2>3, UpvalueFacts DEF Alive
        <3> QED
            BY <2>1, <2>3, <3>1 DEF upvalue
    <2> QED
        BY <2>2, <2>3
<1>4. Grows(X)
    BY <1>1, <1>2, <1>3 DEF Grows
<1> QED
    BY <1>4, GrowFacts

\* What is at hand is not lost.
LEMMA HandSpared ==
    ASSUME Safe, Doom
    PROVE  \A v \in InHand : v \in Alive \ doomed
<1>1. \A v \in InHand : v \in Alive /\ v \in Objs
    BY HandFacts DEF Live, Alive
<1>2. Reach \cap doomed = {}
    BY LostUnreached DEF Doom
<1> HIDE DEF Safe
<1> QED
    BY <1>1, <1>2, HandReach DEF AtHand

\* No barrier touches what is lost.
LEMMA BarrierSpares ==
    ASSUME Safe, Doom, NEW o \in Alive, NEW v, Objs \cap {v} \subseteq Alive \ doomed
    PROVE  \A x \in doomed : barrier(g, o, v).color[x] = g.color[x]
<1> DEFINE m == barrier(g, o, v)
           S == {v}
<1>1. /\ \A x \in doomed : x \in Objs /\ White(g, x)
      /\ HeapOK /\ Homed /\ g \in Marks /\ o \in Objs
      /\ gcstate = "propagate" => Sealed
    BY DoomWhite, AllLive DEF Safe, Marked, Alive
<1>2. CASE ~(v \in Objs /\ White(g, v) /\ g.color[o] = "black")
    BY <1>2 DEF barrier
<1>3. CASE v \in Objs /\ White(g, v) /\ g.color[o] = "black" /\ gcstate = "propagate"
    <2>1. m = mark(g, S)
        BY <1>3 DEF barrier
    <2>2. S \cap Objs \subseteq Alive \ doomed /\ \A x \in Alive \ doomed : Strong(x) \cap doomed = {}
        BY DEF Doom, Lost, Holds
    <2> HIDE DEF m, S
    <2>3. \A x \in Objs \cap doomed : mark(g, S).color[x] = g.color[x]
        BY <1>1, <1>3, <2>2, MarkSpares
    <2> QED
        BY <1>1, <2>1, <2>3 DEF m
<1>4. CASE v \in Objs /\ White(g, v) /\ g.color[o] = "black" /\ gcstate # "propagate"
    <2>1. m = [g EXCEPT !.color[o] = currentwhite]
        BY <1>4 DEF barrier
    <2>2. o \notin doomed
        BY <1>1, <1>4 DEF White, Whites
    <2> HIDE DEF m
    <2>3. \A x \in Objs \ {o} : m.color[x] = g.color[x]
        BY <1>1, <2>1 DEF Marks
    <2> QED
        BY <1>1, <2>2, <2>3 DEF m
<1> QED
    BY <1>2, <1>3, <1>4

\* The barrier of tables turns no lost object gray.
LEMMA BarriertSpares ==
    ASSUME Safe, Doom, NEW m \in Marks, \A x \in doomed : m.color[x] = g.color[x], NEW t \in Objs, NEW v
    PROVE  barriert(m, t, v) \in Marks /\ \A x \in doomed : barriert(m, t, v).color[x] = g.color[x]
<1> DEFINE n == barriert(m, t, v)
<1>1. \A x \in doomed : x \in Objs /\ White(g, x)
    BY DoomWhite
<1>2. CASE ~(v \in Objs /\ White(m, v) /\ m.color[t] = "black")
    BY <1>2 DEF barriert
<1>3. CASE v \in Objs /\ White(m, v) /\ m.color[t] = "black"
    <2>1. n = [m EXCEPT !.color[t] = "gray", !.grayagain = @ \cup {t}]
        BY <1>3 DEF barriert
    <2>2. t \notin doomed
        BY <1>1, <1>3 DEF White, Whites
    <2> HIDE DEF n
    <2>3. n \in Marks /\ \A x \in Objs \ {t} : n.color[x] = m.color[x]
        BY <2>1 DEF Marks
    <2> QED
        BY <1>1, <2>2, <2>3 DEF n
<1> QED
    BY <1>2, <1>3

\* An assignment to a field of a table
LEMMA SettableGrow ==
    ASSUME Safe, Safe', Doom, NEW t \in Hands("table"), NEW k, NEW v, settable(t, k, v)
    PROVE  Grow /\ Pale
<1> DEFINE E == IF v = nil THEN {e \in body[t].entries : e[1] # k}
                ELSE {e \in body[t].entries : e[1] # k} \cup {<<k, v>>}
           rest == {e \in body[t].entries : e[1] # k}
           m == IF rest = body[t].entries THEN barriert(g, t, k) ELSE g
<1>1. /\ body' = [body EXCEPT ![t].entries = E] /\ g' = barriert(m, t, v)
      /\ pool' = pool /\ fin' = fin
    BY DEF settable
<1> HIDE DEF E, rest
<1>2. t \in Objs /\ Kind(t) = "table" /\ t \in InHand \cup {Registry} /\ g \in Marks /\ DOMAIN body = Objs
    BY HandFacts DEF Live, Alive, Hands, Safe, Marked, HeapOK
<1>3. \A x \in Objs \ {t} : body'[x] = body[x]
    BY <1>1, <1>2
<1>4. InHand' = InHand
    BY <1>1, <1>2, <1>3, HandSame DEF Alive
<1>5. t \in Reach'
    BY <1>2, <1>4, HandReachNext DEF AtHand
<1>6. Grow
    <2> DEFINE X == {t}
    <2>1. X \subseteq Reach' /\ (\A x \in X : Kind(x) # "thread") /\ \A x \in Objs \ X : body'[x] = body[x]
        BY <1>2, <1>3, <1>5
    <2> HIDE DEF X
    <2> QED
        BY <1>1, <2>1, HeldGrow
<1>7. m \in Marks /\ \A x \in doomed : m.color[x] = g.color[x]
    BY <1>2, BarriertSpares
<1> HIDE DEF m
<1>8. \A x \in doomed : g'.color[x] = g.color[x]
    BY <1>1, <1>2, <1>7, BarriertSpares
<1> QED
    BY <1>6, <1>8 DEF Pale

\* The metatable of a table or a userdata
LEMMA SetmetatableGrow ==
    ASSUME Safe, Safe', Doom, NEW o \in InHand, NEW m \in InHand \cup {nil}, lua_setmetatable(o, m)
    PROVE  Grow /\ Pale
<1>1. /\ body' = [body EXCEPT ![o].mt = m] /\ pool' = pool /\ fin' = fin
      /\ \/ Kind(o) = "table" /\ g' = barriert(g, o, m)
         \/ Kind(o) = "userdata" /\ g' = barrier(g, o, m)
    BY DEF lua_setmetatable
<1>2. o \in Objs /\ o \in Alive /\ Kind(o) # "thread" /\ g \in Marks /\ DOMAIN body = Objs /\ nil \notin Objs
    BY <1>1, HandFacts, ObjsAssumption DEF Live, Alive, Safe, Marked, HeapOK
<1>3. \A x \in Objs \ {o} : body'[x] = body[x]
    BY <1>1, <1>2
<1>4. InHand' = InHand
    BY <1>1, <1>2, <1>3, HandSame DEF Alive
<1>5. o \in Reach'
    BY <1>2, <1>4, HandReachNext DEF AtHand
<1>6. Grow
    <2> DEFINE X == {o}
    <2>1. X \subseteq Reach' /\ (\A x \in X : Kind(x) # "thread") /\ \A x \in Objs \ X : body'[x] = body[x]
        BY <1>2, <1>3, <1>5
    <2> HIDE DEF X
    <2> QED
        BY <1>1, <2>1, HeldGrow
<1>7. Objs \cap {m} \subseteq Alive \ doomed
    BY <1>2, HandSpared
<1>8. \A x \in doomed : g'.color[x] = g.color[x]
    BY <1>1, <1>2, <1>7, BarrierSpares, BarriertSpares
<1> QED
    BY <1>6, <1>8 DEF Pale

\* The metatable of a basic type
LEMMA BasicGrow ==
    ASSUME Safe, Safe', Doom, NEW m, setmetatable_basic(m)
    PROVE  Grow /\ Pale
<1> DEFINE X == {}
<1>1. pool' = pool /\ body' = body /\ fin' = fin /\ g' = g
    BY DEF setmetatable_basic
<1>2. X \subseteq Reach' /\ (\A x \in X : Kind(x) # "thread") /\ \A x \in Objs \ X : body'[x] = body[x]
    BY <1>1
<1> HIDE DEF X
<1>3. Grow
    BY <1>1, <1>2, HeldGrow
<1> QED
    BY <1>1, <1>3 DEF Pale

\* An assignment to an upvalue of a closure at hand, closed or on a stack
LEMMA SetUpGrow ==
    ASSUME Safe, Safe', NEW c \in Hands("function"), NEW v \in InHand, body[c].up \in Of("upval"),
           SetUp(body[c].up, v), pool' = pool, fin' = fin
    PROVE  Grow
<1> DEFINE u == body[c].up
<1>1. /\ u \in Of("upval") /\ u \in Alive /\ u \in Objs /\ Kind(u) = "upval" /\ DOMAIN body = Objs
      /\ v \in Alive /\ v \in Objs /\ v \in Values
      /\ c \in Alive /\ c \in Objs /\ Kind(c) = "function" /\ c \in InHand \cup {Registry}
      /\ Main \in Alive /\ Kind(Main) = "thread" /\ \A x : Kind(x)' = Kind(x)
    BY HandFacts, PoolFacts DEF Of, Alive, Live, Safe, HeapOK, Values, Hands, Kind
<1>2. IF Open(u) THEN body' = [body EXCEPT ![body[u].at[1]].stack[body[u].at[2]] = v]
                 ELSE body' = [body EXCEPT ![u].v = v]
    BY DEF SetUp
<1>3. AtHand'
    BY HandReachNext
<1> HIDE DEF u, Safe
<1>4. CASE ~Open(u)
    <2> DEFINE X == {u}
    <2>1. \A x \in Objs \ {u} : body'[x] = body[x]
        BY <1>1, <1>2, <1>4
    <2>2. \A th \in Alive : Kind(th) = "thread" => body'[th] = body[th]
        BY <1>1, <2>1 DEF Alive
    <2>3. InHand' = InHand
        BY <2>2, HandSame
    <2>4. c \in Reach' /\ body'[c].up = u
        BY <1>1, <1>3, <2>1, <2>3 DEF AtHand, u
    <2>5. u \in Strong(c)'
        BY <1>1, <2>4 DEF Strong
    <2>6. X \subseteq Reach' /\ (\A x \in X : Kind(x) # "thread") /\ \A x \in Objs \ X : body'[x] = body[x]
        BY <1>1, <1>3, <2>1, <2>4, <2>5 DEF AtHand, Holds
    <2> HIDE DEF X
    <2> QED
        BY <2>6, HeldGrow
<1>5. CASE Open(u)
    <2> DEFINE X == {}
    <2>1. PICK y \in Alive, s \in Slots : y \in Objs /\ Kind(y) = "thread" /\ y = body[u].at[1] /\ s = body[u].at[2]
        BY <1>1, <1>5, UpvalueFacts DEF Alive
    <2>2. body' = [body EXCEPT ![y].stack[s] = v]
        BY <1>2, <1>5, <2>1
    <2>3. body'[y] = [body[y] EXCEPT !.stack[s] = v] /\ \A x \in Objs \ {y} : body'[x] = body[x]
        BY <1>1, <2>1, <2>2
    <2>4. \A t \in Slots : body'[y].stack[t] = IF t = s THEN v ELSE body[y].stack[t]
        BY <1>1, <2>1, <2>3, StackPut DEF Safe
    <2>5. \A x \in Objs : Kind(x) = "thread" /\ v \in StackOf(x) => v \in StackOf(x)'
        <3>1. \A x \in Objs \ {y} : StackOf(x)' = StackOf(x)
            BY <2>3 DEF StackOf
        <3>2. v \in StackOf(y)'
            BY <2>1, <2>4 DEF StackOf
        <3> QED
            BY <3>1, <3>2
    <2>6. v \in Reach'
        <3>1. PICK th \in Running : v \in StackOf(th)
            BY DEF InHand
        <3>2. CASE y = Main
            <4>1. v \in StackOf(Main)'
                BY <2>1, <2>4, <3>2 DEF StackOf
            <4> QED
                BY <1>1, <1>3, <4>1 DEF AtHand
        <3>3. CASE y # Main
            <4>1. StackOf(Main)' = StackOf(Main)
                BY <1>1, <2>3, <3>3 DEF StackOf, Alive
            <4>2. th \in Running' /\ th \in Alive /\ Kind(th) = "thread"
                BY <1>1, <3>1, <4>1, HandFacts DEF Running, Live
            <4>3. v \in StackOf(th)' /\ th \in Reach'
                BY <1>3, <2>5, <3>1, <4>2 DEF AtHand, Alive
            <4> QED
                BY <1>1, <1>3, <4>2, <4>3 DEF AtHand
        <3> QED
            BY <3>2, <3>3
    <2>7. \A x \in Alive' : x \in Alive /\ (Kind(x) = "thread" \/ body'[x] = body[x])
        BY <2>1, <2>3 DEF Alive
    <2>8. \A x \in Alive' : StackOf(x)' \subseteq StackOf(x) \cup {v}
        <3>1. \A x \in Objs \ {y} : StackOf(x)' = StackOf(x)
            BY <2>3 DEF StackOf
        <3>2. StackOf(y)' \subseteq StackOf(y) \cup {v}
            BY <2>1, <2>4 DEF StackOf
        <3>3. Alive' \subseteq Objs
            BY DEF Alive
        <3> QED
            BY <3>1, <3>2, <3>3
    <2>9. ASSUME NEW x \in Alive', Kind(x) = "upval"
          PROVE  upvalue(x)' \in {upvalue(x), v}
        <3>1. x \in Of("upval") /\ body'[x] = body[x] /\ (Open(x)' <=> Open(x))
            BY <1>1, <2>7, <2>9 DEF Open, Closed, Of
        <3>2. CASE ~Open(x)
            BY <3>1, <3>2 DEF upvalue
        <3>3. CASE Open(x)
            <4> DEFINE z == body[x].at[1]
                       t == body[x].at[2]
            <4>1. z \in Objs /\ t \in Slots
                BY <3>1, <3>3, UpvalueFacts DEF Alive
            <4>2. upvalue(x) = body[z].stack[t] /\ upvalue(x)' = body'[z].stack[t]
                BY <3>1, <3>3 DEF upvalue
            <4> HIDE DEF z, t
            <4>3. CASE z = y
                BY <2>4, <4>1, <4>2, <4>3
            <4>4. CASE z # y
                BY <2>3, <4>1, <4>2, <4>4
            <4> QED
                BY <4>3, <4>4
        <3> QED
            BY <3>2, <3>3
    <2>10. Grows(X)
        BY <2>6, <2>7, <2>8, <2>9 DEF Grows
    <2> HIDE DEF X
    <2> QED
        BY <2>10, GrowFacts
<1> QED
    BY <1>4, <1>5

\* OP_SETUPVAL marks what it stores.
LEMMA OpSetupvalGrow ==
    ASSUME Safe, Safe', Doom, NEW c \in Hands("function"), NEW v \in InHand, op_setupval(c, v)
    PROVE  Grow /\ Pale
<1> DEFINE u == body[c].up
<1>1. u \in Of("upval") /\ SetUp(u, v) /\ g' = barrier(g, u, v) /\ pool' = pool /\ fin' = fin
    BY DEF op_setupval
<1>2. Grow
    BY <1>1, SetUpGrow
<1> HIDE DEF u
<1>3. u \in Alive /\ Objs \cap {v} \subseteq Alive \ doomed
    BY <1>1, HandSpared DEF Of
<1>4. \A x \in doomed : g'.color[x] = g.color[x]
    BY <1>1, <1>3, BarrierSpares
<1> QED
    BY <1>2, <1>4 DEF Pale

\* So does lua_setupvalue, for a C function or an upvalue.
LEMMA SetupvalueGrow ==
    ASSUME Safe, Safe', Doom, NEW c \in Hands("function"), NEW v \in InHand, lua_setupvalue(c, v)
    PROVE  Grow /\ Pale
<1> DEFINE u == body[c].up
<1>1. /\ \/ u \in Of("upval") /\ SetUp(u, v)
         \/ u \notin Of("upval") /\ body' = [body EXCEPT ![c].up = v]
      /\ g' = barrier(g, c, v) /\ pool' = pool /\ fin' = fin
    BY DEF lua_setupvalue
<1>2. c \in Alive /\ c \in Objs /\ Kind(c) = "function" /\ c \in InHand \cup {Registry} /\ DOMAIN body = Objs
    BY HandFacts DEF Live, Alive, Hands, Safe, HeapOK
<1>3. ASSUME u \in Of("upval"), SetUp(u, v)
      PROVE  Grow
    BY <1>1, <1>3, SetUpGrow
<1>4. ASSUME body' = [body EXCEPT ![c].up = v]
      PROVE  Grow
    <2> DEFINE X == {c}
    <2>1. \A x \in Objs \ {c} : body'[x] = body[x]
        BY <1>2, <1>4
    <2>2. \A th \in Alive : Kind(th) = "thread" => body'[th] = body[th]
        BY <1>2, <2>1 DEF Alive
    <2>3. InHand' = InHand
        BY <1>1, <2>2, HandSame
    <2>4. c \in Reach'
        BY <1>2, <2>3, HandReachNext DEF AtHand
    <2>5. X \subseteq Reach' /\ (\A x \in X : Kind(x) # "thread") /\ \A x \in Objs \ X : body'[x] = body[x]
        BY <1>2, <2>1, <2>4
    <2> HIDE DEF X
    <2> QED
        BY <1>1, <2>5, HeldGrow
<1>5. Objs \cap {v} \subseteq Alive \ doomed
    BY HandSpared
<1>6. \A x \in doomed : g'.color[x] = g.color[x]
    BY <1>1, <1>2, <1>5, BarrierSpares
<1>7. Grow
    BY <1>1, <1>3, <1>4
<1> QED
    BY <1>6, <1>7 DEF Pale

\* luaF_close moves values from a stack to the upvalues that refer to them,
\* and marks what upvalues refer to that are not lost.
LEMMA CloseGrow ==
    ASSUME Safe, Safe', Doom, NEW th, NEW level, luaF_close(th, level)
    PROVE  Grow /\ Pale
<1> DEFINE closing == {u \in OpenOn(th) : body[u].at[2] >= level}
           live    == {u \in closing : ~isdead(u)}
           gray    == {u \in live : g.color[u] = "gray"}
           S       == {upvalue(u) : u \in gray}
           g1      == [g EXCEPT !.color = [u \in Objs |-> IF u \in gray THEN "black" ELSE @[u]]]
           g2      == [g EXCEPT !.color = [u \in Objs |-> IF u \in gray THEN currentwhite ELSE @[u]]]
           X       == {}
<1>1. /\ body' = [u \in Objs |-> IF u \notin closing THEN body[u]
                                 ELSE IF u \in live THEN [at |-> Closed, v |-> upvalue(u)] ELSE nil]
      /\ g' = IF gcstate = "propagate" THEN mark(g1, S) ELSE g2
      /\ pool' = pool /\ fin' = fin
    BY DEF luaF_close
<1>2. /\ \A u \in closing : u \in Of("upval") /\ u \in Alive /\ u \in Objs /\ Kind(u) = "upval" /\ Open(u)
      /\ live \subseteq closing /\ gray \subseteq live /\ \A u \in gray : g.color[u] = "gray"
    BY DEF OpenOn, Of, Alive
<1>3. /\ \A x \in doomed : x \in Alive /\ x \in Objs /\ White(g, x)
      /\ HeapOK /\ Homed /\ g \in Marks /\ \A x : Kind(x)' = Kind(x)
    BY <1>1, DoomWhite DEF Safe, Marked, Kind
<1>4. gray \subseteq Alive \ doomed
    BY <1>2, <1>3 DEF White, Whites
<1>5. g1 \in Marks /\ g2.color = [u \in Objs |-> IF u \in gray THEN currentwhite ELSE g.color[u]]
      /\ \A x \in doomed : g1.color[x] = g.color[x]
    <2> HIDE DEF gray
    <2> QED
        BY <1>3, <1>4 DEF Marks, Whites
<1>6. gcstate = "propagate" => Sealed
    BY AllLive
<1>7. gcstate = "propagate" => S \cap Objs \subseteq Alive \ doomed
    <2>1. ASSUME NEW u \in gray, upvalue(u) \in Objs, Sealed
          PROVE  upvalue(u) \in Alive \ doomed
        <3>1. u \in Of("upval") /\ u \in Alive \ doomed /\ Kind(u) = "upval"
            BY <1>2, <1>4
        <3>2. upvalue(u) \in All(u) /\ upvalue(u) \in Holds(u)
            BY <2>1, <3>1, UpvalueFacts DEF Holds, Strong
        <3> QED
            BY <2>1, <3>1, <3>2 DEF Sealed, Doom, Lost
    <2> QED
        BY <1>6, <2>1
<1> HIDE DEF closing, live, gray, S, g1, g2
<1>8. Pale
    <2>1. CASE gcstate = "propagate"
        <3>1. \A o \in Alive \ doomed : Strong(o) \cap doomed = {}
            BY DEF Doom, Lost, Holds
        <3>2. \A x \in Objs \cap doomed : mark(g1, S).color[x] = g1.color[x]
            BY <1>3, <1>5, <1>6, <1>7, <2>1, <3>1, MarkSpares
        <3> QED
            BY <1>1, <1>3, <1>5, <2>1, <3>2 DEF Pale
    <2>2. CASE gcstate # "propagate"
        BY <1>1, <1>3, <1>4, <1>5, <2>2 DEF Pale
    <2> QED
        BY <2>1, <2>2
<1>9. /\ \A x \in Objs \ closing : body'[x] = body[x]
      /\ \A x \in live : body'[x].at = Closed /\ body'[x].v = upvalue(x)
      /\ \A x \in Alive' : x \in Objs /\ x \in Alive /\ (x \in closing => x \in live)
    BY <1>1, <1>2 DEF Alive
<1>10. \A x \in Alive' : Kind(x) # "upval" => body'[x] = body[x] /\ StackOf(x)' = StackOf(x)
    <2>1. \A x \in Alive' : Kind(x) # "upval" => body'[x] = body[x]
        BY <1>2, <1>9
    <2> QED
        BY <1>1, <2>1 DEF StackOf
<1>11. ASSUME NEW x \in Alive', Kind(x) = "upval"
       PROVE  upvalue(x)' = upvalue(x)
    <2>1. CASE x \in live
        BY <1>9, <2>1 DEF upvalue, Open
    <2>2. CASE x \notin live
        <3>1. x \in Of("upval") /\ body'[x] = body[x] /\ (Open(x)' <=> Open(x))
            BY <1>3, <1>9, <1>11, <2>2 DEF Of, Open, Closed
        <3>2. CASE ~Open(x)
            BY <3>1, <3>2 DEF upvalue
        <3>3. CASE Open(x)
            <4>1. body[x].at[1] \in Objs /\ body[x].at[1] \notin closing
                BY <1>2, <3>1, <3>3, UpvalueFacts DEF Alive
            <4> QED
                BY <1>9, <3>1, <3>3, <4>1 DEF upvalue
        <3> QED
            BY <3>2, <3>3
    <2> QED
        BY <2>1, <2>2
<1>12. Grows(X)
    BY <1>9, <1>10, <1>11 DEF Grows
<1> HIDE DEF X
<1> QED
    BY <1>1, <1>8, <1>12, GrowFacts

\* Whatever the program does, what is lost stays lost, and pale.
LEMMA ProgramGrow ==
    ASSUME Safe, Safe', Doom, Program \/ Setupvalue
    PROVE  Grow /\ Pale
<1> HIDE DEF Safe, Doom, Grow, Pale
<1>1. CASE \E th \in Running, s \in Slots :
              \/ assign(th, s) \/ luaF_close(th, s)
              \/ \E o \in Objs : \/ new_object(th, s, o) \/ luaS_newlstr(th, s, o)
                                 \/ pushcclosure(th, s, o)
                                 \/ \E l \in Slots \ {s}, u \in Objs : op_closure(th, s, l, o, u)
    <2>1. PICK th \in Running, s \in Slots :
              \/ assign(th, s) \/ luaF_close(th, s)
              \/ \E o \in Objs : \/ new_object(th, s, o) \/ luaS_newlstr(th, s, o)
                                 \/ pushcclosure(th, s, o)
                                 \/ \E l \in Slots \ {s}, u \in Objs : op_closure(th, s, l, o, u)
        BY <1>1
    <2>2. ASSUME \E v, F : Puts(th, s, v, F) /\ \A x \in F : x = v \/ (v \in F /\ x \in Strong(v)')
          PROVE  Grow /\ Pale
        BY <2>2, PutGrow
    <2>3. ASSUME assign(th, s)
          PROVE  Grow /\ Pale
        BY <2>2, <2>3, AssignPuts
    <2>4. ASSUME luaF_close(th, s)
          PROVE  Grow /\ Pale
        BY <2>4, CloseGrow
    <2>5. ASSUME NEW o \in Objs, new_object(th, s, o)
          PROVE  Grow /\ Pale
        BY <2>2, <2>5, NewObjectPuts
    <2>6. ASSUME NEW o \in Objs, luaS_newlstr(th, s, o)
          PROVE  Grow /\ Pale
        BY <2>2, <2>6, NewlstrPuts
    <2>7. ASSUME NEW o \in Objs, pushcclosure(th, s, o)
          PROVE  Grow /\ Pale
        BY <2>2, <2>7, PushcclosurePuts
    <2>8. ASSUME NEW o \in Objs, NEW l \in Slots \ {s}, NEW u \in Objs, op_closure(th, s, l, o, u)
          PROVE  Grow /\ Pale
        BY <2>2, <2>8, OpClosurePuts
    <2> QED
        BY <2>1, <2>3, <2>4, <2>5, <2>6, <2>7, <2>8
<1>2. ASSUME NEW t \in Hands("table"), NEW e \in Entries, settable(t, e[1], e[2])
      PROVE  Grow /\ Pale
    BY <1>2, SettableGrow
<1>3. ASSUME NEW m \in InHand, setmetatable_basic(m)
      PROVE  Grow /\ Pale
    BY <1>3, BasicGrow
<1>4. ASSUME NEW m \in InHand \cup {nil}, NEW o \in InHand, lua_setmetatable(o, m)
      PROVE  Grow /\ Pale
    BY <1>4, SetmetatableGrow
<1>5. ASSUME NEW c \in Hands("function"), NEW v \in InHand, op_setupval(c, v)
      PROVE  Grow /\ Pale
    BY <1>5, OpSetupvalGrow
<1>6. ASSUME NEW c \in Hands("function"), NEW v \in InHand, lua_setupvalue(c, v)
      PROVE  Grow /\ Pale
    BY <1>6, SetupvalueGrow
<1> QED
    BY <1>1, <1>2, <1>3, <1>4, <1>5, <1>6 DEF Program, Setupvalue

-----------------------------------------------------------------------------
(* The collection *)

\* Every step keeps what is lost lost.
LEMMA DoomStep ==
    ASSUME Safe, Safe', Doom, [Next]_vars
    PROVE  Doom'
<1>1. CASE Begin /\ doomed' = Alive \ Reach
    BY <1>1, BeginDoom
<1>2. ASSUME doomed' = IF doomed = {} THEN {} ELSE (doomed \ (Reach' \cup From(Roots', Refs({})))) \cap Alive'
      PROVE  StillLost
    BY <1>2 DEF StillLost
<1>3. CASE /\ Goon
           /\ doomed' = IF doomed = {} THEN {} ELSE (doomed \ (Reach' \cup From(Roots', Refs({})))) \cap Alive'
    BY <1>2, <1>3, GoonDoom
<1>4. CASE /\ Program \/ Setupvalue
           /\ doomed' = IF doomed = {} THEN {} ELSE (doomed \ (Reach' \cup From(Roots', Refs({})))) \cap Alive'
    BY <1>2, <1>4, ProgramGrow, ProgramLists, ProgramDoom
<1>5. CASE UNCHANGED vars
    <2>1. /\ UNCHANGED heap /\ gmt' = gmt /\ g' = g /\ gcstate' = gcstate /\ currentwhite' = currentwhite
          /\ tmudata' = tmudata /\ doomed' = doomed
        BY <1>5 DEF vars, heap, phase, lists
    <2>2. Alive' = Alive /\ Roots' = Roots /\ otherwhite' = otherwhite /\ \A x : Holds(x)' = Holds(x)
        BY <2>1, HoldsHeap DEF Roots, otherwhite
    <2>3. Lost'
        BY <2>1, <2>2 DEF Doom, Lost
    <2> QED
        BY <2>1, <2>2, <2>3 DEF Doom, White, isdead
<1> HIDE DEF Safe, Doom
<1> QED
    BY <1>1, <1>3, <1>4, <1>5 DEF Next

\* A collection frees all that was garbage when it began, but for what weak
\* tables and finalizers have brought back: luaC_step from markroot to the end
\* of GCSfinalize, with the program between any two of its steps.
THEOREM GarbageCollected == Spec => [](~missed => CycleCollects)
<1>1. Spec => [](~missed => Safe)
    BY SafeAlways
<1>2. Init => Doom
    <2>1. Init => doomed = {} /\ gcstate = "pause"
        BY DEF Init
    <2> QED
        BY <2>1 DEF Doom, Lost
<1>3. (~missed => Safe) /\ (~missed => Safe)' /\ (~missed => Doom) /\ [Next]_vars => (~missed => Doom)'
    BY DoomStep, MissedStays
<1>4. Doom => CycleCollects
    BY DEF Doom, CycleCollects
<1> QED
    BY <1>1, <1>2, <1>3, <1>4, PTL DEF Spec
=============================================================================
