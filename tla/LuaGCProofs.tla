----------------------------- MODULE LuaGCProofs -----------------------------
(***************************************************************************)
(* Theorems about LuaGC: what the program can get at is never freed, over  *)
(* all heaps, programs and interleavings with the collector.               *)
(***************************************************************************)
EXTENDS LuaGCLemmas

-----------------------------------------------------------------------------
(* The inductive invariant *)

\* What this collection will not free
Live == {o \in Alive : ~isdead(o)}

\* What is live refers to what is live; so do the roots.
LiveClosed == Roots \subseteq Live /\ \A o \in Live : All(o) \subseteq Live

Marked == g \in Marks /\ gcstate \in States /\ currentwhite \in Whites

\* The sweep has all before it that it has not turned white; userdata that wait
\* for their finalizers are on no other list, and none are left at the end.
Sweeping ==
    /\ IsInjective(sweepgc)
    /\ \A o \in Range(sweepgc) : ~Open(o) /\ o \notin Tmu
    /\ gcstate # "sweep" => sweepgc = <<>>
    /\ gcstate = "pause" => tmudata = <<>>
    /\ Tmu \subseteq Of("userdata")

Awaiting(o) == o \in Range(sweepgc) \/ (Open(o) /\ body[o].at[1] \in Range(sweepgc))

\* Only the sweep meets dead objects, and all it has behind it is white.
Colours ==
    /\ \A o \in Alive : Kind(o) = "thread" \/ Open(o) => ~Black(g, o)
    /\ gcstate # "sweep" => \A o \in Alive : ~isdead(o)
    /\ gcstate # "propagate" => \A o \in Alive \ Tmu : Awaiting(o) \/ g.color[o] = currentwhite

Marking == gcstate = "propagate" => Tri(g, Tmu, {}) /\ {Main, Registry} \subseteq Dark(g)

Safe == HeapOK /\ Homed /\ ListsOK /\ Marked /\ Sweeping /\ Colours /\ LiveClosed /\ Marking

-----------------------------------------------------------------------------
(* What the program has at hand *)

\* Whatever is at hand is live, and no upvalue.
LEMMA HandFacts ==
    ASSUME Safe
    PROVE  /\ Main \in Live /\ Registry \in Live /\ gmt \in Live \cup {nil} /\ Range(fin) \subseteq Live
           /\ \A th \in Running : th \in Live /\ Kind(th) = "thread"
           /\ \A v \in InHand : v \in Live /\ Kind(v) # "upval"
           /\ \A k : \A o \in Hands(k) : o \in Live /\ Kind(o) = k
           /\ \A h \in InHand \cup {Registry} : \A v \in Readable(h) : v \in Live /\ Kind(v) # "upval"
<1>0. Live \subseteq Alive /\ Live \subseteq Objs /\ nil \notin Objs
    BY ObjsAssumption DEF Live, Alive
<1>1. Main \in Live /\ Registry \in Live /\ gmt \in Live \cup {nil}
    BY ObjsAssumption DEF Safe, LiveClosed, Roots, HeapOK, Of, Alive
<1>2. Kind(Main) = "thread" /\ Kind(Registry) = "table"
    BY PoolFacts DEF Safe, HeapOK
<1>3. \A o \in Live : Strong(o) \subseteq Live /\ Weak(o) \subseteq Live
    BY DEF Safe, LiveClosed, All
<1>4. ASSUME NEW th \in Live, Kind(th) = "thread"
      PROVE  /\ \A v \in StackOf(th) : v \in Objs \cup {nil}
             /\ \A v \in StackOf(th) : v # nil => v \in Live /\ Kind(v) # "upval"
    <2>1. th \in Alive /\ Strong(th) = Objs \cap StackOf(th) /\ \A v \in Strong(th) : Kind(v) # "upval"
        BY <1>0, <1>4, StrongFacts DEF Safe, All
    <2>2. \A s \in Slots : body[th].stack[s] \in Objs \cup {nil}
        BY <1>4, <2>1, BodyFacts DEF Safe
    <2>3. Range(fin) \subseteq Objs
        BY DEF Safe, HeapOK, Of, Alive
    <2>4. \A v \in StackOf(th) : v \in Objs \cup {nil}
        BY <2>2, <2>3 DEF StackOf
    <2> QED
        BY <1>3, <1>4, <2>1, <2>4
<1>5. Range(fin) \subseteq Live
    <2>1. Range(fin) \subseteq StackOf(Main) /\ Range(fin) \subseteq Objs
        BY DEF StackOf, Safe, HeapOK, Of, Alive
    <2> QED
        BY <1>0, <1>1, <1>2, <1>4, <2>1
<1>6. \A th \in Running : th \in Live /\ Kind(th) = "thread"
    BY <1>0, <1>1, <1>2, <1>4 DEF Running
<1>7. \A v \in InHand : v \in Live /\ Kind(v) # "upval"
    BY <1>4, <1>6 DEF InHand
<1>8. \A k : \A o \in Hands(k) : o \in Live /\ Kind(o) = k
    BY <1>1, <1>7 DEF Hands
<1>9. ASSUME NEW h \in InHand \cup {Registry}, NEW v \in Readable(h)
      PROVE  v \in Live /\ Kind(v) # "upval"
    <2>1. h \in Live
        BY <1>1, <1>7
    <2>2. v \notin {u \in Objs : Kind(u) = "upval"} /\ v # nil
        BY DEF Readable
    <2>3. CASE v \in Strong(h) \cup Weak(h)
        BY <1>0, <1>3, <2>1, <2>2, <2>3
    <2>4. CASE Kind(h) = "function" /\ body[h].up \in Of("upval") /\ v = upvalue(body[h].up)
        <3> DEFINE u == body[h].up
        <3>1. Strong(h) = Objs \cap {u} /\ u \in Objs /\ u \in Alive /\ Kind(u) = "upval"
            BY <1>0, <2>1, <2>4, StrongFacts DEF Safe, Of, Alive
        <3>2. u \in Live
            BY <1>3, <2>1, <3>1
        <3>3. Strong(u) = Objs \cap {upvalue(u)}
            BY <3>1, StrongFacts DEF Safe
        <3>4. upvalue(u) \in Objs \cup {nil}
            <4>1. /\ body[u].v \in Objs \cup {nil}
                  /\ Open(u) => body[u].at[1] \in Objs /\ body[u].at[2] \in Slots /\ Kind(body[u].at[1]) = "thread"
                BY <3>1, BodyFacts DEF Safe
            <4>2. Open(u) => body[u].at[1] \in Alive
                BY <3>1 DEF Safe, Homed
            <4>3. Open(u) => body[body[u].at[1]].stack[body[u].at[2]] \in Objs \cup {nil}
                BY <4>1, <4>2, BodyFacts DEF Safe
            <4> HIDE DEF u
            <4> QED
                BY <4>1, <4>3 DEF upvalue
        <3>5. upvalue(u) \in Live
            BY <1>3, <2>2, <2>4, <3>2, <3>3, <3>4
        <3> QED
            BY <1>0, <2>2, <2>4, <3>5
    <2> QED
        BY <2>3, <2>4 DEF Readable
<1> QED
    BY <1>1, <1>5, <1>6, <1>7, <1>8, <1>9

-----------------------------------------------------------------------------
(* How the heap changes *)

Values == {o \in Objs : Kind(o) # "upval"} \cup {nil}

\* An object that is left alone refers to what it referred to.
LEMMA SameRefs ==
    ASSUME pool' = pool, NEW x \in Objs, body'[x] = body[x], x = Main => fin' = fin,
           Kind(x) = "upval" => upvalue(x)' = upvalue(x)
    PROVE  /\ Kind(x)' = Kind(x) /\ Open(x)' = Open(x) /\ IsWeak(x)' = IsWeak(x)
           /\ Strong(x)' = Strong(x) /\ Weak(x)' = Weak(x) /\ All(x)' = All(x)
<1>1. Kind(x)' = Kind(x) /\ Open(x)' = Open(x) /\ Weak(x)' = Weak(x)
    BY DEF Kind, Open, Weak, Closed
<1>2. Modes(x)' = Modes(x)
    BY DEF Modes
<1>3. StackOf(x)' = StackOf(x)
    BY DEF StackOf
<1>4. IsWeak(x)' = IsWeak(x)
    BY <1>1, <1>2 DEF IsWeak
<1>5. Strong(x)' = Strong(x)
    BY <1>1, <1>2, <1>3 DEF Strong
<1> QED
    BY <1>1, <1>4, <1>5 DEF All

\* A value is put into a slot of a stack.
LEMMA StackPut ==
    ASSUME HeapOK, NEW th \in Alive, Kind(th) = "thread", NEW s \in Slots, NEW v \in Values
    PROVE  LET b == [body[th] EXCEPT !.stack[s] = v]
           IN /\ b \in Bodies(pool, "thread", Objs)
              /\ \A t \in Slots : b.stack[t] = IF t = s THEN v ELSE body[th].stack[t]
<1> DEFINE b == [body[th] EXCEPT !.stack[s] = v]
<1> DEFINE values == {o \in Objs : pool[o].kind # "upval"}
<1>1. body[th] \in [stack : [Slots -> values \cup {nil}]]
    BY DEF HeapOK, Bodies
<1>2. v \in values \cup {nil}
    BY DEF Values, Kind
<1> HIDE DEF values
<1>3. b \in [stack : [Slots -> values \cup {nil}]]
    BY <1>1, <1>2
<1>4. \A t \in Slots : b.stack[t] = IF t = s THEN v ELSE body[th].stack[t]
    BY <1>1, <1>2
<1> QED
    BY <1>3, <1>4 DEF Bodies, values, b

\* The step makes or finds the objects of F and puts a value on a stack.
HeapPut(th, s, v, F) ==
    /\ pool' = pool /\ fin' = fin /\ gmt' = gmt
    /\ th \in Alive /\ Kind(th) = "thread" /\ s \in Slots /\ v \in Values
    /\ F \subseteq Objs /\ th \notin F /\ v \in Live \cup F \cup {nil}
    /\ \A x \in F : /\ body'[x] # nil /\ body'[x] \in Bodies(pool, Kind(x), Objs)
                    /\ Kind(x) = "upval" => body'[x].at = Closed \/ body'[x].at[1] \in Alive
                    /\ x \in Alive => Kind(x) = "string" \/ (Open(x) /\ body'[x].at = body[x].at)
                    /\ All(x)' \subseteq Live \cup F
    /\ DOMAIN body' = Objs /\ body'[th] = [body[th] EXCEPT !.stack[s] = v]
    /\ \A x \in Objs \ (F \cup {th}) : body'[x] = body[x]

\* ... and what it makes, and the dead it finds, get the current white.
Puts(th, s, v, F) ==
    /\ HeapPut(th, s, v, F)
    /\ UNCHANGED <<phase, sweepgc, tmudata, finalized, called>>
    /\ g' \in Marks /\ g'.gray = g.gray /\ g'.grayagain = g.grayagain /\ g'.weak = g.weak
    /\ \A x \in Objs : g'.color[x] = IF x \in F /\ (x \notin Alive \/ isdead(x)) THEN currentwhite ELSE g.color[x]
    /\ rootgc' \in Seq(Objs) /\ IsInjective(rootgc')
    /\ Range(rootgc') = Range(rootgc) \cup {x \in F \ Alive : Kind(x) # "string" /\ ~Open(x)'}

\* Nothing else refers to anything new then.
LEMMA PutFacts ==
    ASSUME Safe, NEW th, NEW s, NEW v, NEW F, HeapPut(th, s, v, F)
    PROVE  /\ HeapOK' /\ Homed' /\ Alive' = Alive \cup F
           /\ \A x \in Objs \ F : Open(x)' = Open(x)
           /\ \A x \in Alive \ F : /\ All(x)' \subseteq All(x) \cup (Objs \cap {v})
                                   /\ Kind(x) # "thread" /\ ~Open(x) => All(x)' = All(x)
           /\ \A x \in F \cap Alive : Open(x) => Open(x)' /\ All(x)' \subseteq All(x) \cup (Objs \cap {v})
<1> USE DEF Safe, HeapPut
<1>0. /\ th \in Alive /\ th \in Objs /\ Kind(th) = "thread" /\ \A x \in Objs : Kind(x)' = Kind(x)
      /\ Alive \subseteq Objs /\ nil \notin Objs
    BY ObjsAssumption DEF Kind, Alive
<1>1. /\ body'[th] \in Bodies(pool, "thread", Objs)
      /\ \A t \in Slots : body'[th].stack[t] = IF t = s THEN v ELSE body[th].stack[t]
    <2> DEFINE b == [body[th] EXCEPT !.stack[s] = v]
    <2>1. body'[th] = b /\ HeapOK /\ s \in Slots /\ v \in Values
        OBVIOUS
    <2> HIDE DEF Safe, HeapPut
    <2>2. b \in Bodies(pool, "thread", Objs) /\ \A t \in Slots : b.stack[t] = IF t = s THEN v ELSE body[th].stack[t]
        BY <1>0, <2>1, StackPut
    <2> HIDE DEF b
    <2> QED
        BY <2>1, <2>2
<1>2. body'[th] # nil
    <2>1. "thread" \in Kinds
        BY DEF Kinds
    <2> QED
        BY <1>1, <2>1, PoolFacts DEF HeapOK
<1>3. Alive' = Alive \cup F
    BY <1>0, <1>2 DEF Alive
<1>4. HeapOK'
    <2>1. \A x \in Alive' : body'[x] \in Bodies(pool', Kind(x)', Objs)
        BY <1>0, <1>1, <1>3 DEF HeapOK, Alive
    <2>2. gmt' \in (Of("table") \cup {nil})' /\ fin' \in Seq(Objs) /\ Range(fin') \subseteq Of("userdata")'
        BY <1>0, <1>3 DEF HeapOK, Of
    <2> QED
        BY <1>3, <2>1, <2>2 DEF HeapOK
<1>5. \A x \in Objs \ F : Open(x)' = Open(x)
    BY <1>0 DEF Open, Closed
<1>6. Homed'
    <2>1. ASSUME NEW u \in Alive', Open(u)'
          PROVE  body'[u].at[1] \in Alive'
        BY <1>0, <1>3, <1>5, <2>1 DEF Homed, Open
    <2> QED
        BY <2>1 DEF Homed
<1>7. ASSUME NEW u \in Alive, Open(u), Open(u)', body'[u].at = body[u].at
      PROVE  All(u)' \subseteq All(u) \cup (Objs \cap {v})
    <2> DEFINE h == body[u].at[1]
               t == body[u].at[2]
    <2>1. h \in Alive /\ t \in Slots /\ Kind(h) = "thread" /\ Kind(u) = "upval" /\ h \in Objs
        BY <1>0, <1>7, BodyFacts DEF Homed, Open
    <2>2. h \notin F
        BY <2>1 DEF Open
    <2>3. upvalue(u) = body[h].stack[t] /\ upvalue(u)' = body'[h].stack[t]
        BY <1>7 DEF upvalue
    <2>4. upvalue(u)' \in {upvalue(u), v}
        BY <1>1, <2>1, <2>2, <2>3
    <2>5. All(u) = Objs \cap {upvalue(u)} /\ All(u)' = Objs \cap {upvalue(u)'}
        BY <1>0, <2>1 DEF All, Strong, Weak
    <2> QED
        BY <2>4, <2>5
<1>8. All(th)' \subseteq All(th) \cup (Objs \cap {v})
    <2>1. StackOf(th)' \subseteq StackOf(th) \cup {v}
        BY <1>1 DEF StackOf
    <2>2. All(th) = Objs \cap StackOf(th) /\ All(th)' = Objs \cap StackOf(th)'
        BY <1>0 DEF All, Strong, Weak
    <2> QED
        BY <2>1, <2>2
<1>9. ASSUME NEW x \in Alive \ F, x # th, ~Open(x)
      PROVE  All(x)' = All(x)
    <2>1. Kind(x) = "upval" => upvalue(x)' = upvalue(x)
        BY <1>0, <1>5, <1>9 DEF upvalue
    <2> QED
        BY <1>0, <1>9, <2>1, SameRefs
<1>10. \A x \in Alive \ F : Open(x) => All(x)' \subseteq All(x) \cup (Objs \cap {v})
    BY <1>0, <1>5, <1>7 DEF Open
<1>11. \A x \in F \cap Alive : Open(x) => Open(x)' /\ All(x)' \subseteq All(x) \cup (Objs \cap {v})
    <2>1. \A x \in F \cap Alive : Open(x) => Open(x)' /\ body'[x].at = body[x].at
        BY <1>0 DEF Open
    <2> QED
        BY <1>7, <2>1
<1> QED
    BY <1>0, <1>3, <1>4, <1>5, <1>6, <1>8, <1>9, <1>10, <1>11

-----------------------------------------------------------------------------
(* What a step of the program has to do *)

\* The step makes the objects of N, or finds them again, with the current
\* white; it lets go of open upvalues only, and only of dead ones; it leaves
\* the others dead or alive, and what is live refers to what is live.
Fits(N) ==
    /\ pool' = pool /\ UNCHANGED <<phase, sweepgc, tmudata, finalized, called>>
    /\ HeapOK' /\ Homed' /\ g' \in Marks
    /\ N \subseteq Alive' /\ Alive' \subseteq Alive \cup N /\ Live \subseteq Alive'
    /\ \A x \in Alive \ Alive' : Open(x)
    /\ \A x \in Alive \cap Alive' : Open(x)' => Open(x)
    /\ \A x \in N : g'.color[x] = currentwhite
    /\ \A x \in Alive' \ N : g'.color[x] = otherwhite <=> g.color[x] = otherwhite
    /\ \A x \in Live \cup N : All(x)' \subseteq Live \cup N
    /\ gmt' \in Live \cup N \cup {nil}
    /\ \A x \in Alive' : Kind(x) = "thread" \/ Open(x)' => ~Black(g', x)
    /\ gcstate # "propagate" =>
          \A x \in Alive' \ (N \cup Tmu) :
              \/ g'.color[x] = currentwhite
              \/ g.color[x] # currentwhite /\ (Open(x) => Open(x)' /\ body'[x].at = body[x].at)
    /\ rootgc' \in Seq(Objs) /\ IsInjective(rootgc') /\ Range(rootgc') = (Listed \ Tmu)'

\* Such a step keeps the invariant, when it keeps that of the mark phase.
LEMMA FitsFacts ==
    ASSUME Safe, NEW N \in SUBSET Objs, Fits(N), Marking'
    PROVE  Safe'
<1> USE DEF Safe, Fits
<1>0. /\ gcstate' = gcstate /\ currentwhite' = currentwhite /\ Tmu' = Tmu /\ \A x : Kind(x)' = Kind(x)
      /\ otherwhite' = otherwhite /\ otherwhite # currentwhite
      /\ Alive \subseteq Objs /\ Alive' \subseteq Objs
    BY DEF phase, Tmu, Kind, otherwhite, Marked, Whites, Alive
<1>1. Marked'
    BY <1>0 DEF Marked
<1>2. \A x \in Range(sweepgc) : x \in Alive' /\ ~Open(x)' /\ x \notin Tmu
    <2>1. Range(sweepgc) \subseteq Alive
        BY DEF ListsOK, Range
    <2> QED
        BY <2>1 DEF Sweeping
<1>3. Tmu \subseteq Of("userdata")' /\ finalized \subseteq Of("userdata")'
    <2>1. \A x \in Of("userdata") : x \in Alive' /\ Kind(x) = "userdata"
        BY DEF Of, Open
    <2> QED
        BY <1>0, <2>1 DEF Sweeping, ListsOK, Of
<1>4. Sweeping'
    BY <1>0, <1>2, <1>3 DEF Sweeping
<1>5. ListsOK'
    <2>1. sweepgc \in Seq(Alive')
        <3>1. sweepgc \in Seq(Alive) /\ DOMAIN sweepgc = 1..Len(sweepgc) /\ Len(sweepgc) \in Nat
            BY LenProperties DEF ListsOK
        <3>2. sweepgc \in [1..Len(sweepgc) -> Alive']
            BY <1>2, <3>1 DEF Range
        <3> QED
            BY <3>1, <3>2, SeqDef
    <2>2. Tmu \subseteq Listed'
        BY <1>0, <1>3 DEF Of, Listed, Open
    <2>3. Range(tmudata') = Tmu
        BY <1>0 DEF Tmu
    <2> QED
        BY <1>0, <1>3, <2>1, <2>2, <2>3 DEF ListsOK, Tmu
<1>6. Live' = Live \cup N
    <2>1. ASSUME NEW x \in Alive'
          PROVE  ~isdead(x)' <=> x \in Live \cup N
        <3>1. CASE x \in N
            BY <1>0, <3>1 DEF isdead
        <3>2. CASE x \notin N
            BY <1>0, <2>1, <3>2 DEF isdead, Live
        <3> QED
            BY <3>1, <3>2
    <2> QED
        BY <2>1 DEF Live
<1>7. LiveClosed'
    <2>1. Main \in Live /\ Registry \in Live /\ Tmu \subseteq Live
        BY HandFacts DEF LiveClosed, Roots, ListsOK, Tmu, Sweeping, Of, Alive
    <2>2. Roots' \subseteq Live'
        BY <1>0, <1>6, <2>1, ObjsAssumption DEF Roots, Tmu
    <2>3. \A o \in Live' : All(o)' \subseteq Live'
        BY <1>6
    <2> QED
        BY <2>2, <2>3 DEF LiveClosed
<1>8. Colours'
    <2>1. \A o \in Alive' : Kind(o)' = "thread" \/ Open(o)' => ~Black(g', o)
        BY <1>0
    <2>2. ASSUME gcstate # "sweep", NEW o \in Alive'
          PROVE  ~isdead(o)'
        <3>1. o \in Live \cup N
            BY <2>2 DEF Live, Colours
        <3> QED
            BY <1>6, <3>1 DEF Live
    <2>3. ASSUME gcstate # "propagate", NEW o \in Alive' \ Tmu
          PROVE  Awaiting(o)' \/ g'.color[o] = currentwhite
        <3>1. CASE o \in N
            BY <3>1
        <3>2. CASE o \notin N /\ g.color[o] # currentwhite /\ (Open(o) => Open(o)' /\ body'[o].at = body[o].at)
            <4>1. Awaiting(o) \/ g.color[o] = currentwhite
                BY <2>3, <3>2 DEF Colours
            <4> QED
                BY <3>2, <4>1 DEF Awaiting
        <3> QED
            BY <2>3, <3>1, <3>2
    <2> QED
        BY <1>0, <2>1, <2>2, <2>3 DEF Colours
<1> QED
    BY <1>1, <1>4, <1>5, <1>7, <1>8

\* A step that makes the objects of N white, after the marks have become m:
\* black objects still refer to what is dark.
Whitens(m, N) ==
    /\ m \in Marks /\ Tri(m, Tmu, {}) /\ {Main, Registry} \subseteq Dark(m)
    /\ currentwhite \in Whites /\ {Main, Registry} \subseteq Alive
    /\ pool' = pool /\ tmudata' = tmudata /\ N \subseteq Objs /\ N \cap Alive = {} /\ Alive' = Alive \cup N
    /\ g' \in Marks /\ \A x \in Objs : g'.color[x] = IF x \in N THEN currentwhite ELSE m.color[x]
    /\ g'.gray = m.gray /\ g'.grayagain = m.grayagain /\ g'.weak = m.weak
    /\ \A x \in Alive : Open(x)' <=> Open(x)
    /\ \A x \in Alive \ Tmu : Black(m, x) => All(x)' \subseteq Dark(m) \cap Alive

\* Such a step keeps the invariant of the mark phase.
LEMMA TriStep ==
    ASSUME NEW m, NEW N, Whitens(m, N)
    PROVE  Tri(g, Tmu, {})' /\ {Main, Registry} \subseteq Dark(g)'
<1> USE DEF Whitens
<1>0. /\ Tmu' = Tmu /\ Alive \subseteq Objs /\ Alive' \subseteq Objs /\ \A x : Kind(x)' = Kind(x)
    BY DEF Tmu, Alive, Kind
<1>1. \A x \in Alive : /\ x \notin N
                       /\ (Black(g', x) <=> Black(m, x)) /\ (Gray(g', x) <=> Gray(m, x))
                       /\ (White(g', x) <=> White(m, x))
    BY <1>0 DEF Black, Gray, White
<1>2. \A x \in N : White(g', x) /\ ~Black(g', x) /\ ~Gray(g', x)
    BY DEF White, Black, Gray, Whites
<1>3. Dark(m) \cap Alive \subseteq Dark(g') /\ {Main, Registry} \subseteq Dark(g')
    BY <1>0, <1>1 DEF Dark
<1>4. ASSUME NEW o \in Alive' \ Tmu
      PROVE  /\ Black(g', o) => All(o)' \subseteq Dark(g') \cup {}
             /\ Gray(g', o) => Kind(o) # "userdata"
    BY <1>1, <1>2, <1>3, <1>4 DEF Tri, Blacks
<1>5. Blacks(g, Tmu, {})'
    BY <1>0, <1>4 DEF Blacks, Black, Gray, Dark, White
<1>6. Grays(g)'
    <2>1. ASSUME NEW o \in Alive', Gray(g', o)
          PROVE  /\ Kind(o) = "table"    => o \in g'.gray \cup g'.grayagain \cup g'.weak
                 /\ Kind(o) = "function" => o \in g'.gray
                 /\ Kind(o) = "thread"   => o \in g'.gray \cup g'.grayagain
                 /\ Kind(o) = "upval"    => Open(o)'
        BY <1>1, <1>2, <2>1 DEF Tri, Grays
    <2>2. ASSUME NEW o \in Alive', Kind(o) = "thread" \/ Open(o)'
          PROVE  ~Black(g', o)
        BY <1>1, <1>2, <2>2 DEF Tri, Grays
    <2> QED
        BY <1>0, <2>1, <2>2 DEF Grays, Gray, Black
<1>7. Queues(g)'
    <2>1. \A o \in g'.gray \cup g'.grayagain \cup g'.weak : o \in Alive' /\ Gray(g', o)
        BY <1>1 DEF Tri, Queues
    <2> QED
        BY <1>0, <2>1 DEF Tri, Queues, Gray
<1> QED
    BY <1>3, <1>5, <1>6, <1>7 DEF Tri, Dark, White

-----------------------------------------------------------------------------
(* Steps that put a value on a stack *)

\* Outside the sweep, all that is allocated is live.
LEMMA AllLive ==
    ASSUME Safe, gcstate # "sweep"
    PROVE  Live = Alive /\ Sealed
BY DEF Safe, Colours, Live, LiveClosed, Sealed

\* Such a step keeps the invariant.
LEMMA PutStep ==
    ASSUME Safe, NEW th, NEW s, NEW v, NEW F, Puts(th, s, v, F)
    PROVE  Safe'
<1> DEFINE N == {x \in F : x \notin Alive \/ isdead(x)}
<1>1. /\ HeapOK' /\ Homed' /\ Alive' = Alive \cup F
      /\ \A x \in Objs \ F : Open(x)' = Open(x)
      /\ \A x \in Alive \ F : /\ All(x)' \subseteq All(x) \cup (Objs \cap {v})
                              /\ Kind(x) # "thread" /\ ~Open(x) => All(x)' = All(x)
      /\ \A x \in F \cap Alive : Open(x) => Open(x)' /\ All(x)' \subseteq All(x) \cup (Objs \cap {v})
    BY PutFacts DEF Puts
<1> USE DEF Puts, HeapPut
<1>2. /\ Alive \subseteq Objs /\ nil \notin Objs /\ \A x : Kind(x)' = Kind(x)
      /\ currentwhite \in Whites /\ otherwhite # currentwhite /\ Live \subseteq Alive
    BY ObjsAssumption DEF Alive, Kind, Safe, Marked, otherwhite, Whites, Live
<1>3. Live \cup F = Live \cup N /\ N \subseteq F
    BY <1>2 DEF Live
<1>4. \A x \in F \cap Alive : Kind(x) = "string" \/ (Open(x) /\ Open(x)' /\ body'[x].at = body[x].at)
    BY <1>1
<1>5. \A x : Kind(x) = "string" => All(x)' = {} /\ ~Open(x) /\ ~Open(x)'
    BY <1>2 DEF All, Strong, Weak, Open
<1>6. \A x \in Alive : Open(x)' <=> Open(x)
    BY <1>1, <1>2, <1>4, <1>5
<1>7. \A x \in Live \cup N : All(x)' \subseteq Live \cup N
    <2>1. \A x \in Live \ F : All(x)' \subseteq Live \cup F
        <3>1. Objs \cap {v} \subseteq Live \cup F
            BY <1>2
        <3> QED
            BY <1>1, <1>2, <3>1 DEF Safe, LiveClosed
    <2> QED
        BY <1>3, <2>1
<1>8. \A x \in F \ Alive : g'.color[x] = currentwhite
    BY <1>2
<1>9. \A x \in Alive' : Kind(x) = "thread" \/ Open(x)' => ~Black(g', x)
    <2>1. currentwhite # "black"
        BY <1>2 DEF Whites
    <2> QED
        BY <1>1, <1>2, <1>6, <1>8, <2>1 DEF Safe, Colours, Black
<1>10. Range(rootgc') = (Listed \ Tmu)'
    <2>1. Range(rootgc) = Listed \ Tmu
        BY DEF Safe, ListsOK, Tmu
    <2>2. Tmu' = Tmu /\ Tmu \subseteq Alive
        BY DEF Tmu, Safe, Sweeping, Of
    <2>3. Listed' = Listed \cup {x \in F \ Alive : Kind(x) # "string" /\ ~Open(x)'}
        BY <1>1, <1>2, <1>6 DEF Listed
    <2> QED
        BY <1>2, <2>1, <2>2, <2>3
<1>11. Fits(N)
    <2>1. N \subseteq Alive' /\ Alive' \subseteq Alive \cup N /\ Live \subseteq Alive'
        BY <1>1, <1>2
    <2>2. \A x \in N : g'.color[x] = currentwhite
        BY <1>2
    <2>3. \A x \in Alive' \ N : g'.color[x] = g.color[x]
        BY <1>1, <1>2
    <2>4. gmt' \in Live \cup N \cup {nil}
        BY HandFacts
    <2>5. \A x \in Alive' \ N : Open(x) => Open(x)' /\ body'[x].at = body[x].at
        BY <1>1, <1>2, <1>4, <1>6 DEF Open
    <2> HIDE DEF N
    <2> QED
        BY <1>1, <1>2, <1>6, <1>7, <1>9, <1>10, <2>1, <2>2, <2>3, <2>4, <2>5 DEF Fits
<1>12. Marking'
    <2>1. SUFFICES ASSUME gcstate = "propagate"
                   PROVE  Tri(g, Tmu, {})' /\ {Main, Registry} \subseteq Dark(g)'
        BY DEF Marking, phase
    <2>2. Live = Alive /\ Sealed
        BY <2>1, AllLive
    <2>3. N \cap Alive = {} /\ Alive' = Alive \cup N /\ N \in SUBSET Objs
        BY <1>1, <1>2, <2>2 DEF Live
    <2>4. Tri(g, Tmu, {}) /\ {Main, Registry} \subseteq Dark(g) /\ {Main, Registry} \subseteq Alive /\ g \in Marks
        BY <2>1 DEF Safe, Marking, HeapOK, Marked
    <2>5. \A x \in Alive \ Tmu : Black(g, x) => All(x)' \subseteq Dark(g) \cap Alive
        <3>1. ASSUME NEW x \in Alive \ Tmu, Black(g, x), x \notin F
              PROVE  All(x)' \subseteq Dark(g) \cap Alive
            <4>1. Kind(x) # "thread" /\ ~Open(x)
                BY <2>4, <3>1 DEF Tri, Grays
            <4>2. All(x) \subseteq Dark(g) /\ All(x) \subseteq Alive
                BY <2>2, <2>4, <3>1 DEF Tri, Blacks, Sealed
            <4> QED
                BY <1>1, <3>1, <4>1, <4>2
        <3>2. ASSUME NEW x \in Alive \ Tmu, Black(g, x), x \in F
              PROVE  All(x)' = {}
            BY <1>4, <1>5, <2>4, <3>2 DEF Tri, Grays
        <3> QED
            BY <3>1, <3>2
    <2>7. /\ \A x \in Objs : g'.color[x] = IF x \in N THEN currentwhite ELSE g.color[x]
          /\ tmudata' = tmudata
        OBVIOUS
    <2> HIDE DEF N
    <2> HIDE DEF Safe
    <2>8. Whitens(g, N)
        BY <1>2, <1>6, <2>3, <2>4, <2>5, <2>7 DEF Whitens
    <2> QED
        BY <2>8, TriStep
<1> HIDE DEF N
<1> QED
    BY <1>1, <1>2, <1>3, <1>11, <1>12, FitsFacts

\* An object that is new gets on the list, and userdata after the main thread.
LEMMA LinkNew ==
    ASSUME Safe, NEW o \in Objs, o \notin Range(rootgc)
    PROVE  link(o) \in Seq(Objs) /\ IsInjective(link(o)) /\ Range(link(o)) = Range(rootgc) \cup {o}
<1>1. Main \in Listed /\ Main \notin Tmu
    BY PoolFacts DEF Safe, HeapOK, Listed, Open, Sweeping, Of
<1>2. Main \in Range(rootgc) /\ rootgc \in Seq(Objs) /\ IsInjective(rootgc)
    BY <1>1 DEF Safe, ListsOK, Tmu
<1> QED
    BY <1>2, LinkFacts

\* An object is given a colour.
LEMMA Coloured ==
    ASSUME NEW m \in Marks, NEW o \in Objs, NEW c \in Whites \cup {"gray", "black"}
    PROVE  LET n == [m EXCEPT !.color[o] = c]
           IN /\ n \in Marks /\ n.gray = m.gray /\ n.grayagain = m.grayagain /\ n.weak = m.weak
              /\ \A x \in Objs : n.color[x] = IF x = o THEN c ELSE m.color[x]
BY DEF Marks

\* What is not allocated is on no list.
LEMMA Unlisted ==
    ASSUME Safe, NEW o \in Objs, o \notin Alive
    PROVE  o \notin Range(rootgc) /\ o \notin Live /\ o \notin Tmu
BY DEF Safe, ListsOK, Listed, Live, Tmu

\* What the program can read is a value, and live.
LEMMA Readables ==
    ASSUME Safe, NEW v \in (UNION {Readable(h) : h \in InHand \cup {Registry}}) \cup InHand \cup {gmt, nil}
    PROVE  v \in Values /\ v \in Live \cup {nil}
<1>1. Live \subseteq Objs
    BY DEF Live, Alive
<1>2. gmt = nil \/ Kind(gmt) # "upval"
    BY DEF Safe, HeapOK, Of
<1> QED
    BY <1>1, <1>2, HandFacts DEF Values

\* A slot of a stack is assigned.
LEMMA AssignPuts ==
    ASSUME Safe, NEW th \in Running, NEW s \in Slots, assign(th, s)
    PROVE  \E v, F : Puts(th, s, v, F) /\ \A x \in F : x = v \/ (v \in F /\ x \in Strong(v)')
<1>1. PICK v \in (UNION {Readable(h) : h \in InHand \cup {Registry}}) \cup InHand \cup {gmt, nil} : put(th, s, v)
    BY DEF assign
<1>2. v \in Values /\ v \in Live \cup {nil}
    BY Readables
<1>3. th \in Live /\ Kind(th) = "thread" /\ th \in Alive /\ th \in Objs
    BY HandFacts DEF Live, Alive
<1>4. /\ body' = [body EXCEPT ![th].stack[s] = v] /\ DOMAIN body = Objs
      /\ UNCHANGED <<pool, gmt, fin, g, phase, lists>> /\ g \in Marks
      /\ rootgc \in Seq(Objs) /\ IsInjective(rootgc)
    BY <1>1 DEF assign, put, Safe, HeapOK, Marked, ListsOK
<1>5. Puts(th, s, v, {})
    <2> HIDE DEF Safe
    <2>1. /\ UNCHANGED <<phase, sweepgc, tmudata, finalized, called>>
          /\ pool' = pool /\ fin' = fin /\ gmt' = gmt /\ rootgc' = rootgc /\ g' = g
        BY <1>4 DEF lists
    <2>2. DOMAIN body' = Objs /\ body'[th] = [body[th] EXCEPT !.stack[s] = v]
        BY <1>3, <1>4
    <2>3. \A x \in Objs \ ({} \cup {th}) : body'[x] = body[x]
        BY <1>4
    <2> QED
        BY <1>2, <1>3, <1>4, <2>1, <2>2, <2>3 DEF Puts, HeapPut
<1> QED
    BY <1>5

\* What a new table, userdata or thread is like.
NewBody(o) == CASE Kind(o) = "table" -> NewTable
                [] Kind(o) = "thread" -> NewThread
                [] Kind(o) = "userdata" -> [mt |-> nil]

\* What lua_newtable and the like make is a body of its kind.
LEMMA NewFacts ==
    ASSUME Safe, NEW o \in Objs, Kind(o) \in {"table", "userdata", "thread"}
    PROVE  NewBody(o) \in Bodies(pool, Kind(o), Objs) /\ NewBody(o) # nil
<1>1. NewTable \in Bodies(pool, "table", Objs)
    <2> DEFINE tables == {x \in Objs : pool[x].kind = "table"} \cup {nil}
               entries == SUBSET (({x \in Objs : pool[x].kind # "upval"} \cup {Plain}) \X ({x \in Objs : pool[x].kind # "upval"} \cup {Plain}))
    <2>1. {} \in entries /\ nil \in tables
        OBVIOUS
    <2> HIDE DEF tables, entries
    <2>2. [entries |-> {}, mt |-> nil] \in [entries : entries, mt : tables]
        BY <2>1
    <2> QED
        BY <2>2 DEF Bodies, NewTable, tables, entries
<1>2. NewThread \in Bodies(pool, "thread", Objs)
    <2> DEFINE values == {x \in Objs : pool[x].kind # "upval"} \cup {nil}
               b == [s \in Slots |-> nil]
    <2>1. b \in [Slots -> values]
        OBVIOUS
    <2> HIDE DEF values, b
    <2>2. [stack |-> b] \in [stack : [Slots -> values]]
        BY <2>1
    <2> QED
        BY <2>2 DEF Bodies, NewThread, values, b
<1>3. [mt |-> nil] \in Bodies(pool, "userdata", Objs)
    BY DEF Bodies
<1>4. NewBody(o) \in Bodies(pool, Kind(o), Objs)
    BY <1>1, <1>2, <1>3 DEF NewBody
<1> QED
    BY <1>4, PoolFacts DEF Kinds, Safe, HeapOK

\* A table, a userdata or a thread is made.
LEMMA NewObjectPuts ==
    ASSUME Safe, NEW th \in Running, NEW s \in Slots, NEW o \in Objs, new_object(th, s, o)
    PROVE  \E v, F : Puts(th, s, v, F) /\ \A x \in F : x = v \/ (v \in F /\ x \in Strong(v)')
<1>1. th \in Live /\ Kind(th) = "thread" /\ th \in Alive /\ th \in Objs /\ o \notin Alive /\ th # o
    BY HandFacts DEF Live, Alive, new_object
<1>2. /\ Kind(o) \in {"table", "userdata", "thread"}
      /\ body' = [body EXCEPT ![o] = NewBody(o), ![th].stack[s] = o]
      /\ g' = [g EXCEPT !.color[o] = currentwhite] /\ rootgc' = link(o)
      /\ UNCHANGED <<pool, gmt, fin, phase, sweepgc, tmudata, finalized, called>>
      /\ DOMAIN body = Objs /\ g \in Marks /\ currentwhite \in Whites
    BY DEF new_object, NewBody, Safe, HeapOK, Marked
<1>3. NewBody(o) \in Bodies(pool, Kind(o), Objs) /\ NewBody(o) # nil
    BY <1>2, NewFacts
<1>4. /\ DOMAIN body' = Objs /\ body'[th] = [body[th] EXCEPT !.stack[s] = o] /\ body'[o] = NewBody(o)
      /\ \A x \in Objs \ ({o} \cup {th}) : body'[x] = body[x]
    BY <1>1, <1>2
<1>5. All(o)' = {}
    <2>1. Kind(o)' = Kind(o) /\ o # Main /\ nil \notin Objs
        BY <1>1, <1>2, ObjsAssumption DEF Kind, Safe, HeapOK
    <2>2. CASE Kind(o) = "table"
        BY <1>4, <2>1, <2>2 DEF NewBody, NewTable, All, Strong, Weak, Modes
    <2>3. CASE Kind(o) = "userdata"
        BY <1>4, <2>1, <2>3 DEF NewBody, All, Strong, Weak
    <2>4. CASE Kind(o) = "thread"
        <3>1. StackOf(o)' \subseteq {nil}
            BY <1>4, <2>1, <2>4 DEF NewBody, NewThread, StackOf
        <3> QED
            BY <2>1, <2>4, <3>1 DEF All, Strong, Weak
    <2> QED
        BY <1>2, <2>2, <2>3, <2>4
<1>6. /\ g' \in Marks /\ g'.gray = g.gray /\ g'.grayagain = g.grayagain /\ g'.weak = g.weak
      /\ \A x \in Objs : g'.color[x] = IF x = o THEN currentwhite ELSE g.color[x]
    BY <1>2, Coloured
<1>7. rootgc' \in Seq(Objs) /\ IsInjective(rootgc') /\ Range(rootgc') = Range(rootgc) \cup {o}
    BY <1>1, <1>2, LinkNew, Unlisted
<1>8. ~Open(o)' /\ Kind(o) # "string" /\ Kind(o) # "upval"
    BY <1>2 DEF Open, Kind
<1>9. Puts(th, s, o, {o})
    <2>1. o \in Values
        BY <1>8 DEF Values
    <2>2. {o} = {x \in {o} \ Alive : Kind(x) # "string" /\ ~Open(x)'}
        BY <1>1, <1>8
    <2> HIDE DEF Safe
    <2> QED
        BY <1>1, <1>2, <1>3, <1>4, <1>5, <1>6, <1>7, <1>8, <2>1, <2>2 DEF Puts, HeapPut
<1> QED
    BY <1>9

\* A string is made, found, or resurrected.
LEMMA NewlstrPuts ==
    ASSUME Safe, NEW th \in Running, NEW s \in Slots, NEW o \in Objs, luaS_newlstr(th, s, o)
    PROVE  \E v, F : Puts(th, s, v, F) /\ \A x \in F : x = v \/ (v \in F /\ x \in Strong(v)')
<1> DEFINE b == [len |-> 0]
<1>1. /\ th \in Live /\ Kind(th) = "thread" /\ th \in Alive /\ th \in Objs /\ Kind(o) = "string" /\ th # o
      /\ ~Open(o) /\ ~Open(o)'
    BY HandFacts DEF Live, Alive, luaS_newlstr, Open, Kind
<1>2. /\ body' = [body EXCEPT ![o] = b, ![th].stack[s] = o]
      /\ g' = IF o \notin Alive \/ isdead(o) THEN [g EXCEPT !.color[o] = currentwhite] ELSE g
      /\ pool' = pool /\ gmt' = gmt /\ fin' = fin /\ rootgc' = rootgc
      /\ UNCHANGED <<phase, sweepgc, tmudata, finalized, called>>
      /\ DOMAIN body = Objs /\ g \in Marks /\ currentwhite \in Whites
      /\ rootgc \in Seq(Objs) /\ IsInjective(rootgc)
    BY DEF luaS_newlstr, Safe, HeapOK, Marked, ListsOK, lists
<1>3. b \in Bodies(pool, "string", Objs) /\ b # nil
    <2>1. b \in Bodies(pool, "string", Objs)
        BY DEF Bodies
    <2> QED
        BY <2>1, PoolFacts DEF Kinds, Safe, HeapOK
<1> HIDE DEF b
<1>4. /\ DOMAIN body' = Objs /\ body'[th] = [body[th] EXCEPT !.stack[s] = o] /\ body'[o] = b
      /\ \A x \in Objs \ ({o} \cup {th}) : body'[x] = body[x]
    BY <1>1, <1>2
<1>5. All(o)' = {}
    BY <1>1, <1>2 DEF All, Strong, Weak, Kind
<1>6. /\ g' \in Marks /\ g'.gray = g.gray /\ g'.grayagain = g.grayagain /\ g'.weak = g.weak
      /\ \A x \in Objs : g'.color[x] = IF x \in {o} /\ (x \notin Alive \/ isdead(x)) THEN currentwhite ELSE g.color[x]
    <2>1. CASE o \notin Alive \/ isdead(o)
        BY <1>2, <2>1, Coloured
    <2>2. CASE ~(o \notin Alive \/ isdead(o))
        BY <1>2, <2>2
    <2> QED
        BY <2>1, <2>2
<1>7. Puts(th, s, o, {o})
    <2>1. o \in Values
        BY <1>1 DEF Values
    <2>2. {} = {x \in {o} \ Alive : Kind(x) # "string" /\ ~Open(x)'}
        BY <1>1
    <2> HIDE DEF Safe
    <2> QED
        BY <1>1, <1>2, <1>3, <1>4, <1>5, <1>6, <2>1, <2>2 DEF Puts, HeapPut
<1> QED
    BY <1>7

\* A function is made, with a value or the upvalue of another one.
LEMMA PushcclosurePuts ==
    ASSUME Safe, NEW th \in Running, NEW s \in Slots, NEW o \in Objs, pushcclosure(th, s, o)
    PROVE  \E v, F : Puts(th, s, v, F) /\ \A x \in F : x = v \/ (v \in F /\ x \in Strong(v)')
<1>1. th \in Live /\ Kind(th) = "thread" /\ th \in Alive /\ th \in Objs /\ o \notin Alive /\ Kind(o) = "function"
      /\ th # o
    BY HandFacts DEF Live, Alive, pushcclosure
<1>2. PICK v \in InHand \cup {body[c].up : c \in Hands("function")} :
          body' = [body EXCEPT ![o] = [up |-> v], ![th].stack[s] = o]
    BY DEF pushcclosure
<1>3. v \in Live \cup {nil}
    <2>1. CASE v \in InHand
        BY <2>1, HandFacts
    <2>2. ASSUME NEW c \in Hands("function"), v = body[c].up
          PROVE  v \in Live \cup {nil}
        <3>1. c \in Live /\ Kind(c) = "function" /\ c \in Alive
            BY HandFacts DEF Live
        <3>2. Strong(c) = Objs \cap {body[c].up} /\ body[c].up \in Objs \cup {nil}
            BY <3>1, StrongFacts, BodyFacts DEF Safe
        <3> QED
            BY <2>2, <3>1, <3>2 DEF Safe, LiveClosed, All
    <2> QED
        BY <2>1, <2>2
<1> DEFINE b == [up |-> v]
<1>4. /\ g' = [g EXCEPT !.color[o] = currentwhite] /\ rootgc' = link(o)
      /\ pool' = pool /\ gmt' = gmt /\ fin' = fin
      /\ UNCHANGED <<phase, sweepgc, tmudata, finalized, called>>
      /\ DOMAIN body = Objs /\ g \in Marks /\ currentwhite \in Whites
      /\ Live \subseteq Objs /\ body' = [body EXCEPT ![o] = b, ![th].stack[s] = o]
    BY <1>2 DEF pushcclosure, Safe, HeapOK, Marked, Live, Alive
<1>5. b \in Bodies(pool, "function", Objs) /\ b # nil /\ b.up = v
    <2>1. b \in Bodies(pool, "function", Objs)
        BY <1>3, <1>4 DEF Bodies
    <2> QED
        BY <2>1, PoolFacts DEF Kinds, Safe, HeapOK
<1> HIDE DEF b
<1>6. /\ DOMAIN body' = Objs /\ body'[th] = [body[th] EXCEPT !.stack[s] = o] /\ body'[o] = b
      /\ \A x \in Objs \ ({o} \cup {th}) : body'[x] = body[x]
    BY <1>1, <1>4
<1>7. All(o)' \subseteq Live
    <2>1. Kind(o)' = "function" /\ nil \notin Objs
        BY <1>1, <1>4, ObjsAssumption DEF Kind
    <2>2. All(o)' = Objs \cap {v}
        BY <1>5, <1>6, <2>1 DEF All, Strong, Weak
    <2> QED
        BY <1>3, <2>1, <2>2
<1>8. /\ g' \in Marks /\ g'.gray = g.gray /\ g'.grayagain = g.grayagain /\ g'.weak = g.weak
      /\ \A x \in Objs : g'.color[x] = IF x = o THEN currentwhite ELSE g.color[x]
    BY <1>4, Coloured
<1>9. rootgc' \in Seq(Objs) /\ IsInjective(rootgc') /\ Range(rootgc') = Range(rootgc) \cup {o}
    BY <1>1, <1>4, LinkNew, Unlisted
<1>10. ~Open(o)' /\ Kind(o) # "string" /\ Kind(o) # "upval"
    BY <1>1, <1>4 DEF Open, Kind
<1>11. Puts(th, s, o, {o})
    <2>1. o \in Values
        BY <1>10 DEF Values
    <2>2. {o} = {x \in {o} \ Alive : Kind(x) # "string" /\ ~Open(x)'}
        BY <1>1, <1>10
    <2> HIDE DEF Safe
    <2> QED
        BY <1>1, <1>4, <1>5, <1>6, <1>7, <1>8, <1>9, <1>10, <2>1, <2>2 DEF Puts, HeapPut
<1> QED
    BY <1>11

\* A function is made over a slot of a stack, with its upvalue.
LEMMA OpClosurePuts ==
    ASSUME Safe, NEW th \in Running, NEW s \in Slots, NEW o \in Objs,
           NEW l \in Slots \ {s}, NEW u \in Objs, op_closure(th, s, l, o, u)
    PROVE  \E v, F : Puts(th, s, v, F) /\ \A x \in F : x = v \/ (v \in F /\ x \in Strong(v)')
<1> DEFINE f == [up |-> u]
           c == [at |-> <<th, l>>, v |-> nil]
<1>1. /\ th \in Live /\ Kind(th) = "thread" /\ th \in Alive /\ th \in Objs /\ o \notin Alive
      /\ Kind(o) = "function" /\ Kind(u) = "upval" /\ th # o /\ th # u /\ o # u
    BY HandFacts DEF Live, Alive, op_closure
<1>2. /\ body' = [body EXCEPT ![u] = c, ![o] = f, ![th].stack[s] = o]
      /\ g' = [g EXCEPT !.color[o] = currentwhite,
                        !.color[u] = IF u \notin Alive \/ isdead(u) THEN currentwhite ELSE @]
      /\ rootgc' = link(o) /\ pool' = pool /\ gmt' = gmt /\ fin' = fin
      /\ UNCHANGED <<phase, sweepgc, tmudata, finalized, called>>
      /\ DOMAIN body = Objs /\ g \in Marks /\ currentwhite \in Whites /\ nil \notin Objs
    BY ObjsAssumption DEF op_closure, Safe, HeapOK, Marked
<1>3. u \in Alive => Open(u) /\ body[u].at = <<th, l>>
    <2>1. ASSUME u \in Alive
          PROVE  u \in OpenOn(th) /\ body[u].at[2] = l
        BY <2>1 DEF op_closure
    <2>2. ASSUME u \in Alive
          PROVE  Open(u) /\ body[u].at[1] = th /\ body[u].at = <<body[u].at[1], body[u].at[2]>>
        BY <1>1, <2>1, <2>2, BodyFacts DEF OpenOn, Safe
    <2> QED
        BY <2>1, <2>2
<1>4. /\ f \in Bodies(pool, "function", Objs) /\ f # nil /\ f.up = u
      /\ c \in Bodies(pool, "upval", Objs) /\ c # nil /\ c.at = <<th, l>>
    <2>1. f \in Bodies(pool, "function", Objs)
        BY DEF Bodies
    <2>2. c \in Bodies(pool, "upval", Objs)
        <3> DEFINE places == {<<>>} \cup ({x \in Objs : pool[x].kind = "thread"} \X Slots)
                   values == {x \in Objs : pool[x].kind # "upval"} \cup {nil}
        <3>1. <<th, l>> \in places /\ nil \in values
            BY <1>1 DEF Kind
        <3> HIDE DEF places, values
        <3>2. c \in [at : places, v : values]
            BY <3>1
        <3> QED
            BY <3>2 DEF Bodies, places, values
    <2> QED
        BY <2>1, <2>2, PoolFacts DEF Kinds, Safe, HeapOK
<1> HIDE DEF f, c
<1>5. /\ DOMAIN body' = Objs /\ body'[th] = [body[th] EXCEPT !.stack[s] = o]
      /\ body'[o] = f /\ body'[u] = c
      /\ \A x \in Objs \ ({o, u} \cup {th}) : body'[x] = body[x]
    BY <1>1, <1>2
<1>6. /\ \A x : Kind(x)' = Kind(x)
      /\ Open(u)' /\ ~Open(o)' /\ body'[u].at[1] = th /\ body'[u].at[2] = l
    <2>1. \A x : Kind(x)' = Kind(x)
        BY <1>2 DEF Kind
    <2>2. body'[u].at = <<th, l>> /\ <<th, l>> # <<>>
        BY <1>4, <1>5
    <2> QED
        BY <1>1, <2>1, <2>2 DEF Open, Closed
<1>7. All(o)' = {u}
    BY <1>1, <1>4, <1>5, <1>6 DEF All, Strong, Weak
<1>8. All(u)' \subseteq Live
    <2> DEFINE w == body[th].stack[l]
    <2>1. w \in Objs \cup {nil} /\ w \in StackOf(th)
        BY <1>1, BodyFacts DEF Safe, StackOf
    <2>2. w \in Live \cup {nil}
        <3>1. Strong(th) = Objs \cap StackOf(th)
            BY <1>1, StrongFacts DEF Safe
        <3> QED
            BY <1>1, <2>1, <3>1 DEF Safe, LiveClosed, All
    <2>3. upvalue(u)' = w
        <3>1. body[th] \in [stack : [Slots -> {x \in Objs : pool[x].kind # "upval"} \cup {nil}]]
            BY <1>1 DEF Safe, HeapOK, Bodies
        <3>2. upvalue(u)' = body'[th].stack[l]
            BY <1>6 DEF upvalue
        <3> QED
            BY <1>5, <3>1, <3>2
    <2>4. All(u)' = Objs \cap {upvalue(u)'}
        BY <1>1, <1>6 DEF All, Strong, Weak
    <2> QED
        BY <1>2, <2>2, <2>3, <2>4
<1>9. /\ g' \in Marks /\ g'.gray = g.gray /\ g'.grayagain = g.grayagain /\ g'.weak = g.weak
      /\ \A x \in Objs : g'.color[x] = IF x \in {o, u} /\ (x \notin Alive \/ isdead(x)) THEN currentwhite ELSE g.color[x]
    BY <1>1, <1>2 DEF Marks
<1>10. rootgc' \in Seq(Objs) /\ IsInjective(rootgc') /\ Range(rootgc') = Range(rootgc) \cup {o}
    BY <1>1, <1>2, LinkNew, Unlisted
<1>11. Puts(th, s, o, {o, u})
    <2>1. o \in Values
        BY <1>1 DEF Values
    <2>2. {o} = {x \in {o, u} \ Alive : Kind(x) # "string" /\ ~Open(x)'}
        BY <1>1, <1>6
    <2>3. u \in Alive => Open(u) /\ body'[u].at = body[u].at
        BY <1>3, <1>4, <1>5
    <2>4. \A x \in {o, u} : /\ body'[x] # nil /\ body'[x] \in Bodies(pool, Kind(x), Objs)
                            /\ Kind(x) = "upval" => body'[x].at = Closed \/ body'[x].at[1] \in Alive
                            /\ x \in Alive => Kind(x) = "string" \/ (Open(x) /\ body'[x].at = body[x].at)
                            /\ All(x)' \subseteq Live \cup {o, u}
        BY <1>1, <1>4, <1>5, <1>6, <1>7, <1>8, <2>3
    <2>5. /\ rootgc' = link(o) /\ pool' = pool /\ gmt' = gmt /\ fin' = fin
          /\ UNCHANGED <<phase, sweepgc, tmudata, finalized, called>>
        BY <1>2
    <2> HIDE DEF Safe
    <2> QED
        BY <1>1, <1>5, <1>9, <1>10, <2>1, <2>2, <2>4, <2>5 DEF Puts, HeapPut
<1>12. u \in Strong(o)'
    BY <1>1, <1>4, <1>5, <1>6 DEF Strong
<1> QED
    BY <1>11, <1>12

-----------------------------------------------------------------------------
(* Steps that store a value, and their barriers *)

\* The step stores the values of V in the object of A, or on a stack: no object
\* comes or goes, and nothing but V is referred to that was not before.
Stores(A, V) ==
    /\ pool' = pool /\ UNCHANGED <<phase, lists>>
    /\ HeapOK' /\ Homed' /\ Alive' = Alive /\ Objs \cap V \subseteq Live /\ gmt' \in Live \cup {nil}
    /\ \A x \in Alive : Open(x)' <=> Open(x)
    /\ \A x \in Alive : Open(x) => body'[x].at = body[x].at
    /\ \A x \in Alive : All(x)' \subseteq All(x) \cup (Objs \cap V)
    /\ \A x \in Alive \ A : Kind(x) # "thread" /\ ~Open(x) => All(x)' = All(x)

\* While marking, what A holds is dark when A is black; later colours of black
\* objects may change, to gray or the current white.
Bars(m, A, V) ==
    /\ m \in Marks
    /\ gcstate # "propagate" =>
          \A x \in Objs : m.color[x] = g.color[x] \/ (Black(g, x) /\ m.color[x] \in {currentwhite, "gray"})
    /\ gcstate = "propagate" =>
          /\ Tri(m, Tmu, {}) /\ Dark(g) \subseteq Dark(m)
          /\ \A x \in Alive : m.color[x] = g.color[x] \/ ~White(m, x)
          /\ \A x \in A : Black(m, x) => Objs \cap V \subseteq Dark(m)

\* A store behind its barrier keeps the invariant.
LEMMA StoreStep ==
    ASSUME Safe, NEW A, NEW V, Stores(A, V), NEW m, Bars(m, A, V), g' = m
    PROVE  Safe'
<1> USE DEF Stores, Bars
<1>1. /\ Alive \subseteq Objs /\ Live \subseteq Alive /\ nil \notin Objs /\ \A x : Kind(x)' = Kind(x)
      /\ currentwhite \in Whites /\ otherwhite # currentwhite /\ otherwhite \in Whites
      /\ g \in Marks /\ UNCHANGED <<phase, sweepgc, tmudata, finalized, called>> /\ rootgc' = rootgc
    BY ObjsAssumption DEF Alive, Kind, Safe, Marked, otherwhite, Whites, Live, lists
<1>2. \A x \in Alive : m.color[x] = otherwhite <=> g.color[x] = otherwhite
    <2>1. CASE gcstate = "propagate"
        <3>1. \A x \in Alive : g.color[x] # otherwhite
            BY <2>1 DEF Safe, Colours, isdead
        <3> QED
            BY <1>1, <2>1, <3>1 DEF White
    <2>2. CASE gcstate # "propagate"
        BY <1>1, <2>2 DEF Black, Whites
    <2> QED
        BY <2>1, <2>2
<1>3. \A x \in Live : All(x)' \subseteq Live
    BY <1>1 DEF Safe, LiveClosed
<1>4. \A x \in Alive : Kind(x) = "thread" \/ Open(x) => ~Black(m, x)
    <2>1. CASE gcstate = "propagate"
        BY <2>1 DEF Tri, Grays
    <2>2. CASE gcstate # "propagate"
        BY <1>1, <2>2 DEF Safe, Colours, Black, Whites
    <2> QED
        BY <2>1, <2>2
<1>5. gcstate # "propagate" => \A x \in Alive : m.color[x] = currentwhite \/ g.color[x] # currentwhite
    BY <1>1 DEF Black, Whites
<1>6. Range(rootgc') = (Listed \ Tmu)'
    <2>1. Range(rootgc) = Listed \ Tmu /\ Tmu' = Tmu
        BY DEF Safe, ListsOK, Tmu, lists
    <2>2. Listed' = Listed
        BY <1>1 DEF Listed
    <2> QED
        BY <1>1, <2>1, <2>2
<1>7. Fits({})
    <2>1. rootgc' \in Seq(Objs) /\ IsInjective(rootgc')
        BY <1>1 DEF Safe, ListsOK
    <2> HIDE DEF Safe
    <2> QED
        BY <1>1, <1>2, <1>3, <1>4, <1>5, <1>6, <2>1 DEF Fits
<1>8. Marking'
    <2>1. SUFFICES ASSUME gcstate = "propagate"
                   PROVE  Tri(g, Tmu, {})' /\ {Main, Registry} \subseteq Dark(g)'
        BY <1>1 DEF Marking, phase
    <2>2. Live = Alive /\ Sealed
        BY <2>1, AllLive
    <2>3. {Main, Registry} \subseteq Dark(m) /\ {Main, Registry} \subseteq Alive
        BY <2>1 DEF Safe, Marking, HeapOK
    <2>4. \A x \in Alive \ Tmu : Black(m, x) => All(x)' \subseteq Dark(m) \cap Alive
        <3>1. ASSUME NEW x \in Alive \ Tmu, Black(m, x)
              PROVE  All(x)' \subseteq Dark(m) \cap Alive
            <4>1. Kind(x) # "thread" /\ ~Open(x)
                BY <2>1, <3>1 DEF Tri, Grays
            <4>2. All(x) \subseteq Dark(m) /\ All(x) \subseteq Alive
                BY <2>1, <2>2, <3>1 DEF Tri, Blacks, Sealed
            <4>3. CASE x \in A
                BY <1>1, <2>1, <3>1, <4>2, <4>3
            <4>4. CASE x \notin A
                BY <3>1, <4>1, <4>2, <4>4
            <4> QED
                BY <4>3, <4>4
        <3> QED
            BY <3>1
    <2>5. Whitens(m, {})
        <3>1. tmudata' = tmudata
            BY <1>1
        <3> HIDE DEF Safe
        <3> QED
            BY <1>1, <2>1, <2>3, <2>4, <3>1 DEF Whitens
    <2> QED
        BY <2>5, TriStep
<1> QED
    BY <1>7, <1>8, FitsFacts

\* One object, which is no thread, gets another body.
LEMMA StoreOne ==
    ASSUME Safe, pool' = pool, UNCHANGED <<gmt, fin, phase, lists>>, NEW o \in Alive, NEW b, NEW V,
           Kind(o) # "thread", ~Open(o), b \in Bodies(pool, Kind(o), Objs), body' = [body EXCEPT ![o] = b],
           Kind(o) = "upval" => b.at = Closed,
           Kind(o) = "function" => body[o].up \notin Of("upval"),
           Objs \cap V \subseteq Live, All(o)' \subseteq All(o) \cup (Objs \cap V)
    PROVE  Stores({o}, V)
<1>1. /\ Alive \subseteq Objs /\ \A x : Kind(x)' = Kind(x)
      /\ DOMAIN body = Objs /\ DOMAIN body' = Objs /\ body'[o] = b /\ \A x \in Objs : x # o => body'[x] = body[x]
      /\ {Main, Registry} \subseteq Alive /\ o \in Objs
    BY DEF Alive, Kind, Safe, HeapOK
<1>2. b # nil
    <2>1. Kind(o) \in Kinds
        BY <1>1, PoolFacts DEF Safe, HeapOK
    <2> QED
        BY <2>1, PoolFacts DEF Safe, HeapOK
<1>3. Alive' = Alive
    BY <1>1, <1>2 DEF Alive
<1>4. HeapOK'
    <2>1. \A x \in Alive' : body'[x] \in Bodies(pool', Kind(x)', Objs)
        BY <1>1, <1>3 DEF Safe, HeapOK
    <2>2. gmt' \in (Of("table") \cup {nil})' /\ fin' \in Seq(Objs) /\ Range(fin') \subseteq Of("userdata")'
        BY <1>1, <1>3 DEF Safe, HeapOK, Of
    <2> QED
        BY <1>1, <1>3, <2>1, <2>2 DEF Safe, HeapOK
<1>5. \A x \in Alive : (Open(x)' <=> Open(x)) /\ (Open(x) => body'[x].at = body[x].at)
    BY <1>1 DEF Open, Closed
<1>6. Homed'
    BY <1>3, <1>5 DEF Safe, Homed
<1>7. ASSUME NEW x \in Alive, x # o
      PROVE  All(x)' = All(x)
    <2>1. Kind(x) = "upval" => upvalue(x)' = upvalue(x)
        <3>1. CASE ~Open(x)
            BY <1>1, <1>5, <1>7, <3>1 DEF upvalue
        <3>2. CASE Open(x)
            <4>1. body[x].at[1] \in Alive /\ Kind(body[x].at[1]) = "thread"
                BY <1>7, <3>2, BodyFacts DEF Safe, Homed, Open
            <4> QED
                BY <1>1, <1>5, <1>7, <3>2, <4>1 DEF upvalue
        <3> QED
            BY <3>1, <3>2
    <2> QED
        BY <1>1, <1>7, <2>1, SameRefs
<1>8. gmt' \in Live \cup {nil}
    BY HandFacts
<1> HIDE DEF Safe
<1> QED
    BY <1>3, <1>4, <1>5, <1>6, <1>7, <1>8 DEF Stores

\* No barrier: nothing is stored in anything black.
LEMMA NoBarrier ==
    ASSUME Safe, NEW A, NEW V, gcstate = "propagate" => \A x \in A : Black(g, x) => Objs \cap V \subseteq Dark(g)
    PROVE  Bars(g, A, V)
BY DEF Bars, Safe, Marked, Marking

\* luaC_barrier keeps the rule for all that is no blacker than its object.
LEMMA BarrierFacts ==
    ASSUME Safe, NEW o \in Alive, NEW v, NEW A, Objs \cap {v} \subseteq Live, v \in Objs => Kind(v) # "upval",
           gcstate = "propagate" => \A x \in A : Black(g, x) => Black(g, o)
    PROVE  Bars(barrier(g, o, v), A, {v})
<1> DEFINE m == barrier(g, o, v)
<1> SUFFICES Bars(m, A, {v})
    OBVIOUS
<1>0. /\ o \in Objs /\ g \in Marks /\ currentwhite \in Whites /\ Live \subseteq Alive /\ HeapOK /\ Homed
      /\ gcstate = "propagate" => Sealed /\ Tri(g, Tmu, {})
    BY AllLive DEF Alive, Live, Safe, Marked, Marking
<1>1. CASE ~(v \in Objs /\ White(g, v) /\ g.color[o] = "black")
    <2>1. gcstate = "propagate" => \A x \in A : Black(g, x) => Objs \cap {v} \subseteq Dark(g)
        BY <1>1 DEF Black, Dark
    <2>2. m = g
        BY <1>1 DEF barrier
    <2> HIDE DEF m
    <2>3. Bars(g, A, {v})
        BY <2>1, NoBarrier
    <2> QED
        BY <2>2, <2>3
<1>2. CASE v \in Objs /\ White(g, v) /\ g.color[o] = "black" /\ gcstate = "propagate"
    <2> DEFINE S == {v}
    <2>1. S \cap Objs \subseteq Alive /\ Sealed /\ Tri(g, Tmu, {}) /\ {} \subseteq S
        BY <1>0, <1>2
    <2>3. m = mark(g, S)
        BY <1>2 DEF barrier
    <2> HIDE DEF S, m, Safe
    <2>4. Tri(mark(g, S), Tmu, {})
        BY <1>0, <2>1, TriMark
    <2>5. LET n == mark(g, S)
              W == New(g, n)
          IN /\ n \in Marks /\ \A x \in Objs \ W : n.color[x] = g.color[x]
             /\ \A x \in W : n.color[x] \in {"gray", "black"}
             /\ Dark(n) = Dark(g) \cup W /\ S \cap Objs \subseteq Dark(n)
        BY <1>0, <2>1, MarkFacts
    <2> DEFINE n == mark(g, S)
               W == New(g, n)
    <2>6. /\ n \in Marks /\ \A x \in Objs \ W : n.color[x] = g.color[x]
          /\ \A x \in W : ~White(n, x)
          /\ Dark(g) \subseteq Dark(n) /\ Objs \cap {v} \subseteq Dark(n)
        BY <2>5 DEF White, Whites, S
    <2> HIDE DEF n, W
    <2>7. m = n /\ Tri(n, Tmu, {})
        BY <2>3, <2>4 DEF n
    <2>8. Alive \subseteq Objs
        BY DEF Alive
    <2> HIDE DEF m
    <2> QED
        BY <1>2, <2>6, <2>7, <2>8 DEF Bars
<1>3. CASE v \in Objs /\ White(g, v) /\ g.color[o] = "black" /\ gcstate # "propagate"
    <2>1. m = [g EXCEPT !.color[o] = currentwhite]
        BY <1>3 DEF barrier
    <2>2. m \in Marks /\ \A x \in Objs : m.color[x] = IF x = o THEN currentwhite ELSE g.color[x]
        BY <1>0, <2>1, Coloured
    <2> QED
        BY <1>3, <2>2 DEF Bars, Black
<1> QED
    BY <1>1, <1>2, <1>3

\* luaC_barriert makes a black table gray again; it may do so twice.
LEMMA BarriertFacts ==
    ASSUME Safe, NEW t \in Alive, Kind(t) = "table", NEW m, NEW V, NEW v, NEW W,
           Bars(m, {t}, V), \A x \in W : x \in V \/ x = v
    PROVE  Bars(barriert(m, t, v), {t}, W)
<1> DEFINE n == barriert(m, t, v)
<1> SUFFICES Bars(n, {t}, W)
    OBVIOUS
<1>0. t \in Objs /\ t \in Alive /\ m \in Marks /\ ~Open(t)
    BY DEF Alive, Bars, Open
<1>1. CASE ~(v \in Objs /\ White(m, v) /\ m.color[t] = "black")
    <2>1. n = m
        BY <1>1 DEF barriert
    <2> HIDE DEF n
    <2>2. Bars(m, {t}, W)
        BY <1>1 DEF Bars, Black, Dark
    <2> QED
        BY <2>1, <2>2
<1>2. CASE v \in Objs /\ White(m, v) /\ m.color[t] = "black"
    <2>1. n = [m EXCEPT !.color[t] = "gray", !.grayagain = @ \cup {t}]
        BY <1>2 DEF barriert
    <2> HIDE DEF n
    <2>2. /\ n \in Marks /\ n.gray = m.gray /\ n.weak = m.weak /\ n.grayagain = m.grayagain \cup {t}
          /\ \A x \in Objs : n.color[x] = IF x = t THEN "gray" ELSE m.color[x]
        <3> DEFINE c == [m.color EXCEPT ![t] = "gray"]
                   again == m.grayagain \cup {t}
        <3>1. c \in [Objs -> Whites \cup {"gray", "black"}] /\ again \in SUBSET Objs
            BY <1>0 DEF Marks
        <3>2. \A x \in Objs : c[x] = IF x = t THEN "gray" ELSE m.color[x]
            BY <1>0 DEF Marks
        <3>3. n = [m EXCEPT !.color = c, !.grayagain = again] /\ again = m.grayagain \cup {t}
            BY <2>1
        <3> HIDE DEF c, again
        <3>4. n \in Marks /\ n.gray = m.gray /\ n.weak = m.weak /\ n.grayagain = again /\ n.color = c
            BY <1>0, <3>1, <3>3 DEF Marks
        <3> QED
            BY <3>2, <3>3, <3>4
    <2>3. /\ \A x \in Objs : /\ Black(n, x) <=> Black(m, x) /\ x # t
                             /\ Gray(n, x) <=> Gray(m, x) \/ x = t
                             /\ White(n, x) <=> White(m, x)
          /\ Black(m, t) /\ ~Gray(m, t)
        BY <1>2, <2>2 DEF Black, Gray, White, Whites
    <2>4. Dark(n) = Dark(m)
        BY <2>3 DEF Dark
    <2>5. ASSUME Tri(m, Tmu, {})
          PROVE  Tri(n, Tmu, {})
        <3>0. Alive \subseteq Objs
            BY DEF Alive
        <3>1. Blacks(n, Tmu, {})
            BY <1>0, <2>3, <2>4, <2>5, <3>0 DEF Tri, Blacks
        <3>2. Grays(n)
            BY <1>0, <2>2, <2>3, <2>5, <3>0 DEF Tri, Grays
        <3>3. Queues(n)
            BY <1>0, <2>2, <2>3, <2>5, <3>0 DEF Tri, Queues
        <3> QED
            BY <3>1, <3>2, <3>3 DEF Tri
    <2>6. gcstate # "propagate" =>
              \A x \in Objs : n.color[x] = g.color[x] \/ (Black(g, x) /\ n.color[x] \in {currentwhite, "gray"})
        <3>1. "black" # currentwhite
            BY DEF Safe, Marked, Whites
        <3> QED
            BY <1>0, <1>2, <2>2, <3>1 DEF Bars, Black
    <2>7. gcstate = "propagate" =>
              \A x \in Alive : n.color[x] = g.color[x] \/ ~White(n, x)
        <3>1. Alive \subseteq Objs /\ ~White(n, t)
            BY <1>0, <2>2 DEF Alive, White, Whites
        <3> QED
            BY <2>2, <2>3, <3>1 DEF Bars
    <2>8. ~Black(n, t)
        BY <1>0, <2>3
    <2> HIDE DEF Safe
    <2> QED
        BY <2>2, <2>4, <2>5, <2>6, <2>7, <2>8 DEF Bars
<1> QED
    BY <1>1, <1>2

\* The entries of a table are a set of pairs, and refer to these.
LEMMA EntriesFacts ==
    ASSUME Safe, NEW t \in Of("table"), NEW E, NEW k \in Values \cup {Plain}, NEW v \in Values \cup {Plain},
           E \subseteq body[t].entries \cup ({<<k, v>>} \ {<<k, nil>>, <<nil, v>>})
    PROVE  LET b == [body[t] EXCEPT !.entries = E]
           IN /\ b \in Bodies(pool, "table", Objs) /\ b.entries = E /\ b.mt = body[t].mt
              /\ Objs \cap UNION {{e[1], e[2]} : e \in E} \subseteq All(t) \cup (Objs \cap {k, v})
<1> DEFINE values == {o \in Objs : pool[o].kind # "upval"}
           cells  == values \cup {Plain}
           tables == {o \in Objs : pool[o].kind = "table"}
           b == [body[t] EXCEPT !.entries = E]
<1>1. body[t] \in [entries : SUBSET (cells \X cells), mt : tables \cup {nil}]
    BY DEF Safe, HeapOK, Of, Bodies, Kind
<1>2. k \in cells \cup {nil} /\ v \in cells \cup {nil} /\ nil \notin cells
    BY ObjsAssumption DEF Values, Kind
<1>3. Objs \cap UNION {{e[1], e[2]} : e \in body[t].entries} \subseteq All(t)
    BY StrongFacts DEF Safe, Of
<1>4. Bodies(pool, "table", Objs) = [entries : SUBSET (cells \X cells), mt : tables \cup {nil}]
    BY DEF Bodies
<1> SUFFICES /\ b \in Bodies(pool, "table", Objs) /\ b.entries = E /\ b.mt = body[t].mt
             /\ Objs \cap UNION {{e[1], e[2]} : e \in E} \subseteq All(t) \cup (Objs \cap {k, v})
    OBVIOUS
<1> HIDE DEF tables, cells, values, b
<1>5. E \subseteq cells \X cells
    BY <1>1, <1>2
<1>6. b \in [entries : SUBSET (cells \X cells), mt : tables \cup {nil}] /\ b.entries = E /\ b.mt = body[t].mt
    BY <1>1, <1>5 DEF b
<1>7. ASSUME NEW e \in E, NEW x \in Objs, x \in {e[1], e[2]}
      PROVE  x \in All(t) \cup (Objs \cap {k, v})
    <2>1. CASE e \in body[t].entries
        BY <1>3, <1>7, <2>1
    <2>2. CASE e = <<k, v>>
        BY <1>7, <2>2
    <2> QED
        BY <2>1, <2>2
<1> QED
    BY <1>4, <1>6, <1>7

\* The barriers of luaV_settable keep the invariant, for a new key and a value.
LEMMA SettableSafe ==
    ASSUME Safe, NEW t \in Hands("table"), NEW k, NEW v, <<k, v>> \in Entries, settable(t, k, v)
    PROVE  Safe'
<1> DEFINE rest == {e \in body[t].entries : e[1] # k}
           E == IF v = nil THEN rest ELSE rest \cup {<<k, v>>}
           m1 == IF rest = body[t].entries THEN barriert(g, t, k) ELSE g
           V == IF rest = body[t].entries THEN {k, v} ELSE {v}
<1>0. /\ t \in Live /\ t \in Of("table") /\ t \in Alive /\ t \in Objs /\ Kind(t) = "table" /\ ~Open(t)
      /\ Live \subseteq Objs
    BY HandFacts DEF Live, Alive, Of, Open
<1>1. /\ body' = [body EXCEPT ![t].entries = E] /\ g' = barriert(m1, t, v)
      /\ pool' = pool /\ UNCHANGED <<gmt, fin, phase, lists>>
    BY DEF settable
<1>2. /\ k \in Live \cup {Plain} /\ v \in Live \cup {Plain, nil}
      /\ k \in Values \cup {Plain} /\ v \in Values \cup {Plain} /\ Plain \notin Objs /\ nil \notin Objs
      /\ k # nil
    BY <1>0, HandFacts, ObjsAssumption DEF Entries, Values
<1> DEFINE b == [body[t] EXCEPT !.entries = E]
<1>3. E \subseteq body[t].entries \cup ({<<k, v>>} \ {<<k, nil>>, <<nil, v>>})
    BY <1>2
<1>4. body' = [body EXCEPT ![t] = b]
    BY <1>1
<1> HIDE DEF E
<1>5. /\ b \in Bodies(pool, "table", Objs) /\ b.entries = E /\ b.mt = body[t].mt
      /\ Objs \cap UNION {{e[1], e[2]} : e \in E} \subseteq All(t) \cup (Objs \cap {k, v})
    BY <1>0, <1>2, <1>3, EntriesFacts
<1> HIDE DEF b
<1>6. All(t)' \subseteq All(t) \cup (Objs \cap V)
    <2>1. All(t) = Objs \cap ({body[t].mt} \cup UNION {{e[1], e[2]} : e \in body[t].entries})
        BY <1>0, StrongFacts DEF Safe
    <2>2. All(t)' \subseteq Objs \cap ({body'[t].mt} \cup UNION {{e[1], e[2]} : e \in body'[t].entries})
        <3>1. Kind(t)' = "table"
            BY <1>0, <1>1 DEF Kind
        <3> QED
            BY <3>1 DEF All, Strong, Weak
    <2>3. body'[t] = b
        BY <1>0, <1>4 DEF Safe, HeapOK
    <2>4. All(t)' \subseteq All(t) \cup (Objs \cap {k, v})
        BY <1>5, <2>1, <2>2, <2>3
    <2>5. CASE rest = body[t].entries
        BY <2>4, <2>5
    <2>6. CASE rest # body[t].entries
        <3>1. PICK e \in body[t].entries : e[1] = k
            BY <2>6
        <3>2. k \in All(t) \/ k \notin Objs
            BY <2>1, <3>1
        <3> QED
            BY <2>4, <2>6, <3>2
    <2> QED
        BY <2>5, <2>6
<1>7. Objs \cap V \subseteq Live
    BY <1>2
<1>8. Stores({t}, V)
    <2>1. Kind(t) # "thread" /\ Kind(t) # "upval" /\ Kind(t) # "function"
        BY <1>0
    <2> HIDE DEF V, Safe
    <2> QED
        BY <1>0, <1>1, <1>4, <1>5, <1>6, <1>7, <2>1, StoreOne
<1>9. Bars(g', {t}, V)
    <2>1. Bars(g, {t}, {})
        BY NoBarrier
    <2>2. CASE rest = body[t].entries
        <3>1. Bars(m1, {t}, {k})
            <4>1. Bars(barriert(g, t, k), {t}, {k})
                <5>1. \A x \in {k} : x \in {} \/ x = k
                    OBVIOUS
                <5> QED
                    BY <1>0, <2>1, <5>1, BarriertFacts
            <4> QED
                BY <2>2, <4>1
        <3>2. \A x \in V : x \in {k} \/ x = v
            BY <2>2
        <3> HIDE DEF m1, V
        <3>3. Bars(barriert(m1, t, v), {t}, V)
            BY <1>0, <3>1, <3>2, BarriertFacts
        <3> QED
            BY <1>1, <3>3
    <2>3. CASE rest # body[t].entries
        <3>1. m1 = g /\ \A x \in V : x \in {} \/ x = v
            BY <2>3
        <3> HIDE DEF m1, V
        <3>2. Bars(barriert(g, t, v), {t}, V)
            BY <1>0, <2>1, <3>1, BarriertFacts
        <3> QED
            BY <1>1, <3>1, <3>2
    <2> QED
        BY <2>2, <2>3
<1> HIDE DEF V
<1> QED
    BY <1>8, <1>9, StoreStep

\* So do those of lua_setmetatable, which differ for tables and userdata.
LEMMA SetmetatableSafe ==
    ASSUME Safe, NEW o \in InHand, NEW m \in {h \in InHand : pool[h].meta # {}} \cup {nil}, lua_setmetatable(o, m)
    PROVE  Safe'
<1> DEFINE b == [body[o] EXCEPT !.mt = m]
           V == {m}
<1>0. /\ o \in Live /\ o \in Alive /\ o \in Objs /\ Kind(o) \in {"table", "userdata"} /\ ~Open(o)
      /\ Live \subseteq Objs /\ nil \notin Objs
    BY HandFacts, ObjsAssumption DEF Live, Alive, Open, lua_setmetatable
<1>1. /\ body' = [body EXCEPT ![o] = b] /\ pool' = pool /\ UNCHANGED <<gmt, fin, phase, lists>>
      /\ \/ Kind(o) = "table" /\ g' = barriert(g, o, m)
         \/ Kind(o) = "userdata" /\ g' = barrier(g, o, m)
    BY DEF lua_setmetatable
<1>2. m \in Live \cup {nil} /\ (m \in Objs => Kind(m) = "table")
    <2>1. CASE m = nil
        BY <1>0, <2>1
    <2>2. CASE m \in InHand /\ pool[m].meta # {}
        BY <1>0, <2>2, HandFacts, PoolFacts DEF Safe, HeapOK
    <2> QED
        BY <2>1, <2>2
<1>3. b \in Bodies(pool, Kind(o), Objs) /\ b.mt = m /\ (Kind(o) = "table" => b.entries = body[o].entries)
    <2>1. body[o] \in Bodies(pool, Kind(o), Objs)
        BY <1>0 DEF Safe, HeapOK
    <2>2. m \in {x \in Objs : pool[x].kind = "table"} \cup {nil}
        BY <1>0, <1>2 DEF Kind
    <2>3. CASE Kind(o) = "table"
        BY <2>1, <2>2, <2>3 DEF Bodies
    <2>4. CASE Kind(o) = "userdata"
        BY <2>1, <2>2, <2>4 DEF Bodies
    <2> QED
        BY <1>0, <2>3, <2>4
<1> HIDE DEF b
<1>4. All(o)' \subseteq All(o) \cup (Objs \cap V)
    <2>1. body'[o] = b /\ Kind(o)' = Kind(o)
        BY <1>0, <1>1 DEF Safe, HeapOK, Kind
    <2>2. CASE Kind(o) = "table"
        <3>1. All(o) = Objs \cap ({body[o].mt} \cup UNION {{e[1], e[2]} : e \in body[o].entries})
            BY <1>0, <2>2, StrongFacts DEF Safe
        <3>2. All(o)' \subseteq Objs \cap ({body'[o].mt} \cup UNION {{e[1], e[2]} : e \in body'[o].entries})
            BY <2>1, <2>2 DEF All, Strong, Weak
        <3> QED
            BY <1>3, <2>1, <2>2, <3>1, <3>2
    <2>3. CASE Kind(o) = "userdata"
        BY <1>3, <2>1, <2>3 DEF All, Strong, Weak
    <2> QED
        BY <1>0, <2>2, <2>3
<1>5. Objs \cap V \subseteq Live
    BY <1>0, <1>2
<1>6. Stores({o}, V)
    <2>1. Kind(o) # "thread" /\ Kind(o) # "upval" /\ Kind(o) # "function"
        BY <1>0
    <2> HIDE DEF V, Safe
    <2> QED
        BY <1>0, <1>1, <1>3, <1>4, <1>5, <2>1, StoreOne
<1>7. Bars(g', {o}, V)
    <2>1. CASE Kind(o) = "table" /\ g' = barriert(g, o, m)
        <3>1. Bars(g, {o}, {})
            BY NoBarrier
        <3>2. \A x \in V : x \in {} \/ x = m
            OBVIOUS
        <3> HIDE DEF V
        <3> QED
            BY <1>0, <2>1, <3>1, <3>2, BarriertFacts
    <2>2. CASE Kind(o) = "userdata" /\ g' = barrier(g, o, m)
        <3>1. m \in Objs => Kind(m) # "upval"
            BY <1>2
        <3>2. \A x \in {o} : Black(g, x) => Black(g, o)
            OBVIOUS
        <3>3. Bars(barrier(g, o, m), {o}, {m})
            BY <1>0, <1>5, <3>1, <3>2, BarrierFacts
        <3> QED
            BY <2>2, <3>3
    <2> QED
        BY <1>1, <2>1, <2>2
<1> HIDE DEF V
<1> QED
    BY <1>6, <1>7, StoreStep

\* The metatable of a basic type is a root, and needs no barrier.
LEMMA SetmetatableBasicSafe ==
    ASSUME Safe, NEW m \in {h \in InHand : pool[h].meta # {}}, setmetatable_basic(m)
    PROVE  Safe'
<1>1. m \in Live /\ Kind(m) = "table" /\ Live \subseteq Alive /\ Live \subseteq Objs /\ Alive \subseteq Objs
    BY HandFacts, PoolFacts DEF Safe, HeapOK, Live, Alive
<1>2. gmt' = m /\ UNCHANGED <<pool, body, fin, g, phase, lists>>
    BY DEF setmetatable_basic
<1>3. Alive' = Alive /\ \A x : Kind(x)' = Kind(x) /\ Open(x)' = Open(x)
    BY <1>2 DEF Alive, Kind, Open, Closed
<1>4. \A x \in Alive : All(x)' = All(x)
    <2>1. ASSUME NEW x \in Alive
          PROVE  All(x)' = All(x)
        <3>1. upvalue(x)' = upvalue(x)
            BY <1>2, <1>3 DEF upvalue
        <3> QED
            BY <1>1, <1>2, <3>1, SameRefs
    <2> QED
        BY <2>1
<1>5. HeapOK' /\ Homed'
    BY <1>1, <1>2, <1>3 DEF Safe, HeapOK, Homed, Of
<1>6. Stores({}, {})
    <2> HIDE DEF Safe
    <2> QED
        BY <1>1, <1>2, <1>3, <1>4, <1>5 DEF Stores
<1>7. Bars(g, {}, {})
    BY NoBarrier
<1>8. g' = g
    BY <1>2
<1> QED
    BY <1>6, <1>7, <1>8, StoreStep

\* What a closed upvalue, or the stack of an open one, holds now.
LEMMA SetUpFacts ==
    ASSUME Safe, NEW u \in Of("upval"), NEW v \in InHand, SetUp(u, v),
           pool' = pool, UNCHANGED <<gmt, fin, phase, lists>>
    PROVE  Stores(IF Open(u) THEN {} ELSE {u}, {v})
<1>0. /\ u \in Alive /\ u \in Objs /\ Kind(u) = "upval" /\ DOMAIN body = Objs
      /\ v \in Live /\ v \in Objs /\ Kind(v) # "upval" /\ v \in Values /\ Alive \subseteq Objs
    BY HandFacts DEF Of, Alive, Live, Safe, HeapOK, Values
<1>1. CASE Open(u)
    <2> DEFINE th == body[u].at[1]
               s == body[u].at[2]
    <2>1. th \in Alive /\ th \in Objs /\ Kind(th) = "thread" /\ s \in Slots
        BY <1>0, <1>1, BodyFacts DEF Safe, Homed
    <2>2. body' = [body EXCEPT ![th].stack[s] = v]
        BY <1>1 DEF SetUp
    <2> HIDE DEF th, s
    <2>3. HeapPut(th, s, v, {})
        <3>1. DOMAIN body' = Objs /\ body'[th] = [body[th] EXCEPT !.stack[s] = v]
            BY <1>0, <2>1, <2>2
        <3>2. \A x \in Objs \ ({} \cup {th}) : body'[x] = body[x]
            BY <1>0, <2>2
        <3> HIDE DEF Safe
        <3> QED
            BY <1>0, <2>1, <3>1, <3>2 DEF HeapPut
    <2>4. /\ HeapOK' /\ Homed' /\ Alive' = Alive
          /\ \A x \in Objs : Open(x)' = Open(x)
          /\ \A x \in Alive : /\ All(x)' \subseteq All(x) \cup (Objs \cap {v})
                              /\ Kind(x) # "thread" /\ ~Open(x) => All(x)' = All(x)
        <3> DEFINE F == {}
        <3>1. HeapPut(th, s, v, F) /\ Alive \cup F = Alive /\ Objs \ F = Objs /\ Alive \ F = Alive
            BY <2>3
        <3> HIDE DEF F
        <3> QED
            BY <3>1, PutFacts
    <2>5. \A x \in Alive : Open(x) => body'[x].at = body[x].at
        <3>1. \A x \in Alive : Open(x) => x # th
            BY <2>1 DEF Open
        <3> QED
            BY <1>0, <2>2, <3>1
    <2>6. gmt' \in Live \cup {nil}
        BY HandFacts
    <2>7. Stores({}, {v})
        <3> HIDE DEF Safe
        <3> QED
            BY <1>0, <2>4, <2>5, <2>6 DEF Stores
    <2> QED
        BY <1>1, <2>7
<1>2. CASE ~Open(u)
    <2> DEFINE b == [body[u] EXCEPT !.v = v]
    <2>1. body' = [body EXCEPT ![u] = b]
        BY <1>2 DEF SetUp
    <2>2. b \in Bodies(pool, "upval", Objs) /\ b.at = Closed /\ b.v = v
        <3>1. body[u] \in Bodies(pool, "upval", Objs) /\ body[u].at = Closed
            BY <1>0, <1>2 DEF Safe, HeapOK, Open
        <3>2. v \in {o \in Objs : pool[o].kind # "upval"}
            BY <1>0 DEF Kind
        <3> QED
            BY <3>1, <3>2 DEF Bodies
    <2> HIDE DEF b
    <2>3. All(u)' \subseteq All(u) \cup (Objs \cap {v})
        <3>1. body'[u] = b /\ Kind(u)' = "upval"
            BY <1>0, <2>1 DEF Kind
        <3>2. upvalue(u)' = v
            BY <2>2, <3>1 DEF upvalue, Open
        <3> QED
            BY <3>1, <3>2 DEF All, Strong, Weak
    <2>4. Stores({u}, {v})
        <3>1. Objs \cap {v} \subseteq Live /\ Kind(u) # "thread" /\ Kind(u) # "function"
            BY <1>0
        <3> HIDE DEF Safe
        <3> QED
            BY <1>0, <1>2, <2>1, <2>2, <2>3, <3>1, StoreOne
    <2> QED
        BY <1>2, <2>4
<1> QED
    BY <1>1, <1>2

\* The barrier of OP_SETUPVAL is about the upvalue that gets the value.
LEMMA OpSetupvalSafe ==
    ASSUME Safe, NEW c \in Hands("function"), NEW v \in InHand, op_setupval(c, v)
    PROVE  Safe'
<1> DEFINE u == body[c].up
           A == IF Open(u) THEN {} ELSE {u}
<1>1. /\ u \in Of("upval") /\ SetUp(u, v) /\ g' = barrier(g, u, v)
      /\ pool' = pool /\ UNCHANGED <<gmt, fin, phase, lists>>
    BY DEF op_setupval
<1>2. u \in Alive /\ Objs \cap {v} \subseteq Live /\ (v \in Objs => Kind(v) # "upval")
    BY <1>1, HandFacts DEF Of
<1> HIDE DEF u
<1>3. Stores(A, {v})
    BY <1>1, SetUpFacts
<1>4. \A x \in A : Black(g, x) => Black(g, u)
    OBVIOUS
<1> HIDE DEF A
<1>5. Bars(barrier(g, u, v), A, {v})
    BY <1>2, <1>4, BarrierFacts
<1> QED
    BY <1>1, <1>3, <1>5, StoreStep

\* The barrier of lua_setupvalue is about the closure: it is enough unless it
\* leaves a white value in a black upvalue.
LEMMA SetupvalueSafe ==
    ASSUME Safe, ~missed', NEW c \in Hands("function"), NEW v \in InHand, lua_setupvalue(c, v)
    PROVE  Safe'
<1> DEFINE u == body[c].up
<1>0. c \in Live /\ c \in Alive /\ c \in Objs /\ Kind(c) = "function"
    BY HandFacts DEF Live, Alive
<1>1. v \in Live /\ v \in Objs /\ Objs \cap {v} \subseteq Live /\ Kind(v) # "upval"
    BY HandFacts DEF Live, Alive
<1>2. /\ \/ u \in Of("upval") /\ SetUp(u, v)
         \/ u \notin Of("upval") /\ body' = [body EXCEPT ![c].up = v]
      /\ g' = barrier(g, c, v) /\ pool' = pool /\ UNCHANGED <<gmt, fin, phase, lists>>
      /\ gcstate = "propagate" /\ u \in Of("upval") => ~(g'.color[u] = "black" /\ White(g', v))
    BY DEF lua_setupvalue
<1>3. CASE u \in Of("upval") /\ SetUp(u, v)
    <2> DEFINE A == IF Open(u) THEN {} ELSE {u}
    <2>1. Stores(A, {v})
        <3> HIDE DEF u
        <3> QED
            BY <1>2, <1>3, SetUpFacts
    <2>2. \A x \in A : x = u
        OBVIOUS
    <2> HIDE DEF A, u
    <2>3. CASE gcstate = "propagate" => \A x \in A : Black(g, x) => Black(g, c)
        <3>1. Bars(barrier(g, c, v), A, {v})
            BY <1>0, <1>1, <2>3, BarrierFacts
        <3> QED
            BY <1>2, <2>1, <3>1, StoreStep
    <2>4. CASE gcstate = "propagate" /\ Black(g, u) /\ ~Black(g, c)
        <3>1. g' = g
            BY <1>2, <2>4 DEF barrier, Black
        <3>2. Objs \cap {v} \subseteq Dark(g)
            BY <1>1, <1>2, <1>3, <2>4, <3>1 DEF Black, Dark
        <3>3. Bars(g, A, {v})
            BY <3>2, NoBarrier
        <3> QED
            BY <2>1, <3>1, <3>3, StoreStep
    <2> QED
        BY <2>2, <2>3, <2>4
<1>4. CASE u \notin Of("upval") /\ body' = [body EXCEPT ![c].up = v]
    <2> DEFINE b == [body[c] EXCEPT !.up = v]
    <2>1. body' = [body EXCEPT ![c] = b]
        BY <1>4
    <2>2. b \in Bodies(pool, "function", Objs) /\ b.up = v
        <3>1. body[c] \in Bodies(pool, "function", Objs)
            BY <1>0 DEF Safe, HeapOK
        <3> QED
            BY <1>1, <3>1 DEF Bodies
    <2> HIDE DEF b
    <2>3. All(c)' \subseteq All(c) \cup (Objs \cap {v})
        <3>1. body'[c] = b /\ Kind(c)' = "function"
            BY <1>0, <1>2, <2>1 DEF Kind, Safe, HeapOK
        <3> QED
            BY <2>2, <3>1 DEF All, Strong, Weak
    <2>4. Stores({c}, {v})
        <3>1. Kind(c) # "thread" /\ Kind(c) # "upval" /\ ~Open(c)
            BY <1>0 DEF Open
        <3> HIDE DEF Safe
        <3> QED
            BY <1>0, <1>1, <1>2, <1>4, <2>1, <2>2, <2>3, <3>1, StoreOne
    <2>5. \A x \in {c} : Black(g, x) => Black(g, c)
        OBVIOUS
    <2>6. Bars(barrier(g, c, v), {c}, {v})
        BY <1>0, <1>1, <2>5, BarrierFacts
    <2> QED
        BY <1>2, <2>4, <2>6, StoreStep
<1> QED
    BY <1>2, <1>3, <1>4

-----------------------------------------------------------------------------
(* Closing upvalues *)

\* What is marked depends on what is white, not on the other colours.
LEMMA MarkAlike ==
    ASSUME NEW m \in Marks, NEW n \in Marks, NEW S,
           \A x \in Objs : White(m, x) <=> White(n, x),
           \A x \in Objs : White(m, x) => n.color[x] = m.color[x],
           n.gray = m.gray, n.grayagain = m.grayagain, n.weak = m.weak
    PROVE  LET p == mark(m, S)
               q == mark(n, S)
           IN /\ q.gray = p.gray /\ q.grayagain = p.grayagain /\ q.weak = p.weak
              /\ \A x \in Objs : q.color[x] = IF White(m, x) THEN p.color[x] ELSE n.color[x]
<1> DEFINE W0(k) == {o \in S \cap Objs : White(k, o)}
           W1(k) == W0(k) \cup {v \in {upvalue(u) : u \in {o \in W0(k) : Kind(o) = "upval"}} \cap Objs : White(k, v)}
           W2(k) == W1(k) \cup {v \in {body[u].mt : u \in {o \in W1(k) : Kind(o) = "userdata"}} \cap Objs : White(k, v)}
           black(k) == {o \in W2(k) : Kind(o) = "userdata" \/ (Kind(o) = "upval" /\ ~Open(o))}
           more(k) == {o \in W2(k) : Kind(o) \in {"table", "function", "thread"}}
           col(k) == [o \in Objs |-> IF o \in black(k) THEN "black" ELSE IF o \in W2(k) THEN "gray" ELSE k.color[o]]
<1>1. W0(n) = W0(m)
    OBVIOUS
<1> HIDE DEF W0
<1>2. W1(n) = W1(m)
    BY <1>1
<1> HIDE DEF W1
<1>3. W2(n) = W2(m)
    BY <1>2
<1>4. \A x \in W2(m) : White(m, x) /\ x \in Objs
    BY DEF W1, W0
<1> HIDE DEF W2
<1>5. black(n) = black(m) /\ more(n) = more(m) /\ black(m) \subseteq W2(m)
    BY <1>3
<1>6. /\ mark(m, S) = [m EXCEPT !.color = col(m), !.gray = m.gray \cup more(m)]
      /\ mark(n, S) = [n EXCEPT !.color = col(n), !.gray = n.gray \cup more(n)]
    BY DEF mark, W2, W1, W0
<1> HIDE DEF black, more
<1>7. \A x \in Objs : col(n)[x] = IF White(m, x) THEN col(m)[x] ELSE n.color[x]
    BY <1>3, <1>4, <1>5
<1> HIDE DEF col
<1>8. /\ mark(m, S).color = col(m) /\ mark(m, S).gray = m.gray \cup more(m)
      /\ mark(m, S).grayagain = m.grayagain /\ mark(m, S).weak = m.weak
    BY <1>6 DEF Marks
<1>9. /\ mark(n, S).color = col(n) /\ mark(n, S).gray = n.gray \cup more(n)
      /\ mark(n, S).grayagain = n.grayagain /\ mark(n, S).weak = n.weak
    BY <1>6 DEF Marks
<1> QED
    BY <1>5, <1>7, <1>8, <1>9

\* What an upvalue refers to, open or closed.
LEMMA UpvalueFacts ==
    ASSUME Safe, NEW u \in Of("upval")
    PROVE  /\ upvalue(u) \in Values /\ All(u) = Objs \cap {upvalue(u)}
           /\ u \in Live => upvalue(u) \in Live \cup {nil}
           /\ Open(u) => body[u].at[1] \in Alive /\ Kind(body[u].at[1]) = "thread" /\ body[u].at[2] \in Slots
<1>1. u \in Alive /\ Kind(u) = "upval" /\ u \in Objs
    BY DEF Of, Alive
<1>2. /\ body[u].v \in Objs \cup {nil} /\ (body[u].v # nil => Kind(body[u].v) # "upval")
      /\ Open(u) => body[u].at[1] \in Objs /\ body[u].at[2] \in Slots /\ Kind(body[u].at[1]) = "thread"
    BY <1>1, BodyFacts DEF Safe
<1>3. Open(u) => body[u].at[1] \in Alive
    BY <1>1 DEF Safe, Homed
<1>4. Open(u) => LET w == body[body[u].at[1]].stack[body[u].at[2]]
                 IN w \in Objs \cup {nil} /\ (w # nil => Kind(w) # "upval")
    BY <1>2, <1>3, BodyFacts DEF Safe
<1>5. upvalue(u) \in Values
    BY <1>2, <1>4 DEF upvalue, Values
<1>6. All(u) = Objs \cap {upvalue(u)}
    BY <1>1 DEF All, Strong, Weak
<1>7. u \in Live => upvalue(u) \in Live \cup {nil}
    BY <1>5, <1>6 DEF Values, Safe, LiveClosed
<1> QED
    BY <1>2, <1>3, <1>5, <1>6, <1>7

\* luaF_close gives live upvalues the colour that closed ones have in each phase,
\* and frees those the sweep has not come to.
LEMMA CloseSafe ==
    ASSUME Safe, NEW th \in Running, NEW level \in Slots, luaF_close(th, level)
    PROVE  Safe'
<1> DEFINE closing == {u \in OpenOn(th) : body[u].at[2] >= level}
           live    == {u \in closing : ~isdead(u)}
           gray    == {u \in live : g.color[u] = "gray"}
           S       == {upvalue(u) : u \in gray}
           shut(u) == [at |-> Closed, v |-> upvalue(u)]
           g1      == [g EXCEPT !.color = [u \in Objs |-> IF u \in gray THEN "black" ELSE @[u]]]
           g2      == [g EXCEPT !.color = [u \in Objs |-> IF u \in gray THEN currentwhite ELSE @[u]]]
<1>1. /\ body' = [u \in Objs |-> IF u \notin closing THEN body[u]
                                 ELSE IF u \in live THEN shut(u) ELSE nil]
      /\ g' = IF gcstate = "propagate" THEN mark(g1, S) ELSE g2
      /\ rootgc' = SetToSeq(live) \o rootgc
      /\ UNCHANGED <<pool, gmt, fin, phase, sweepgc, tmudata, finalized, called>>
    BY DEF luaF_close
<1>2. /\ \A u \in closing : u \in Of("upval") /\ u \in Alive /\ u \in Objs /\ Kind(u) = "upval" /\ Open(u)
      /\ live \subseteq closing /\ gray \subseteq live /\ closing \subseteq Objs
      /\ \A u \in closing : u \in live <=> u \in Live
      /\ \A u \in gray : g.color[u] = "gray"
      /\ \A u \in live \ gray : g.color[u] # "gray"
    BY DEF OpenOn, Of, Alive, Live
<1>3. /\ Alive \subseteq Objs /\ Live \subseteq Alive /\ nil \notin Objs /\ \A x : Kind(x)' = Kind(x)
      /\ currentwhite \in Whites /\ otherwhite # currentwhite /\ g \in Marks
      /\ \A x \in Alive \ Live : g.color[x] = otherwhite
      /\ \A x \in Live : g.color[x] # otherwhite
    BY <1>1, ObjsAssumption DEF Alive, Kind, Safe, Marked, otherwhite, Whites, Live, isdead
<1>4. /\ DOMAIN body' = Objs /\ \A x \in Objs \ closing : body'[x] = body[x]
      /\ \A x \in live : body'[x] = shut(x)
      /\ \A x \in closing \ live : body'[x] = nil
    BY <1>1, <1>2
<1>5. \A u \in live : /\ shut(u) \in Bodies(pool, "upval", Objs) /\ shut(u) # nil
                      /\ shut(u).at = Closed /\ shut(u).v = upvalue(u)
    <2>1. \A u \in live : upvalue(u) \in Values
        BY <1>2, UpvalueFacts
    <2>2. ASSUME NEW u \in live
          PROVE  shut(u) \in Bodies(pool, "upval", Objs)
        <3>1. upvalue(u) \in {o \in Objs : pool[o].kind # "upval"} \cup {nil}
            BY <2>1 DEF Values, Kind
        <3> QED
            BY <3>1 DEF Bodies, Closed
    <2>3. nil \notin Bodies(pool, "upval", Objs)
        BY PoolFacts DEF Kinds, Safe, HeapOK
    <2> QED
        BY <2>2, <2>3
<1> HIDE DEF closing, live, gray, S, g1, g2, shut
<1>6. Alive' = Alive \ (closing \ live)
    BY <1>2, <1>3, <1>4, <1>5 DEF Alive
<1>7. /\ \A x \in Alive' : Open(x)' <=> Open(x) /\ x \notin closing
      /\ \A x \in Alive' \ closing : body'[x] = body[x]
    BY <1>2, <1>3, <1>4, <1>5, <1>6 DEF Open, Closed
<1>8. HeapOK' /\ Homed'
    <2>1. \A x \in Alive' : body'[x] \in Bodies(pool', Kind(x)', Objs)
        BY <1>1, <1>2, <1>3, <1>4, <1>5, <1>6 DEF Safe, HeapOK
    <2>2. /\ gmt' \in (Of("table") \cup {nil})' /\ {Main, Registry} \subseteq Alive'
          /\ fin' \in Seq(Objs) /\ Range(fin') \subseteq Of("userdata")'
        BY <1>1, <1>2, <1>3, <1>6, PoolFacts DEF Safe, HeapOK, Of
    <2>3. HeapOK'
        BY <1>1, <1>4, <2>1, <2>2 DEF Safe, HeapOK
    <2>4. ASSUME NEW u \in Alive', Open(u)'
          PROVE  body'[u].at[1] \in Alive'
        <3>1. u \in Of("upval") /\ Open(u) /\ body'[u] = body[u]
            BY <1>3, <1>6, <1>7, <2>4 DEF Of, Open
        <3>2. body[u].at[1] \in Alive /\ Kind(body[u].at[1]) = "thread"
            BY <3>1, UpvalueFacts
        <3> QED
            BY <1>2, <1>6, <3>1, <3>2
    <2> QED
        BY <2>3, <2>4 DEF Homed
<1>9. ASSUME NEW x \in Alive'
      PROVE  All(x)' = All(x)
    <2>1. x \in Objs /\ x \in Alive
        BY <1>3, <1>6
    <2>2. CASE x \notin closing
        <3>1. Kind(x) = "upval" => upvalue(x)' = upvalue(x)
            <4>1. CASE ~Open(x)
                BY <1>4, <1>7, <2>1, <2>2, <4>1 DEF upvalue
            <4>2. CASE Open(x)
                <5>1. body[x].at[1] \in Alive /\ Kind(body[x].at[1]) = "thread" /\ body[x].at[1] \in Objs
                    BY <1>3, <2>1, <4>2, UpvalueFacts DEF Of, Open
                <5> QED
                    BY <1>2, <1>4, <1>7, <2>1, <2>2, <4>2, <5>1 DEF upvalue
            <4> QED
                BY <4>1, <4>2
        <3> QED
            BY <1>1, <1>4, <2>1, <2>2, <3>1, SameRefs
    <2>3. CASE x \in closing
        <3>1. x \in live /\ x \in Of("upval") /\ Kind(x) = "upval"
            BY <1>2, <1>6, <2>3
        <3>2. upvalue(x)' = upvalue(x) /\ Kind(x)' = "upval"
            <4>1. body'[x].v = upvalue(x) /\ ~Open(x)'
                BY <1>4, <1>5, <1>7, <2>3, <3>1
            <4> QED
                BY <1>3, <3>1, <4>1 DEF upvalue
        <3>3. All(x) = Objs \cap {upvalue(x)}
            BY <3>1, UpvalueFacts
        <3>4. All(x)' = Objs \cap {upvalue(x)'}
            BY <3>2 DEF All, Strong, Weak
        <3> QED
            BY <3>2, <3>3, <3>4
    <2> QED
        BY <2>2, <2>3
<1>10. rootgc' \in Seq(Objs) /\ IsInjective(rootgc') /\ Range(rootgc') = (Listed \ Tmu)'
    <2>1. IsFiniteSet(live) /\ live \subseteq Objs
        BY <1>2, ObjsAssumption, FS_Subset
    <2>2. SetToSeq(live) \in Seq(live) /\ Range(SetToSeq(live)) = live /\ IsInjective(SetToSeq(live))
        BY <2>1, SetToSeqFacts
    <2> DEFINE s == SetToSeq(live)
    <2>3. s \in Seq(Objs)
        BY <2>1, <2>2
    <2>4. rootgc \in Seq(Objs) /\ IsInjective(rootgc) /\ Range(rootgc) = Listed \ Tmu
        BY DEF Safe, ListsOK, Tmu
    <2>5. Range(s) \cap Range(rootgc) = {}
        BY <1>2, <2>2, <2>4 DEF Listed
    <2> HIDE DEF s
    <2>6. s \o rootgc \in Seq(Objs) /\ Range(s \o rootgc) = Range(s) \cup Range(rootgc) /\ IsInjective(s \o rootgc)
        BY <2>2, <2>3, <2>4, <2>5, ConcatFacts DEF s
    <2>7. Listed' = Listed \cup live
        BY <1>2, <1>3, <1>6, <1>7 DEF Listed
    <2>8. Tmu' = Tmu /\ Tmu \cap live = {}
        BY <1>1, <1>2 DEF Tmu, Safe, Sweeping, Of
    <2> QED
        BY <1>1, <2>2, <2>4, <2>6, <2>7, <2>8 DEF s
<1>11. /\ g1 \in Marks /\ g1.gray = g.gray /\ g1.grayagain = g.grayagain /\ g1.weak = g.weak
       /\ \A x \in Objs : g1.color[x] = IF x \in gray THEN "black" ELSE g.color[x]
       /\ g2 \in Marks
       /\ \A x \in Objs : g2.color[x] = IF x \in gray THEN currentwhite ELSE g.color[x]
    <2> DEFINE c1 == [u \in Objs |-> IF u \in gray THEN "black" ELSE g.color[u]]
               c2 == [u \in Objs |-> IF u \in gray THEN currentwhite ELSE g.color[u]]
    <2>1. c1 \in [Objs -> Whites \cup {"gray", "black"}] /\ c2 \in [Objs -> Whites \cup {"gray", "black"}]
        BY <1>3 DEF Marks
    <2>2. /\ \A x \in Objs : c1[x] = IF x \in gray THEN "black" ELSE g.color[x]
          /\ \A x \in Objs : c2[x] = IF x \in gray THEN currentwhite ELSE g.color[x]
        OBVIOUS
    <2>3. g1 = [g EXCEPT !.color = c1] /\ g2 = [g EXCEPT !.color = c2]
        BY DEF g1, g2
    <2> HIDE DEF c1, c2
    <2>4. /\ g1 \in Marks /\ g1.gray = g.gray /\ g1.grayagain = g.grayagain /\ g1.weak = g.weak /\ g1.color = c1
          /\ g2 \in Marks /\ g2.color = c2
        BY <1>3, <2>1, <2>3 DEF Marks
    <2> QED
        BY <2>2, <2>4
<1> DEFINE n == mark(g, S)
           m == mark(g1, S)
\* While marking, the new marks are those of `mark' with gray upvalues blackened.
<1>12. ASSUME gcstate = "propagate"
       PROVE  /\ live = closing /\ Alive' = Alive /\ Tri(n, Tmu, {}) /\ n \in Marks /\ m \in Marks
              /\ Dark(g) \subseteq Dark(n) /\ S \cap Objs \subseteq Dark(n) /\ Sealed
              /\ m.gray = n.gray /\ m.grayagain = n.grayagain /\ m.weak = n.weak
              /\ \A x \in Objs : m.color[x] = IF x \in gray THEN "black" ELSE n.color[x]
              /\ \A u \in Alive : Kind(u) = "upval" /\ Gray(n, u) => Gray(g, u)
    <2>1. Live = Alive /\ Sealed /\ Tri(g, Tmu, {}) /\ HeapOK /\ Homed
        BY <1>12, AllLive DEF Safe, Marking
    <2>2. live = closing /\ Alive' = Alive
        BY <1>2, <1>6, <2>1
    <2>3. S \cap Objs \subseteq Alive /\ \A u \in S \cap Objs : Kind(u) # "upval"
        <3>1. \A u \in gray : upvalue(u) \in Values /\ All(u) = Objs \cap {upvalue(u)} /\ u \in Alive
            BY <1>2, UpvalueFacts
        <3>2. ASSUME NEW u \in gray, upvalue(u) \in Objs
              PROVE  upvalue(u) \in Alive /\ Kind(upvalue(u)) # "upval"
            BY <1>3, <2>1, <3>1, <3>2 DEF Sealed, Values
        <3> QED
            BY <3>2 DEF S
    <2>4. Tri(mark(g, S), Tmu, {})
        <3>1. {} \subseteq S
            OBVIOUS
        <3> HIDE DEF Safe
        <3> QED
            BY <1>3, <2>1, <2>3, <3>1, TriMark
    <2> DEFINE W == New(g, n)
    <2>5. /\ n \in Marks /\ \A o \in Objs \ W : n.color[o] = g.color[o]
          /\ Dark(n) = Dark(g) \cup W /\ S \cap Objs \subseteq Dark(n)
          /\ \A o \in W : White(g, o)
          /\ \A o \in W : Kind(o) = "upval" => o \in S
        BY <1>3, <2>1, <2>3, MarkFacts
    <2>6. m \in Marks
        BY <1>11, <2>1, <2>3, MarkFacts
    <2>7. \A x \in Objs : White(g, x) <=> White(g1, x)
        BY <1>2, <1>11 DEF White, Whites
    <2>8. \A x \in Objs : White(g, x) => g1.color[x] = g.color[x]
        BY <1>2, <1>11 DEF White, Whites
    <2>9. /\ m.gray = n.gray /\ m.grayagain = n.grayagain /\ m.weak = n.weak
          /\ \A x \in Objs : m.color[x] = IF White(g, x) THEN n.color[x] ELSE g1.color[x]
        BY <1>3, <1>11, <2>7, <2>8, MarkAlike
    <2>10. \A x \in gray : ~White(g, x) /\ x \in Objs
        BY <1>2 DEF White, Whites
    <2> HIDE DEF n, m, W
    <2>11. \A x \in Objs : m.color[x] = IF x \in gray THEN "black" ELSE n.color[x]
        BY <1>11, <2>5, <2>9, <2>10
    <2>12. \A u \in Alive : Kind(u) = "upval" /\ Gray(n, u) => Gray(g, u)
        <3>1. ASSUME NEW u \in Alive, Kind(u) = "upval", u \in W
              PROVE  FALSE
            BY <1>3, <2>3, <2>5, <3>1
        <3> QED
            BY <1>3, <2>5, <3>1 DEF Gray
    <2> QED
        BY <2>1, <2>2, <2>4, <2>5, <2>6, <2>9, <2>11, <2>12 DEF n
<1> HIDE DEF n, m
<1>13. Marking'
    <2>1. SUFFICES ASSUME gcstate = "propagate"
                   PROVE  Tri(g, Tmu, {})' /\ {Main, Registry} \subseteq Dark(g)'
        BY <1>1 DEF Marking, phase
    <2>2. /\ Tri(n, Tmu, {}) /\ n \in Marks /\ Alive' = Alive /\ live = closing /\ Tmu' = Tmu /\ g' = m
          /\ {Main, Registry} \subseteq Dark(n)
        BY <1>1, <1>12, <2>1 DEF m, Tmu, Safe, Marking
    <2>3. \A x \in Alive : /\ Black(g', x) <=> Black(n, x) \/ x \in gray
                           /\ Gray(g', x) <=> Gray(n, x) /\ x \notin gray
                           /\ White(g', x) => White(n, x)
                           /\ x \notin gray => (White(g', x) <=> White(n, x))
        BY <1>3, <1>12, <2>1, <2>2 DEF Black, Gray, White, Whites
    <2>4. Dark(n) \subseteq Dark(g')
        BY <1>2, <1>12, <2>1, <2>2 DEF Dark, White, Whites
    <2>5. ASSUME NEW o \in Alive \ Tmu
          PROVE  /\ Black(g', o) => All(o)' \subseteq Dark(g')
                 /\ Gray(g', o) => Kind(o) # "userdata"
        <3>1. CASE o \in gray
            <4>1. o \in Of("upval") /\ upvalue(o) \in S
                BY <1>2, <3>1 DEF S
            <4>2. All(o) = Objs \cap {upvalue(o)}
                BY <4>1, UpvalueFacts
            <4> QED
                BY <1>9, <1>12, <2>1, <2>2, <2>3, <2>4, <3>1, <4>1, <4>2
        <3>2. CASE o \notin gray
            BY <1>9, <2>2, <2>3, <2>4, <3>2 DEF Tri, Blacks
        <3> QED
            BY <3>1, <3>2
    <2>6. Blacks(g, Tmu, {})'
        BY <1>3, <2>2, <2>5 DEF Blacks, Black, Gray, Dark, White
    <2>7. Grays(g)'
        <3>1. ASSUME NEW o \in Alive', Gray(g', o)
              PROVE  /\ Kind(o) = "table"    => o \in g'.gray \cup g'.grayagain \cup g'.weak
                     /\ Kind(o) = "function" => o \in g'.gray
                     /\ Kind(o) = "thread"   => o \in g'.gray \cup g'.grayagain
                     /\ Kind(o) = "upval"    => Open(o)'
            <4>1. Gray(n, o) /\ o \notin gray /\ o \in Alive
                BY <2>2, <2>3, <3>1
            <4>2. ASSUME Kind(o) = "upval"
                  PROVE  Open(o)'
                <5>1. Open(o) /\ g.color[o] = "gray"
                    BY <1>12, <2>1, <2>2, <4>1, <4>2 DEF Tri, Grays, Gray
                <5>2. o \notin closing
                    BY <1>2, <2>2, <4>1, <5>1
                <5> QED
                    BY <1>7, <3>1, <5>1, <5>2
            <4>3. g'.gray = n.gray /\ g'.grayagain = n.grayagain /\ g'.weak = n.weak
                BY <1>12, <2>1, <2>2
            <4> QED
                BY <2>2, <4>1, <4>2, <4>3 DEF Tri, Grays
        <3>2. ASSUME NEW o \in Alive', Kind(o) = "thread" \/ Open(o)'
              PROVE  ~Black(g', o)
            <4>1. o \in Alive /\ o \notin gray /\ (Kind(o) = "thread" \/ Open(o))
                BY <1>2, <1>7, <2>2, <3>2
            <4> QED
                BY <2>2, <2>3, <4>1 DEF Tri, Grays
        <3> QED
            BY <1>3, <3>1, <3>2 DEF Grays, Gray, Black
    <2>8. Queues(g)'
        <3>1. g'.gray = n.gray /\ g'.grayagain = n.grayagain /\ g'.weak = n.weak
            BY <1>12, <2>1, <2>2
        <3>2. \A o \in g'.gray \cup g'.grayagain \cup g'.weak : o \in Alive' /\ Gray(g', o)
            BY <1>2, <2>2, <2>3, <3>1 DEF Tri, Queues
        <3> QED
            BY <1>3, <2>2, <3>1, <3>2 DEF Tri, Queues, Gray
    <2>10. {Main, Registry} \subseteq Dark(g)'
        BY <2>2, <2>4 DEF Dark, White
    <2> QED
        BY <2>6, <2>7, <2>8, <2>10 DEF Tri
<1>14. Fits({})
    <2>1. /\ Alive' \subseteq Alive /\ Live \subseteq Alive' /\ \A x \in Alive \ Alive' : Open(x)
          /\ \A x \in Alive' : Open(x)' => Open(x)
        BY <1>2, <1>3, <1>6, <1>7
    <2>2. g' \in Marks
        BY <1>1, <1>11, <1>12 DEF m
    <2>3. \A x \in Alive' : g'.color[x] = otherwhite <=> g.color[x] = otherwhite
        <3>1. CASE gcstate = "propagate"
            <4>1. \A x \in Alive : g.color[x] # otherwhite /\ x \in Live
                BY <1>3, <3>1 DEF Safe, Colours, isdead, Live
            <4>2. \A x \in Alive : m.color[x] # otherwhite
                <5>1. \A x \in Alive : White(m, x) => White(n, x) /\ m.color[x] = n.color[x] /\ White(g, x)
                    BY <1>3, <1>12, <3>1 DEF White, Whites, Dark
                <5>2. \A x \in Objs : White(n, x) => n.color[x] = g.color[x]
                    <6>1. \A o \in Objs \ New(g, mark(g, S)) : mark(g, S).color[o] = g.color[o]
                        <7>1. S \cap Objs \subseteq Alive /\ HeapOK /\ Homed /\ Sealed
                            <8>1. \A u \in gray : upvalue(u) \in Values /\ All(u) = Objs \cap {upvalue(u)} /\ u \in Alive
                                BY <1>2, UpvalueFacts
                            <8> QED
                                BY <1>3, <1>12, <3>1, <8>1 DEF Sealed, Safe, S
                        <7> QED
                            BY <1>3, <7>1, MarkFacts
                    <6> QED
                        BY <6>1 DEF New, n
                <5>3. otherwhite \in Whites
                    BY <1>3 DEF otherwhite, Whites
                <5> QED
                    BY <1>3, <4>1, <5>1, <5>2, <5>3 DEF White
            <4> QED
                BY <1>1, <2>1, <3>1, <4>1, <4>2 DEF m
        <3>2. CASE gcstate # "propagate"
            <4>1. \A x \in gray : g.color[x] # otherwhite
                BY <1>2, <1>3
            <4> QED
                BY <1>1, <1>3, <1>11, <2>1, <3>2, <4>1
        <3> QED
            BY <3>1, <3>2
    <2>4. \A x \in Live : All(x)' \subseteq Live
        BY <1>9, <2>1 DEF Safe, LiveClosed
    <2>5. gmt' \in Live \cup {nil}
        BY <1>1, HandFacts
    <2>6. \A x \in Alive' : Kind(x) = "thread" \/ Open(x)' => ~Black(g', x)
        <3>1. CASE gcstate = "propagate"
            <4>1. Tri(n, Tmu, {}) /\ g' = m
                BY <1>1, <1>12, <3>1 DEF m
            <4>2. ASSUME NEW x \in Alive', Kind(x) = "thread" \/ Open(x)'
                  PROVE  ~Black(m, x)
                <5>1. x \in Alive /\ x \in Objs /\ x \notin gray /\ (Kind(x) = "thread" \/ Open(x))
                    BY <1>2, <1>3, <1>7, <2>1, <4>2
                <5> QED
                    BY <1>12, <3>1, <4>1, <5>1 DEF Tri, Grays, Black
            <4> QED
                BY <4>1, <4>2
        <3>2. CASE gcstate # "propagate"
            <4>1. currentwhite # "black"
                BY <1>3 DEF Whites
            <4> QED
                BY <1>1, <1>3, <1>7, <1>11, <2>1, <3>2, <4>1 DEF Safe, Colours, Black
        <3> QED
            BY <3>1, <3>2
    <2>7. gcstate # "propagate" =>
              \A x \in Alive' : \/ g'.color[x] = currentwhite
                                \/ g.color[x] # currentwhite /\ (Open(x) => Open(x)' /\ body'[x].at = body[x].at)
        <3>1. SUFFICES ASSUME gcstate # "propagate", NEW x \in Alive'
                       PROVE  \/ g'.color[x] = currentwhite
                              \/ g.color[x] # currentwhite /\ (Open(x) => Open(x)' /\ body'[x].at = body[x].at)
            OBVIOUS
        <3>2. g' = g2 /\ x \in Alive /\ x \in Objs
            BY <1>1, <1>3, <2>1, <3>1
        <3>3. CASE x \in gray \/ g.color[x] = currentwhite
            BY <1>11, <3>2, <3>3
        <3>4. CASE x \notin closing /\ g.color[x] # currentwhite
            BY <1>7, <3>1, <3>4
        <3>5. CASE x \in closing /\ x \notin gray
            <4>1. x \in live /\ g.color[x] # "gray" /\ g.color[x] # otherwhite /\ Open(x)
                BY <1>2, <1>3, <1>6, <3>1, <3>5
            <4>2. ~Black(g, x)
                BY <3>2, <4>1 DEF Safe, Colours
            <4>3. g.color[x] \in Whites \cup {"gray", "black"}
                BY <1>3, <3>2 DEF Marks
            <4>4. g.color[x] = currentwhite
                BY <1>3, <4>1, <4>2, <4>3 DEF Black, otherwhite, Whites
            <4> QED
                BY <1>11, <3>2, <4>4
        <3> QED
            BY <3>3, <3>4, <3>5
    <2> HIDE DEF Safe
    <2> QED
        BY <1>1, <1>8, <1>10, <2>1, <2>2, <2>3, <2>4, <2>5, <2>6, <2>7 DEF Fits
<1> QED
    BY <1>13, <1>14, FitsFacts

\* The program keeps the invariant, whatever it does.
LEMMA ProgramSafe ==
    ASSUME Safe, Program
    PROVE  Safe'
<1>1. CASE \E th \in Running, s \in Slots :
              \/ assign(th, s) \/ luaF_close(th, s)
              \/ \E o \in Objs : \/ new_object(th, s, o) \/ luaS_newlstr(th, s, o)
                                 \/ pushcclosure(th, s, o)
                                 \/ \E l \in Slots \ {s}, u \in Objs : op_closure(th, s, l, o, u)
    <2>1. PICK th \in Running, s \in Slots :
              \/ assign(th, s) \/ luaF_close(th, s)
              \/ \E o \in Objs : \/ new_object(th, s, o) \/ luaS_newlstr(th, s, o)
                                 \/ pushcclosure(th, s, o)
                                 \/ \E l \in Slots \ {s}, u \in Objs : op_closure(th, s, l, o, u)
        BY <1>1
    <2>2. CASE assign(th, s)
        BY <2>2, AssignPuts, PutStep
    <2>3. CASE luaF_close(th, s)
        BY <2>3, CloseSafe
    <2>4. ASSUME NEW o \in Objs, new_object(th, s, o)
          PROVE  Safe'
        BY <2>4, NewObjectPuts, PutStep
    <2>5. ASSUME NEW o \in Objs, luaS_newlstr(th, s, o)
          PROVE  Safe'
        BY <2>5, NewlstrPuts, PutStep
    <2>6. ASSUME NEW o \in Objs, pushcclosure(th, s, o)
          PROVE  Safe'
        BY <2>6, PushcclosurePuts, PutStep
    <2>7. ASSUME NEW o \in Objs, NEW l \in Slots \ {s}, NEW u \in Objs, op_closure(th, s, l, o, u)
          PROVE  Safe'
        BY <2>7, OpClosurePuts, PutStep
    <2> QED
        BY <2>1, <2>2, <2>3, <2>4, <2>5, <2>6, <2>7
<1>2. ASSUME NEW t \in Hands("table"), NEW e \in Entries, settable(t, e[1], e[2])
      PROVE  Safe'
    <2>1. <<e[1], e[2]>> \in Entries
        BY <1>2 DEF Entries
    <2> QED
        BY <1>2, <2>1, SettableSafe
<1>3. ASSUME NEW m \in {h \in InHand : pool[h].meta # {}}, setmetatable_basic(m)
      PROVE  Safe'
    BY <1>3, SetmetatableBasicSafe
<1>4. ASSUME NEW m \in {h \in InHand : pool[h].meta # {}}, NEW o \in InHand, lua_setmetatable(o, m)
      PROVE  Safe'
    <2>1. m \in {h \in InHand : pool[h].meta # {}} \cup {nil}
        OBVIOUS
    <2> QED
        BY <1>4, <2>1, SetmetatableSafe
<1>5. ASSUME NEW o \in InHand, lua_setmetatable(o, nil)
      PROVE  Safe'
    <2>1. nil \in {h \in InHand : pool[h].meta # {}} \cup {nil}
        OBVIOUS
    <2> QED
        BY <1>5, <2>1, SetmetatableSafe
<1>6. ASSUME NEW c \in Hands("function"), NEW v \in InHand, op_setupval(c, v)
      PROVE  Safe'
    BY <1>6, OpSetupvalSafe
<1> QED
    BY <1>1, <1>2, <1>3, <1>4, <1>5, <1>6 DEF Program

-----------------------------------------------------------------------------
(* Steps of the collector that leave the heap alone *)

\* A step that does not touch the heap leaves what is allocated, and its references.
LEMMA HeapSame ==
    ASSUME UNCHANGED heap
    PROVE  /\ Alive' = Alive /\ Listed' = Listed /\ (HeapOK' <=> HeapOK) /\ (Homed' <=> Homed)
           /\ \A k : Of(k)' = Of(k)
           /\ \A x : Kind(x)' = Kind(x) /\ (Open(x)' <=> Open(x)) /\ All(x)' = All(x)
<1>1. pool' = pool /\ body' = body /\ gmt' = gmt /\ fin' = fin
    BY DEF heap
<1>2. Alive' = Alive /\ \A x : Kind(x)' = Kind(x) /\ (Open(x)' <=> Open(x))
    BY <1>1 DEF Alive, Kind, Open, Closed
<1>3. \A k : Of(k)' = Of(k)
    BY <1>2 DEF Of
<1>4. Listed' = Listed
    BY <1>2 DEF Listed
<1>5. \A x : upvalue(x)' = upvalue(x) /\ Modes(x)' = Modes(x) /\ StackOf(x)' = StackOf(x)
    BY <1>1, <1>2 DEF upvalue, Modes, StackOf
<1>6. \A x : Strong(x)' = Strong(x) /\ Weak(x)' = Weak(x)
    BY <1>1, <1>2, <1>5 DEF Strong, Weak
<1>7. \A x : All(x)' = All(x)
    BY <1>6 DEF All
<1>8. HeapOK' <=> HeapOK
    BY <1>1, <1>2, <1>3 DEF HeapOK
<1>9. Homed' <=> Homed
    BY <1>1, <1>2 DEF Homed
<1> QED
    BY <1>2, <1>3, <1>4, <1>7, <1>8, <1>9

\* The mark phase goes on with the marks m.
LEMMA MarksOn ==
    ASSUME Safe, gcstate # "sweep", UNCHANGED heap, UNCHANGED lists, currentwhite' = currentwhite,
           gcstate' = "propagate", NEW m, m \in Marks, Tri(m, Tmu, {}), {Main, Registry} \subseteq Dark(m),
           \A x \in Alive : m.color[x] # otherwhite, g' = m
    PROVE  Safe'
<1> USE DEF Safe
<1>1. /\ Alive' = Alive /\ Listed' = Listed /\ HeapOK' /\ Homed' /\ \A k : Of(k)' = Of(k)
      /\ \A x : Kind(x)' = Kind(x) /\ (Open(x)' <=> Open(x)) /\ All(x)' = All(x)
    BY HeapSame
<1>2. /\ rootgc' = rootgc /\ sweepgc' = sweepgc /\ tmudata' = tmudata /\ finalized' = finalized /\ called' = called
      /\ pool' = pool /\ gmt' = gmt /\ Tmu' = Tmu /\ otherwhite' = otherwhite /\ Alive \subseteq Objs
    BY DEF lists, heap, Tmu, otherwhite, Alive
<1>3. ListsOK'
    BY <1>1, <1>2 DEF ListsOK
<1>4. Marked' /\ Sweeping'
    BY <1>1, <1>2 DEF Marked, Sweeping, States
<1>5. Live' = Alive /\ Live = Alive /\ Sealed
    <2>1. \A x \in Alive : ~isdead(x)'
        BY <1>2 DEF isdead
    <2> QED
        BY <1>1, <2>1, AllLive DEF Live
<1>6. LiveClosed'
    <2>1. Roots' = Roots
        BY <1>2 DEF Roots, Tmu
    <2> QED
        BY <1>1, <1>5, <2>1 DEF LiveClosed
<1>7. Colours'
    <2>1. \A o \in Alive : Kind(o) = "thread" \/ Open(o) => ~Black(m, o)
        BY DEF Tri, Grays
    <2>2. \A o \in Alive : ~isdead(o)'
        BY <1>2 DEF isdead
    <2> QED
        BY <1>1, <2>1, <2>2 DEF Colours, Black
<1>8. Marking'
    <2>1. \A x \in Alive \ Tmu : Black(m, x) => All(x)' \subseteq Dark(m) \cap Alive
        BY <1>1, <1>5 DEF Tri, Blacks, Sealed
    <2>3. currentwhite \in Whites /\ {Main, Registry} \subseteq Alive
        BY DEF Marked, HeapOK
    <2>4. Whitens(m, {})
        <3> HIDE DEF Safe
        <3> QED
            BY <1>1, <1>2, <2>1, <2>3 DEF Whitens
    <2>5. Tri(g, Tmu, {})' /\ {Main, Registry} \subseteq Dark(g)'
        BY <2>4, TriStep
    <2> QED
        BY <2>5 DEF Marking
<1> QED
    BY <1>1, <1>3, <1>4, <1>6, <1>7, <1>8

\* A collection begins with the marks of the roots.
LEMMA RootsMarked ==
    ASSUME Safe, gcstate # "sweep", UNCHANGED heap, UNCHANGED lists, currentwhite' = currentwhite,
           gcstate' = "propagate", NEW m \in Marks, m.gray = {}, m.grayagain = {}, m.weak = {},
           \A x \in Alive \ Tmu : White(m, x), \A x \in Alive : m.color[x] # otherwhite,
           g' = mark(m, {Main, Registry, gmt})
    PROVE  Safe'
<1> DEFINE S == {Main, Registry, gmt}
           n == mark(m, S)
           W == New(m, n)
<1>1. HeapOK /\ Homed /\ Live = Alive /\ Sealed /\ Alive \subseteq Objs
    BY AllLive DEF Safe, Alive
<1>2. S \cap Objs \subseteq Alive /\ \A u \in S \cap Objs : Kind(u) # "upval"
    BY <1>1, PoolFacts, ObjsAssumption DEF HeapOK, Of
<1>3. Tri(m, Tmu, {})
    <2>1. Tmu \subseteq Of("userdata")
        BY DEF Safe, Sweeping
    <2>2. \A x \in Alive : Black(m, x) \/ Gray(m, x) \/ ~White(m, x) => Kind(x) = "userdata" /\ x \in Tmu
        BY <2>1 DEF Black, Gray, White, Whites, Of
    <2>3. Blacks(m, Tmu, {})
        BY <2>2 DEF Blacks
    <2>4. Grays(m)
        BY <2>2 DEF Grays, Open
    <2>5. Queues(m)
        BY DEF Queues
    <2> QED
        BY <2>3, <2>4, <2>5 DEF Tri
<1> HIDE DEF S
<1>4. Tri(n, Tmu, {})
    <2>1. {} \subseteq S
        OBVIOUS
    <2> HIDE DEF Safe
    <2> QED
        BY <1>1, <1>2, <1>3, <2>1, TriMark
<1>5. /\ n \in Marks /\ \A o \in Objs \ W : n.color[o] = m.color[o]
      /\ \A o \in W : n.color[o] \in {"gray", "black"}
      /\ S \cap Objs \subseteq Dark(n)
    BY <1>1, <1>2, MarkFacts
<1> HIDE DEF n, W
<1>6. \A x \in Alive : n.color[x] # otherwhite
    BY <1>1, <1>5 DEF otherwhite
<1>7. {Main, Registry} \subseteq Dark(n)
    BY <1>5, ObjsAssumption DEF S
<1>8. g' = n
    BY DEF n, S
<1> QED
    BY <1>4, <1>5, <1>6, <1>7, <1>8, MarksOn

\* A collection begins: the roots are gray or black, all else is white.
LEMMA MarkrootSafe ==
    ASSUME Safe, markroot
    PROVE  Safe'
<1> DEFINE m == [g EXCEPT !.gray = {}, !.grayagain = {}, !.weak = {}]
<1>1. /\ gcstate = "pause" /\ gcstate' = "propagate" /\ g' = mark(m, {Main, Registry, gmt})
      /\ UNCHANGED heap /\ UNCHANGED lists /\ currentwhite' = currentwhite /\ gcstate # "sweep"
    BY DEF markroot
<1>2. m \in Marks /\ m.gray = {} /\ m.grayagain = {} /\ m.weak = {} /\ m.color = g.color
    BY DEF Safe, Marked, Marks
<1>3. /\ currentwhite \in Whites /\ otherwhite # currentwhite
      /\ \A x \in Alive : g.color[x] # otherwhite
    BY <1>1 DEF Safe, Marked, otherwhite, Whites, Colours, isdead
<1>4. \A x \in Alive \ Tmu : g.color[x] = currentwhite
    <2>1. sweepgc = <<>> /\ Range(sweepgc) = {}
        BY <1>1 DEF Safe, Sweeping, Range
    <2> QED
        BY <1>1, <2>1 DEF Safe, Colours, Awaiting
<1> HIDE DEF m
<1> QED
    BY <1>1, <1>2, <1>3, <1>4, RootsMarked DEF White

\* luaC_fullgc turns everything white but what waits for its finalizer.
LEMMA FullgcSafe ==
    ASSUME Safe, luaC_fullgc
    PROVE  Safe'
<1> DEFINE white == [o \in Objs |-> IF o \in Range(tmudata) THEN g.color[o] ELSE currentwhite]
           m == [color |-> white, gray |-> {}, grayagain |-> {}, weak |-> {}]
<1>1. /\ gcstate # "sweep" /\ gcstate' = "propagate" /\ g' = mark(m, {Main, Registry, gmt})
      /\ UNCHANGED heap /\ UNCHANGED lists /\ currentwhite' = currentwhite
    BY DEF luaC_fullgc
<1>2. /\ currentwhite \in Whites /\ otherwhite # currentwhite /\ Alive \subseteq Objs
      /\ \A x \in Alive : g.color[x] # otherwhite
    BY <1>1 DEF Safe, Marked, otherwhite, Whites, Colours, isdead, Alive
<1>3. white \in [Objs -> Whites \cup {"gray", "black"}]
    BY <1>2 DEF Safe, Marked, Marks
<1>4. \A x \in Objs : white[x] = IF x \in Tmu THEN g.color[x] ELSE currentwhite
    BY DEF Tmu
<1> HIDE DEF white
<1>5. m \in Marks /\ m.gray = {} /\ m.grayagain = {} /\ m.weak = {} /\ m.color = white
    BY <1>3 DEF Marks
<1> HIDE DEF m
<1>6. /\ \A x \in Alive \ Tmu : White(m, x)
      /\ \A x \in Alive : m.color[x] # otherwhite
    BY <1>2, <1>4, <1>5 DEF White
<1> QED
    BY <1>1, <1>5, <1>6, RootsMarked

\* A gray object is traversed: it turns black when what it refers to is marked.
LEMMA PropagateSafe ==
    ASSUME Safe, propagate
    PROVE  Safe'
<1>1. PICK o \in g.gray : g' = propagatemark(g, o)
    BY DEF propagate
<1>2. /\ gcstate = "propagate" /\ gcstate' = "propagate" /\ currentwhite' = currentwhite /\ gcstate # "sweep"
      /\ UNCHANGED heap /\ UNCHANGED lists
    BY DEF propagate, phase
<1>3. /\ HeapOK /\ Homed /\ Sealed /\ Alive \subseteq Objs /\ g \in Marks /\ Tri(g, Tmu, {})
      /\ {Main, Registry} \subseteq Dark(g) /\ \A x \in Alive : g.color[x] # otherwhite
    BY <1>2, AllLive DEF Safe, Marked, Marking, Alive, Colours, isdead
<1>4. o \in Alive /\ o \in Objs
    BY <1>3 DEF Tri, Queues
<1> DEFINE F == {o}
           t == traversed(g, F)
           S == Strong(o)
           n == mark(t, S)
           W == New(t, n)
<1>5. Tri(t, Tmu, S)
    BY <1>1, <1>3, TriTraverse
<1>6. /\ t \in Marks /\ \A x \in Objs \ F : t.color[x] = g.color[x]
      /\ \A x \in F : t.color[x] = IF \/ IsWeak(x) \/ Kind(x) \in {"thread", "string"}
                                      \/ Kind(x) = "upval" /\ Open(x)
                                   THEN "gray" ELSE "black"
      /\ Dark(t) = Dark(g) \cup F
    BY <1>3, <1>4, TraversedFacts
<1> HIDE DEF F, t
<1>7. S \subseteq Objs /\ S \cap Objs \subseteq Alive
    BY <1>3, <1>4, StrongFacts DEF Sealed, All
<1> HIDE DEF S
<1>9. Tri(n, Tmu, {})
    <2>1. S \subseteq S
        OBVIOUS
    <2> HIDE DEF Safe
    <2> QED
        BY <1>3, <1>5, <1>6, <1>7, <2>1, TriMark
<1>10. /\ n \in Marks /\ \A x \in Objs \ W : n.color[x] = t.color[x]
       /\ \A x \in W : n.color[x] \in {"gray", "black"}
       /\ Dark(n) = Dark(t) \cup W
    BY <1>3, <1>6, <1>7, MarkFacts
<1>11. g' = n
    BY <1>1 DEF propagatemark, n, t, S, F
<1> HIDE DEF n, W
<1>12. \A x \in Alive : n.color[x] # otherwhite
    BY <1>3, <1>6, <1>10 DEF otherwhite
<1>13. {Main, Registry} \subseteq Dark(n)
    BY <1>3, <1>6, <1>10
<1> QED
    BY <1>2, <1>9, <1>10, <1>11, <1>12, <1>13, MarksOn

-----------------------------------------------------------------------------
(* Steps between the sweep and the next collection *)

\* When the sweep is over, nothing is dead.
LEMMA SweepDoneSafe ==
    ASSUME Safe, sweep_done \/ cycle_done
    PROVE  Safe'
<1> USE DEF Safe
<1>1. /\ UNCHANGED <<heap, g, currentwhite, lists>> /\ UNCHANGED heap
      /\ \/ gcstate = "sweep" /\ sweepgc = <<>> /\ gcstate' = "finalize"
         \/ gcstate = "finalize" /\ tmudata = <<>> /\ gcstate' = "pause"
    BY DEF sweep_done, cycle_done
<1>2. /\ Alive' = Alive /\ Listed' = Listed /\ HeapOK' /\ Homed' /\ \A k : Of(k)' = Of(k)
      /\ \A x : Kind(x)' = Kind(x) /\ (Open(x)' <=> Open(x)) /\ All(x)' = All(x)
    BY <1>1, HeapSame
<1>3. /\ rootgc' = rootgc /\ sweepgc' = sweepgc /\ tmudata' = tmudata /\ finalized' = finalized /\ called' = called
      /\ pool' = pool /\ gmt' = gmt /\ body' = body /\ g' = g /\ currentwhite' = currentwhite
      /\ Tmu' = Tmu /\ otherwhite' = otherwhite /\ Alive \subseteq Objs
    BY <1>1 DEF lists, heap, Tmu, otherwhite, Alive
<1>4. ListsOK' /\ Marked' /\ Marking'
    BY <1>1, <1>2, <1>3 DEF ListsOK, Marked, Marking, States
<1>5. sweepgc = <<>> /\ Range(sweepgc) = {}
    BY <1>1 DEF Sweeping, Range
<1>6. Sweeping'
    BY <1>1, <1>2, <1>3, <1>5 DEF Sweeping
<1>7. Live' = Live /\ Roots' = Roots
    BY <1>2, <1>3 DEF Live, isdead, Roots
<1>8. LiveClosed'
    BY <1>2, <1>7 DEF LiveClosed
<1>9. \A o \in Alive : ~isdead(o)
    <2>1. Tmu \subseteq Live
        BY DEF LiveClosed, Roots, Sweeping, Of, Tmu, Alive
    <2>2. \A o \in Alive \ Tmu : g.color[o] = currentwhite
        BY <1>1, <1>5 DEF Colours, Awaiting
    <2>3. otherwhite # currentwhite
        BY DEF otherwhite, Marked, Whites
    <2> QED
        BY <2>1, <2>2, <2>3 DEF Live, isdead
<1>10. Colours'
    <2>1. \A o \in Alive : ~isdead(o)'
        BY <1>3, <1>9 DEF isdead
    <2>2. \A o \in Alive \ Tmu : g.color[o] = currentwhite
        BY <1>1, <1>5 DEF Colours, Awaiting
    <2> QED
        BY <1>2, <1>3, <2>1, <2>2 DEF Colours
<1> QED
    BY <1>2, <1>4, <1>6, <1>8, <1>10

\* A finalizer gives its argument up.
LEMMA FinalizerReturnSafe ==
    ASSUME Safe, finalizer_return
    PROVE  Safe'
<1>1. /\ UNCHANGED <<pool, body, gmt, g, phase, lists>>
      /\ fin' \in Seq(Objs) /\ Range(fin') \subseteq Range(fin)
    <2>1. fin \in Seq(Objs) /\ fin # <<>> /\ fin' = Tail(fin)
        BY DEF finalizer_return, Safe, HeapOK
    <2>2. Tail(fin) \in Seq(Objs) /\ Range(Tail(fin)) \subseteq Range(fin)
        BY <2>1, TailFacts
    <2> QED
        BY <2>1, <2>2 DEF finalizer_return
<1>2. Alive' = Alive /\ \A x : Kind(x)' = Kind(x) /\ Open(x)' = Open(x)
    BY <1>1 DEF Alive, Kind, Open, Closed
<1>3. HeapOK' /\ Homed' /\ Kind(Main) = "thread"
    BY <1>1, <1>2, PoolFacts DEF Safe, HeapOK, Homed, Of
<1>4. \A x \in Alive : All(x)' \subseteq All(x) /\ (Kind(x) # "thread" => All(x)' = All(x))
    <2>1. ASSUME NEW x \in Alive, x # Main
          PROVE  All(x)' = All(x)
        <3>1. upvalue(x)' = upvalue(x)
            BY <1>1, <1>2 DEF upvalue
        <3> QED
            BY <1>1, <2>1, <3>1, SameRefs DEF Alive
    <2>2. All(Main)' \subseteq All(Main)
        <3>1. StackOf(Main)' \subseteq StackOf(Main)
            BY <1>1 DEF StackOf
        <3>2. All(Main) = Objs \cap StackOf(Main) /\ All(Main)' = Objs \cap StackOf(Main)'
            BY <1>2, <1>3 DEF All, Strong, Weak
        <3> QED
            BY <1>1, <3>1, <3>2
    <2> QED
        BY <1>3, <2>1, <2>2
<1>5. gmt' \in Live \cup {nil}
    BY <1>1, HandFacts
<1>6. Stores({}, {})
    <2> HIDE DEF Safe
    <2> QED
        BY <1>1, <1>2, <1>3, <1>4, <1>5 DEF Stores
<1>7. Bars(g, {}, {}) /\ g' = g
    BY <1>1, NoBarrier
<1> QED
    BY <1>6, <1>7, StoreStep

\* The first userdata that waits goes back to the list, and on the stack of its
\* finalizer.
LEMMA GCTMSafe ==
    ASSUME Safe, GCTM
    PROVE  Safe'
<1> DEFINE u == Head(tmudata)
<1>1. /\ gcstate = "finalize" /\ tmudata # <<>>
      /\ rootgc' = link(u) /\ g' = [g EXCEPT !.color[u] = currentwhite]
      /\ fin' = IF HasGC(u) THEN <<u>> \o fin ELSE fin
      /\ called' = [called EXCEPT ![u] = IF HasGC(u) THEN @ + 1 ELSE @]
      /\ tmudata' = Tail(tmudata)
      /\ pool' = pool /\ body' = body /\ gmt' = gmt /\ UNCHANGED phase
      /\ finalized' = finalized /\ sweepgc' = sweepgc
    BY DEF GCTM
<1>2. /\ u \in Objs /\ u \in Tmu /\ tmudata' \in Seq(Objs) /\ Tmu = {u} \cup Tmu'
      /\ IsInjective(tmudata') /\ u \notin Tmu'
    BY <1>1, TailFacts DEF Safe, ListsOK, Tmu
<1>3. u \in Alive /\ Kind(u) = "userdata" /\ u \in Live /\ u # nil
    <2>1. Tmu \subseteq Live
        BY DEF Safe, LiveClosed, Roots, Sweeping, Of, Tmu, Alive
    <2> QED
        BY <1>2, <2>1, ObjsAssumption DEF Safe, Sweeping, Of, Live
<1> HIDE DEF u
<1>4. /\ Alive' = Alive /\ Alive \subseteq Objs /\ nil \notin Objs /\ Kind(Main) = "thread"
      /\ \A x : Kind(x)' = Kind(x) /\ Open(x)' = Open(x)
    BY <1>1, PoolFacts, ObjsAssumption DEF Alive, Kind, Open, Closed, Safe, HeapOK
<1>5. HeapOK' /\ Homed' /\ Listed' = Listed /\ Range(fin') \subseteq Range(fin) \cup {u}
    <2> DEFINE first == <<u>>
    <2>1. fin \in Seq(Objs) /\ first \in Seq(Objs) /\ Range(first) = {u}
        BY <1>2, OneFacts DEF Safe, HeapOK
    <2> HIDE DEF first
    <2>2. first \o fin \in Seq(Objs) /\ Range(first \o fin) = {u} \cup Range(fin)
        BY <2>1, ConcatFacts
    <2> USE DEF first
    <2>3. fin' \in Seq(Objs) /\ Range(fin') \subseteq Range(fin) \cup {u}
        BY <1>1, <2>1, <2>2
    <2> QED
        BY <1>1, <1>3, <1>4, <2>3 DEF Safe, HeapOK, Homed, Of, Listed
<1>6. \A x \in Alive : All(x)' \subseteq All(x) \cup {u}
    <2>1. ASSUME NEW x \in Alive, x # Main
          PROVE  All(x)' = All(x)
        <3>1. upvalue(x)' = upvalue(x)
            BY <1>1, <1>4 DEF upvalue
        <3> QED
            BY <1>1, <1>4, <2>1, <3>1, SameRefs
    <2>2. All(Main)' \subseteq All(Main) \cup {u}
        <3>1. StackOf(Main)' \subseteq StackOf(Main) \cup {u}
            BY <1>1, <1>5 DEF StackOf
        <3>2. All(Main) = Objs \cap StackOf(Main) /\ All(Main)' = Objs \cap StackOf(Main)'
            BY <1>4 DEF All, Strong, Weak
        <3> QED
            BY <1>4, <3>1, <3>2
    <2> QED
        BY <2>1, <2>2
<1>7. /\ g' \in Marks /\ \A x \in Objs : g'.color[x] = IF x = u THEN currentwhite ELSE g.color[x]
      /\ gcstate' = gcstate /\ currentwhite' = currentwhite /\ otherwhite' = otherwhite
      /\ currentwhite \in Whites /\ otherwhite # currentwhite
    <2>1. g \in Marks /\ currentwhite \in Whites
        BY DEF Safe, Marked
    <2>2. gcstate' = gcstate /\ currentwhite' = currentwhite
        BY <1>1 DEF phase
    <2>3. otherwhite' = otherwhite /\ otherwhite # currentwhite
        BY <2>1, <2>2 DEF otherwhite, Whites
    <2>4. g' \in Marks /\ \A x \in Objs : g'.color[x] = IF x = u THEN currentwhite ELSE g.color[x]
        BY <1>1, <1>2, <2>1, Coloured
    <2> QED
        BY <2>1, <2>2, <2>3, <2>4
<1>8. ListsOK'
    <2>1. u \notin Range(rootgc)
        BY <1>2 DEF Safe, ListsOK, Tmu
    <2>2. rootgc' \in Seq(Objs) /\ IsInjective(rootgc') /\ Range(rootgc') = Range(rootgc) \cup {u}
        BY <1>1, <1>2, <2>1, LinkNew
    <2>3. sweepgc' \in Seq(Alive') /\ finalized' \subseteq Of("userdata")' /\ called' \in [Objs -> Nat]
        BY <1>1, <1>2, <1>4 DEF Safe, ListsOK, Of
    <2>4. Range(rootgc') \cup Range(tmudata') = Listed' /\ Range(rootgc') \cap Range(tmudata') = {}
        BY <1>2, <1>5, <2>2 DEF Safe, ListsOK, Tmu
    <2> QED
        BY <1>2, <2>2, <2>3, <2>4 DEF ListsOK
<1>9. Live' = Live
    <2>1. \A x \in Alive : isdead(x)' <=> isdead(x)
        BY <1>3, <1>4, <1>7 DEF isdead, Live
    <2> QED
        BY <1>4, <2>1 DEF Live
<1>10. LiveClosed'
    <2>1. Roots' \subseteq Roots
        BY <1>1, <1>2 DEF Roots, Tmu
    <2> QED
        BY <1>3, <1>6, <1>9, <2>1 DEF Safe, LiveClosed, Live
<1>11. Sweeping'
    BY <1>1, <1>2, <1>4, <1>7 DEF Safe, Sweeping, Of
<1>12. Colours'
    <2>1. \A o \in Alive : Kind(o) = "thread" \/ Open(o) => ~Black(g', o)
        <3>1. "black" \notin Whites
            BY DEF Whites
        <3> QED
            BY <1>4, <1>7, <3>1 DEF Safe, Colours, Black
    <2>2. \A o \in Alive : ~isdead(o)'
        <3>1. \A o \in Alive : ~isdead(o)
            BY <1>1 DEF Safe, Colours
        <3> QED
            BY <1>4, <1>7, <3>1 DEF isdead
    <2>3. \A o \in Alive \ Tmu' : g'.color[o] = currentwhite
        <3>1. Range(sweepgc) = {}
            BY <1>1 DEF Safe, Sweeping, Range
        <3>2. \A o \in Alive \ Tmu : g.color[o] = currentwhite
            BY <1>1, <3>1 DEF Safe, Colours, Awaiting
        <3> QED
            BY <1>2, <1>4, <1>7, <3>2
    <2> QED
        BY <1>4, <1>7, <2>1, <2>2, <2>3 DEF Colours
<1>13. Marked' /\ Marking'
    BY <1>1, <1>7 DEF Safe, Marked, Marking
<1> QED
    BY <1>5, <1>8, <1>10, <1>11, <1>12, <1>13 DEF Safe

-----------------------------------------------------------------------------
(* Sweeping *)

\* The sweep frees what is dead, and nothing else changes for what is left.
LEMMA SweeplistSafe ==
    ASSUME Safe, sweeplist
    PROVE  Safe'
<1> DEFINE o == Head(sweepgc)
           opens  == IF Kind(o) = "thread" THEN OpenOn(o) ELSE {}
           freed  == {x \in opens \cup {o} : isdead(x)}
           closed == IF o \in freed THEN opens \ freed ELSE {}
           spared == (opens \cup {o}) \ freed
           shut(u) == [at |-> Closed, v |-> upvalue(u)]
           col == [x \in Objs |-> IF x \in spared THEN currentwhite ELSE g.color[x]]
<1>1. /\ gcstate = "sweep" /\ sweepgc # <<>>
      /\ body' = [x \in Objs |-> IF x \in freed THEN nil ELSE IF x \in closed THEN shut(x) ELSE body[x]]
      /\ g' = [g EXCEPT !.color = col]
      /\ rootgc' = SetToSeq(closed) \o Without(rootgc, freed)
      /\ finalized' = finalized \ freed
      /\ called' = [x \in Objs |-> IF x \in freed THEN 0 ELSE called[x]]
      /\ sweepgc' = Tail(sweepgc)
      /\ pool' = pool /\ gmt' = gmt /\ fin' = fin /\ tmudata' = tmudata /\ UNCHANGED phase
    BY DEF sweeplist
<1>2. /\ o \in Alive /\ ~Open(o) /\ o \notin Tmu /\ o \in Range(sweepgc)
      /\ Range(sweepgc) = {o} \cup Range(sweepgc') /\ o \notin Range(sweepgc')
      /\ sweepgc' \in Seq(Alive) /\ IsInjective(sweepgc')
    <2>1. sweepgc \in Seq(Alive) /\ IsInjective(sweepgc)
        BY DEF Safe, ListsOK, Sweeping
    <2>2. /\ o \in Alive /\ o \in Range(sweepgc) /\ Tail(sweepgc) \in Seq(Alive)
          /\ Range(sweepgc) = {o} \cup Range(Tail(sweepgc))
          /\ IsInjective(Tail(sweepgc)) /\ o \notin Range(Tail(sweepgc))
        BY <1>1, <2>1, TailFacts
    <2> QED
        BY <1>1, <2>2 DEF Safe, Sweeping
<1>3. /\ Alive \subseteq Objs /\ nil \notin Objs /\ \A x : Kind(x)' = Kind(x)
      /\ \A x \in opens : x \in Of("upval") /\ x \in Alive /\ Kind(x) = "upval" /\ Open(x) /\ body[x].at[1] = o
      /\ Kind(o) # "thread" => opens = {}
      /\ \A x \in Alive : Open(x) /\ body[x].at[1] = o => x \in opens
    <2>1. \A x \in Alive : Open(x) /\ body[x].at[1] = o => Kind(o) = "thread" /\ x \in Of("upval")
        BY <1>2, UpvalueFacts DEF Open, Of
    <2> QED
        BY <1>1, <2>1, ObjsAssumption DEF Alive, Kind, OpenOn, Of
<1>4. /\ freed \subseteq opens \cup {o} /\ freed \subseteq Alive /\ freed \cap Live = {}
      /\ closed \subseteq opens \ freed /\ (o \in freed => closed = opens \ freed)
      /\ spared \subseteq Live /\ spared = (opens \cup {o}) \ freed
      /\ \A x \in freed : g.color[x] = otherwhite
    BY <1>2, <1>3 DEF Live, isdead
<1>5. \A u \in closed : /\ shut(u) \in Bodies(pool, "upval", Objs) /\ shut(u) # nil
                        /\ shut(u).at = Closed /\ shut(u).v = upvalue(u)
    <2>1. \A u \in closed : upvalue(u) \in Values
        BY <1>3, <1>4, UpvalueFacts
    <2>2. ASSUME NEW u \in closed
          PROVE  shut(u) \in Bodies(pool, "upval", Objs)
        <3>1. upvalue(u) \in {x \in Objs : pool[x].kind # "upval"} \cup {nil}
            BY <2>1 DEF Values, Kind
        <3> QED
            BY <3>1 DEF Bodies, Closed
    <2>3. nil \notin Bodies(pool, "upval", Objs)
        BY PoolFacts DEF Kinds, Safe, HeapOK
    <2> QED
        BY <2>2, <2>3
<1>6. /\ g' \in Marks /\ \A x \in Objs : g'.color[x] = IF x \in spared THEN currentwhite ELSE g.color[x]
      /\ gcstate' = gcstate /\ currentwhite' = currentwhite /\ otherwhite' = otherwhite
      /\ currentwhite \in Whites /\ otherwhite # currentwhite
    <2>1. g \in Marks /\ currentwhite \in Whites
        BY DEF Safe, Marked
    <2>2. gcstate' = gcstate /\ currentwhite' = currentwhite
        BY <1>1 DEF phase
    <2>3. otherwhite' = otherwhite /\ otherwhite # currentwhite
        BY <2>1, <2>2 DEF otherwhite, Whites
    <2>4. col \in [Objs -> Whites \cup {"gray", "black"}]
        BY <2>1 DEF Marks
    <2>5. \A x \in Objs : col[x] = IF x \in spared THEN currentwhite ELSE g.color[x]
        OBVIOUS
    <2> HIDE DEF col
    <2>6. g' \in Marks /\ g'.color = col
        BY <1>1, <2>1, <2>4 DEF Marks
    <2> QED
        BY <2>1, <2>2, <2>3, <2>5, <2>6
<1>7. /\ DOMAIN body' = Objs /\ \A x \in Objs \ (freed \cup closed) : body'[x] = body[x]
      /\ \A x \in Objs \cap closed : body'[x] = shut(x)
      /\ \A x \in Objs \cap freed : body'[x] = nil
    BY <1>1, <1>4
<1> HIDE DEF o, opens, freed, closed, spared, shut, col
<1>8. /\ Alive' = Alive \ freed
      /\ \A x \in Alive' : Open(x)' <=> Open(x) /\ x \notin closed
      /\ \A x \in Alive' \ closed : body'[x] = body[x]
    <2>1. Alive' = Alive \ freed
        BY <1>3, <1>4, <1>5, <1>7 DEF Alive
    <2> QED
        BY <1>3, <1>4, <1>5, <1>7, <2>1 DEF Open, Closed
<1>9. /\ Live \subseteq Alive /\ Live \subseteq Alive' /\ Main \in Live /\ Registry \in Live /\ gmt \in Live \cup {nil}
      /\ Range(fin) \subseteq Live /\ Tmu \subseteq Live /\ Tmu' = Tmu
    <2>1. Tmu \subseteq Live
        BY DEF Safe, LiveClosed, Roots, Sweeping, Of, Tmu, Alive
    <2>2. Live \subseteq Alive
        BY DEF Live
    <2> QED
        BY <1>1, <1>4, <1>8, <2>1, <2>2, HandFacts DEF Tmu
\* A thread that is freed takes its open upvalues along, or closes them.
<1>10. ASSUME NEW x \in Alive', Open(x)'
       PROVE  /\ Open(x) /\ body'[x] = body[x] /\ Kind(x) = "upval" /\ x \in Alive
              /\ body[x].at[1] \in Alive' \ closed /\ body'[body[x].at[1]] = body[body[x].at[1]]
    <2>1. Open(x) /\ x \notin closed /\ body'[x] = body[x] /\ x \in Alive /\ x \notin freed
        BY <1>8, <1>10
    <2>2. x \in Of("upval") /\ Kind(x) = "upval"
        BY <2>1 DEF Open, Of
    <2>3. body[x].at[1] \in Alive /\ Kind(body[x].at[1]) = "thread"
        BY <2>1, <2>2, UpvalueFacts
    <2>4. body[x].at[1] \notin freed /\ body[x].at[1] \notin closed
        <3>1. body[x].at[1] \notin opens
            BY <1>3, <2>3
        <3>2. body[x].at[1] = o => x \in opens
            BY <1>3, <2>1
        <3> QED
            BY <1>4, <2>1, <3>1, <3>2
    <2> QED
        BY <1>8, <2>1, <2>2, <2>3, <2>4
<1>11. HeapOK' /\ Homed'
    <2>1. \A x \in Alive' : body'[x] \in Bodies(pool', Kind(x)', Objs)
        BY <1>1, <1>3, <1>4, <1>5, <1>7, <1>8 DEF Safe, HeapOK
    <2>2. /\ gmt' \in (Of("table") \cup {nil})' /\ {Main, Registry} \subseteq Alive'
          /\ fin' \in Seq(Objs) /\ Range(fin') \subseteq Of("userdata")'
        BY <1>1, <1>3, <1>9 DEF Safe, HeapOK, Of
    <2>3. HeapOK'
        BY <1>1, <1>7, <2>1, <2>2 DEF Safe, HeapOK
    <2> QED
        BY <1>10, <2>3 DEF Homed
<1>12. ASSUME NEW x \in Alive'
       PROVE  All(x)' = All(x)
    <2>1. x \in Objs /\ x \in Alive
        BY <1>3, <1>8
    <2>2. CASE x \notin closed
        <3>1. Kind(x) = "upval" => upvalue(x)' = upvalue(x)
            <4>1. CASE ~Open(x)
                BY <1>7, <1>8, <2>1, <2>2, <4>1 DEF upvalue
            <4>2. CASE Open(x)
                BY <1>8, <1>10, <2>2, <4>2 DEF upvalue
            <4> QED
                BY <4>1, <4>2
        <3> QED
            BY <1>1, <1>8, <2>1, <2>2, <3>1, SameRefs
    <2>3. CASE x \in closed
        <3>1. x \in Of("upval") /\ Kind(x) = "upval"
            BY <1>3, <1>4, <2>3
        <3>2. upvalue(x)' = upvalue(x) /\ Kind(x)' = "upval"
            <4>1. body'[x].v = upvalue(x) /\ ~Open(x)'
                BY <1>5, <1>7, <1>8, <2>1, <2>3
            <4> QED
                BY <1>3, <3>1, <4>1 DEF upvalue
        <3>3. All(x) = Objs \cap {upvalue(x)}
            BY <3>1, UpvalueFacts
        <3>4. All(x)' = Objs \cap {upvalue(x)'}
            BY <3>2 DEF All, Strong, Weak
        <3> QED
            BY <3>2, <3>3, <3>4
    <2> QED
        BY <2>2, <2>3
<1>13. Live' = Live
    <2>1. ASSUME NEW x \in Alive'
          PROVE  ~isdead(x)' <=> x \in Live
        <3>1. x \in Alive /\ x \in Objs
            BY <1>3, <1>8
        <3>2. CASE x \in spared
            BY <1>4, <1>6, <3>1, <3>2 DEF isdead
        <3>3. CASE x \notin spared
            BY <1>6, <3>1, <3>3 DEF isdead, Live
        <3> QED
            BY <3>2, <3>3
    <2> QED
        BY <1>9, <2>1 DEF Live
<1>14. LiveClosed'
    <2>1. Roots' = Roots
        BY <1>1, <1>9 DEF Roots, Tmu
    <2> QED
        BY <1>9, <1>12, <1>13, <2>1 DEF Safe, LiveClosed
<1>15. sweepgc' \in Seq(Alive') /\ \A x \in Range(sweepgc') : ~Open(x)' /\ x \notin Tmu
    <2>1. \A x \in Range(sweepgc') : x \in Alive /\ ~Open(x) /\ x \notin Tmu /\ x # o
        <3>1. Range(sweepgc) \subseteq Alive
            <4>1. sweepgc \in Seq(Alive)
                BY DEF Safe, ListsOK
            <4> QED
                BY <4>1 DEF Range
        <3> QED
            BY <1>2, <3>1 DEF Safe, Sweeping
    <2>2. \A x \in Range(sweepgc') : x \in Alive' /\ ~Open(x)'
        BY <1>3, <1>4, <1>8, <2>1
    <2>3. DOMAIN sweepgc' = 1..Len(sweepgc') /\ Len(sweepgc') \in Nat /\ sweepgc' \in [1..Len(sweepgc') -> Alive]
        BY <1>2, LenProperties
    <2>4. sweepgc' \in [1..Len(sweepgc') -> Alive']
        BY <2>2, <2>3 DEF Range
    <2> QED
        BY <2>1, <2>2, <2>3, <2>4, SeqDef
<1>16. ListsOK'
    <2>1. IsFiniteSet(closed) /\ closed \subseteq Objs
        BY <1>3, <1>4, ObjsAssumption, FS_Subset
    <2>2. SetToSeq(closed) \in Seq(closed) /\ Range(SetToSeq(closed)) = closed /\ IsInjective(SetToSeq(closed))
        BY <2>1, SetToSeqFacts
    <2> DEFINE s == SetToSeq(closed)
               w == Without(rootgc, freed)
    <2>3. rootgc \in Seq(Objs) /\ IsInjective(rootgc) /\ Range(rootgc) = Listed \ Tmu
        BY DEF Safe, ListsOK, Tmu
    <2>4. w \in Seq(Objs) /\ Range(w) = Range(rootgc) \ freed /\ IsInjective(w)
        BY <2>3, WithoutFacts
    <2>5. s \in Seq(Objs) /\ Range(s) = closed /\ IsInjective(s)
        BY <2>1, <2>2
    <2>6. Range(s) \cap Range(w) = {}
        BY <1>3, <1>4, <2>3, <2>4, <2>5 DEF Listed
    <2> HIDE DEF s, w
    <2>7. s \o w \in Seq(Objs) /\ Range(s \o w) = Range(s) \cup Range(w) /\ IsInjective(s \o w)
        BY <2>4, <2>5, <2>6, ConcatFacts
    <2>8. rootgc' = s \o w
        BY <1>1 DEF s, w
    <2>9. Listed' = (Listed \ freed) \cup closed
        BY <1>3, <1>4, <1>8 DEF Listed
    <2>10. Range(rootgc') \cup Tmu = Listed' /\ Range(rootgc') \cap Tmu = {}
        <3>1. Tmu \subseteq Listed /\ Tmu \cap freed = {} /\ Tmu \cap closed = {}
            BY <1>3, <1>4, <1>9 DEF Safe, ListsOK, Tmu, Sweeping, Of
        <3> QED
            BY <2>3, <2>4, <2>5, <2>7, <2>8, <2>9, <3>1
    <2>11. finalized' \subseteq Of("userdata")' /\ called' \in [Objs -> Nat]
        BY <1>1, <1>3, <1>8 DEF Safe, ListsOK, Of
    <2>12. Range(tmudata') = Tmu /\ tmudata' \in Seq(Objs) /\ IsInjective(tmudata')
        BY <1>1 DEF Safe, ListsOK, Tmu
    <2> QED
        BY <1>15, <2>7, <2>8, <2>10, <2>11, <2>12 DEF ListsOK
<1>17. Sweeping'
    <2>1. Tmu \subseteq Of("userdata")'
        BY <1>3, <1>9 DEF Safe, Sweeping, Of
    <2> QED
        BY <1>1, <1>2, <1>6, <1>9, <1>15, <2>1 DEF Sweeping
<1>18. Colours'
    <2>1. ASSUME NEW x \in Alive', Kind(x) = "thread" \/ Open(x)'
          PROVE  ~Black(g', x)
        <3>1. x \in Alive /\ x \in Objs /\ (Kind(x) = "thread" \/ Open(x)) /\ "black" \notin Whites
            BY <1>3, <1>8, <2>1 DEF Whites
        <3> QED
            BY <1>6, <3>1 DEF Safe, Colours, Black
    <2>2. ASSUME NEW x \in Alive' \ Tmu
          PROVE  Awaiting(x)' \/ g'.color[x] = currentwhite
        <3>1. x \in Alive /\ x \in Objs /\ x \notin freed
            BY <1>3, <1>8
        <3>2. Awaiting(x) \/ g.color[x] = currentwhite
            BY <1>1, <2>2, <3>1 DEF Safe, Colours
        <3>3. CASE x \in spared \/ g.color[x] = currentwhite
            BY <1>6, <3>1, <3>3
        <3>4. CASE x \notin spared /\ Awaiting(x)
            <4>1. x \notin opens /\ x # o
                BY <1>4, <3>1, <3>4
            <4>2. CASE x \in Range(sweepgc)
                BY <1>2, <4>1, <4>2 DEF Awaiting
            <4>3. CASE Open(x) /\ body[x].at[1] \in Range(sweepgc)
                <5>1. body[x].at[1] # o
                    BY <1>3, <3>1, <4>1, <4>3
                <5>2. x \notin closed
                    BY <1>4, <4>1
                <5>3. Open(x)' /\ body'[x] = body[x]
                    BY <1>8, <2>2, <4>3, <5>2
                <5> QED
                    BY <1>2, <4>3, <5>1, <5>3 DEF Awaiting
            <4> QED
                BY <3>4, <4>2, <4>3 DEF Awaiting
        <3> QED
            BY <3>2, <3>3, <3>4
    <2> QED
        BY <1>1, <1>3, <1>6, <1>9, <2>1, <2>2 DEF Colours
<1>19. Marked' /\ Marking'
    BY <1>1, <1>6 DEF Safe, Marked, Marking
<1> QED
    BY <1>11, <1>14, <1>16, <1>17, <1>18, <1>19 DEF Safe

-----------------------------------------------------------------------------
(* The atomic step *)

Finals4  == finalized \cup dying(Marks3)
Strings4 == UNION {kept(Marks4, t) : t \in Marks4.weak}

\* What the atomic step does, with its intermediate marks by name.
LEMMA AtomicIs ==
    ASSUME atomic
    PROVE  /\ gcstate = "propagate" /\ g.gray = {}
           /\ tmudata' = Tmu4 /\ finalized' = Finals4 /\ rootgc' = Without(rootgc, Range(Tmu4))
           /\ body' = [t \in Objs |-> IF t \in Marks4.weak
                                      THEN [body[t] EXCEPT !.entries = cleartable(Marks4, Finals4, t)]
                                      ELSE body[t]]
           /\ g' = [Marks4 EXCEPT !.color = [o \in Objs |-> IF o \in Strings4 THEN "gray" ELSE @[o]]]
           /\ sweepgc' = SetToSeq(Of("string")) \o rootgc'
           /\ gcstate' = "sweep" /\ currentwhite' = otherwhite
           /\ UNCHANGED <<pool, gmt, fin, called>>
BY DEF atomic, Tmu4, Finals4, Strings4, Marks4, Marks3, Marks2, Marks1

\* The marks of the atomic step, and the userdata that are to be finalized.
LEMMA AtomicMarks ==
    ASSUME Safe, gcstate = "propagate", g.gray = {}
    PROVE  /\ Live = Alive /\ Sealed /\ HeapOK /\ Homed
           /\ Marks3 \in Marks /\ Marks4 \in Marks /\ Queued(Marks4)
           /\ Clean(Marks3, Tmu, {}, {}) /\ Clean(Marks4, {}, {}, {})
           /\ Darker(g, Marks3) /\ Darker(g, Marks4)
           /\ {Main, Registry} \subseteq Dark(g) /\ Dark(g) \subseteq Dark(Marks3)
           /\ Objs \cap {gmt} \subseteq Dark(Marks3)
           /\ Dark(Marks3) \cup Range(Tmu4) \subseteq Dark(Marks4)
           /\ Range(Tmu4) = Tmu \cup {u \in dying(Marks3) : HasGC(u)}
           /\ Tmu4 \in Seq(Objs) /\ IsInjective(Tmu4) /\ Range(Tmu4) \subseteq Of("userdata")
           /\ \A T : Within(T) /\ Dark(g) \cup (Objs \cap {gmt}) \subseteq T => Dark(Marks3) \subseteq T
           /\ \A T : Within(T) /\ Dark(Marks3) \cup Range(Tmu4) \subseteq T => Dark(Marks4) \subseteq T
<1>1. Live = Alive /\ Sealed /\ HeapOK /\ Homed /\ g \in Marks /\ currentwhite \in Whites
    BY AllLive DEF Safe, Marked
<1>2. Tri(g, Tmu, {}) /\ {Main, Registry} \subseteq Dark(g)
    BY DEF Safe, Marking
<1>3. Queued(g) /\ Clean(g, Tmu, g.grayagain \cup g.weak \cup GrayOpens, {})
    <2> HIDE DEF Safe
    <2> QED
        BY <1>1, <1>2, TriClean
<1>4. /\ Marks3 \in Marks /\ Queued(Marks3) /\ Darker(g, Marks3) /\ Marks3.gray = {}
      /\ Clean(Marks3, Tmu, {}, {})
      /\ Dark(g) \subseteq Dark(Marks3) /\ Objs \cap {gmt} \subseteq Dark(Marks3)
      /\ \A T : Within(T) /\ Dark(g) \subseteq T /\ Objs \cap {gmt} \subseteq T => Dark(Marks3) \subseteq T
    BY <1>1, <1>3, Marks3Facts
<1> DEFINE D == {u \in dying(Marks3) : HasGC(u)}
           E == Objs \ D
           w == Without(rootgc, E)
<1>5. /\ rootgc \in Seq(Objs) /\ IsInjective(rootgc) /\ Range(rootgc) = Listed \ Tmu
      /\ tmudata \in Seq(Objs) /\ IsInjective(tmudata) /\ Range(tmudata) = Tmu
      /\ Range(rootgc) \subseteq Objs /\ Tmu \subseteq Of("userdata")
    BY DEF Safe, ListsOK, Tmu, Sweeping, Listed, Alive
<1>6. D \subseteq Range(rootgc) /\ D \subseteq Of("userdata")
    BY <1>5 DEF dying, Listed, Of
<1> HIDE DEF D
<1>7. w \in Seq(Objs) /\ Range(w) = D /\ IsInjective(w)
    <2>1. Range(rootgc) \ E = D
        BY <1>5, <1>6
    <2> HIDE DEF E
    <2>2. /\ w \in Seq(Objs) /\ Range(w) = Range(rootgc) \ E
          /\ IsInjective(rootgc) => IsInjective(w)
        <3>1. rootgc \in Seq(Objs)
            BY <1>5
        <3> QED
            BY <3>1, WithoutFacts
    <2> QED
        BY <1>5, <2>1, <2>2
<1> HIDE DEF w
<1>8. tmudata \o w \in Seq(Objs) /\ Range(tmudata \o w) = Tmu \cup D /\ IsInjective(tmudata \o w)
    <2>1. Range(tmudata) \cap Range(w) = {}
        BY <1>5, <1>6, <1>7
    <2> QED
        BY <1>5, <1>7, <2>1, ConcatFacts
<1>9. Tmu4 = tmudata \o w
    BY DEF Tmu4, separateudata, w, E, D
<1>10. Tmu4 \in Seq(Objs) /\ IsInjective(Tmu4) /\ Range(Tmu4) = Tmu \cup D /\ Range(Tmu4) \subseteq Of("userdata")
    BY <1>5, <1>6, <1>8, <1>9
<1>11. Tmu \subseteq Range(Tmu4)
    BY <1>10
<1>12. /\ Marks4 \in Marks /\ Queued(Marks4) /\ Clean(Marks4, {}, {}, {})
       /\ Dark(Marks3) \cup Range(Tmu4) \subseteq Dark(Marks4)
       /\ Darker(g, Marks4)
       /\ \A T : Within(T) /\ Dark(Marks3) \cup Range(Tmu4) \subseteq T => Dark(Marks4) \subseteq T
    BY <1>1, <1>4, <1>10, <1>11, Marks4Facts
<1>13. \A T : Within(T) /\ Dark(g) \cup (Objs \cap {gmt}) \subseteq T => Dark(Marks3) \subseteq T
    BY <1>4
<1> QED
    BY <1>1, <1>2, <1>4, <1>10, <1>12, <1>13 DEF D

\* What changes in the heap: weak tables lose entries.
LEMMA AtomicHeap ==
    ASSUME Safe, atomic
    PROVE  /\ HeapOK' /\ Homed' /\ Alive' = Alive /\ \A x : Kind(x)' = Kind(x)
           /\ \A x \in Alive : Open(x)' <=> Open(x)
           /\ \A x \in Alive \ Marks4.weak : body'[x] = body[x] /\ All(x)' = All(x)
           /\ \A t \in Marks4.weak : /\ t \in Of("table") /\ body'[t].mt = body[t].mt
                                     /\ body'[t].entries = cleartable(Marks4, Finals4, t)
                                     /\ All(t)' = Objs \cap ({body[t].mt} \cup
                                           UNION {{e[1], e[2]} : e \in cleartable(Marks4, Finals4, t)})
           /\ \A x \in Alive : All(x)' \subseteq All(x)
           /\ Marks4.weak \subseteq Of("table")
<1> DEFINE weak == Marks4.weak
           left(t) == cleartable(Marks4, Finals4, t)
           b(t) == [body[t] EXCEPT !.entries = left(t)]
<1>1. /\ body' = [t \in Objs |-> IF t \in weak THEN b(t) ELSE body[t]]
      /\ pool' = pool /\ gmt' = gmt /\ fin' = fin /\ gcstate = "propagate" /\ g.gray = {}
    BY AtomicIs
<1>2. weak \subseteq Of("table") /\ Sealed /\ HeapOK /\ Homed /\ Alive \subseteq Objs /\ \A x : Kind(x)' = Kind(x)
    BY <1>1, AtomicMarks DEF Queued, Of, Alive, Kind
<1>3. \A t \in weak : /\ b(t) \in Bodies(pool, "table", Objs) /\ b(t) # nil
                      /\ b(t).entries = left(t) /\ b(t).mt = body[t].mt
    <2>1. nil \notin Bodies(pool, "table", Objs)
        BY PoolFacts DEF Kinds, Safe, HeapOK
    <2>2. ASSUME NEW t \in weak
          PROVE  b(t) \in Bodies(pool, "table", Objs) /\ b(t).entries = left(t) /\ b(t).mt = body[t].mt
        <3> DEFINE values == {o \in Objs : pool[o].kind # "upval"}
                   cells  == values \cup {Plain}
                   tables == {o \in Objs : pool[o].kind = "table"}
        <3>1. body[t] \in [entries : SUBSET (cells \X cells), mt : tables \cup {nil}]
            BY <1>2 DEF HeapOK, Of, Bodies, Kind
        <3>2. left(t) \subseteq body[t].entries
            BY DEF cleartable
        <3>3. Bodies(pool, "table", Objs) = [entries : SUBSET (cells \X cells), mt : tables \cup {nil}]
            BY DEF Bodies
        <3> HIDE DEF values, cells, tables, left
        <3> QED
            BY <3>1, <3>2, <3>3
    <2> QED
        BY <2>1, <2>2
<1> HIDE DEF weak, left, b
<1>4. /\ DOMAIN body' = Objs /\ \A x \in Objs \ weak : body'[x] = body[x]
      /\ \A t \in weak : t \in Objs /\ t \in Alive /\ Kind(t) = "table" /\ body'[t] = b(t)
    BY <1>1, <1>2 DEF Of
<1>5. Alive' = Alive
    BY <1>2, <1>3, <1>4 DEF Alive
<1>6. \A x \in Alive : Open(x)' <=> Open(x)
    BY <1>2, <1>4 DEF Open, Closed, Alive
<1>7. HeapOK'
    <2>1. \A x \in Alive' : body'[x] \in Bodies(pool', Kind(x)', Objs)
        BY <1>1, <1>2, <1>3, <1>4, <1>5 DEF HeapOK
    <2>2. gmt' \in (Of("table") \cup {nil})' /\ fin' \in Seq(Objs) /\ Range(fin') \subseteq Of("userdata")'
        BY <1>1, <1>2, <1>5 DEF HeapOK, Of
    <2> QED
        BY <1>1, <1>2, <1>4, <1>5, <2>1, <2>2 DEF HeapOK
<1>8. \A u \in Alive : Open(u) => body'[u].at = body[u].at
    BY <1>2, <1>4 DEF Open
<1>9. Homed'
    BY <1>2, <1>5, <1>6, <1>8 DEF Homed
<1>10. ASSUME NEW x \in Alive \ weak
       PROVE  body'[x] = body[x] /\ All(x)' = All(x)
    <2>1. body'[x] = body[x] /\ x \in Objs
        BY <1>2, <1>4
    <2>2. Kind(x) = "upval" => upvalue(x)' = upvalue(x)
        <3>1. CASE ~Open(x)
            BY <1>6, <2>1, <3>1 DEF upvalue
        <3>2. CASE Open(x)
            <4>1. body[x].at[1] \in Alive /\ Kind(body[x].at[1]) = "thread"
                BY <3>2, UpvalueFacts DEF Open, Of
            <4>2. body'[body[x].at[1]] = body[body[x].at[1]]
                BY <1>2, <1>4, <4>1
            <4> QED
                BY <1>6, <2>1, <3>2, <4>2 DEF upvalue
        <3> QED
            BY <3>1, <3>2
    <2> QED
        BY <1>1, <2>1, <2>2, SameRefs
<1>11. ASSUME NEW t \in weak
       PROVE  /\ body'[t].mt = body[t].mt /\ body'[t].entries = left(t)
              /\ All(t)' = Objs \cap ({body[t].mt} \cup UNION {{e[1], e[2]} : e \in left(t)})
              /\ All(t)' \subseteq All(t)
    <2>1. body'[t].mt = body[t].mt /\ body'[t].entries = left(t) /\ Kind(t) = "table" /\ t \in Alive
        BY <1>3, <1>4
    <2>2. All(t) = Objs \cap ({body[t].mt} \cup UNION {{e[1], e[2]} : e \in body[t].entries})
        BY <1>2, <2>1, StrongFacts
    <2>3. All(t)' = Objs \cap ({body'[t].mt} \cup UNION {{e[1], e[2]} : e \in body'[t].entries})
        <3>1. All(t)' = (Strong(t)' \cup Weak(t)') /\ Kind(t)' = "table"
            BY <1>2, <2>1 DEF All
        <3>2. Weak(t)' = Objs \cap UNION {{e[1], e[2]} : e \in body'[t].entries}
            BY <3>1 DEF Weak
        <3>3. /\ Strong(t)' \subseteq Objs \cap ({body'[t].mt} \cup UNION {{e[1], e[2]} : e \in body'[t].entries})
              /\ Objs \cap {body'[t].mt} \subseteq Strong(t)'
            BY <3>1 DEF Strong
        <3> QED
            BY <3>1, <3>2, <3>3
    <2>4. left(t) \subseteq body[t].entries
        BY DEF left, cleartable
    <2>5. All(t)' = Objs \cap ({body[t].mt} \cup UNION {{e[1], e[2]} : e \in left(t)})
        BY <2>1, <2>3
    <2>6. All(t)' \subseteq All(t)
        BY <2>2, <2>4, <2>5
    <2> QED
        BY <2>1, <2>5, <2>6
<1>12. \A x \in Alive : All(x)' \subseteq All(x)
    BY <1>10, <1>11
<1> HIDE DEF Safe
<1> QED
    BY <1>2, <1>5, <1>6, <1>7, <1>9, <1>10, <1>11, <1>12 DEF weak, left

\* After `atomic', what is white is dead, and all that lives refers to what lives.
LEMMA AtomicSafe ==
    ASSUME Safe, atomic
    PROVE  Safe'
<1>1. /\ gcstate = "propagate" /\ g.gray = {}
      /\ tmudata' = Tmu4 /\ finalized' = Finals4 /\ rootgc' = Without(rootgc, Range(Tmu4))
      /\ g' = [Marks4 EXCEPT !.color = [o \in Objs |-> IF o \in Strings4 THEN "gray" ELSE @[o]]]
      /\ sweepgc' = SetToSeq(Of("string")) \o rootgc'
      /\ gcstate' = "sweep" /\ currentwhite' = otherwhite
      /\ pool' = pool /\ gmt' = gmt /\ fin' = fin /\ called' = called
    BY AtomicIs
<1>2. /\ Live = Alive /\ Sealed /\ HeapOK /\ Homed
      /\ Marks4 \in Marks /\ Queued(Marks4) /\ Clean(Marks4, {}, {}, {}) /\ Darker(g, Marks4)
      /\ {Main, Registry} \subseteq Dark(Marks4) /\ Objs \cap {gmt} \subseteq Dark(Marks4)
      /\ Range(Tmu4) \subseteq Dark(Marks4) /\ Range(Tmu4) = Tmu \cup {u \in dying(Marks3) : HasGC(u)}
      /\ Tmu4 \in Seq(Objs) /\ IsInjective(Tmu4) /\ Range(Tmu4) \subseteq Of("userdata")
    BY <1>1, AtomicMarks
<1>3. /\ HeapOK' /\ Homed' /\ Alive' = Alive /\ \A x : Kind(x)' = Kind(x)
      /\ \A x \in Alive : Open(x)' <=> Open(x)
      /\ \A x \in Alive \ Marks4.weak : body'[x] = body[x] /\ All(x)' = All(x)
      /\ \A t \in Marks4.weak : /\ t \in Of("table") /\ body'[t].mt = body[t].mt
                                /\ body'[t].entries = cleartable(Marks4, Finals4, t)
                                /\ All(t)' = Objs \cap ({body[t].mt} \cup
                                      UNION {{e[1], e[2]} : e \in cleartable(Marks4, Finals4, t)})
    BY AtomicHeap
<1>4. /\ Alive \subseteq Objs /\ currentwhite \in Whites /\ otherwhite \in Whites /\ otherwhite # currentwhite
      /\ otherwhite' = currentwhite /\ \A x \in Alive : g.color[x] # otherwhite
    <2>1. currentwhite \in Whites
        BY DEF Safe, Marked
    <2>2. otherwhite \in Whites /\ otherwhite # currentwhite /\ otherwhite' = currentwhite
        BY <1>1, <2>1 DEF otherwhite, Whites
    <2> QED
        BY <1>1, <2>1, <2>2 DEF Alive, Safe, Colours, isdead
<1>5. /\ Strings4 \subseteq Alive /\ \A o \in Strings4 : Kind(o) = "string"
    <2>1. ASSUME NEW t \in Marks4.weak, NEW o \in kept(Marks4, t)
          PROVE  o \in Alive /\ Kind(o) = "string"
        <3>1. o \in Weak(t) /\ Kind(o) = "string" /\ t \in Alive
            BY <1>3 DEF kept, Of
        <3> QED
            BY <1>2, <3>1 DEF Sealed, All
    <2> QED
        BY <2>1 DEF Strings4
<1>6. g' \in Marks /\ \A x \in Objs : g'.color[x] = IF x \in Strings4 THEN "gray" ELSE Marks4.color[x]
    <2> DEFINE col == [o \in Objs |-> IF o \in Strings4 THEN "gray" ELSE Marks4.color[o]]
    <2>1. col \in [Objs -> Whites \cup {"gray", "black"}]
        BY <1>2 DEF Marks
    <2>2. \A x \in Objs : col[x] = IF x \in Strings4 THEN "gray" ELSE Marks4.color[x]
        OBVIOUS
    <2>3. g' = [Marks4 EXCEPT !.color = col]
        BY <1>1
    <2> HIDE DEF col
    <2>4. g' \in Marks /\ g'.color = col
        BY <1>2, <2>1, <2>3 DEF Marks
    <2> QED
        BY <2>2, <2>4
\* What is dark, and the strings that weak tables keep, are live now.
<1>7. Live' = {x \in Alive : x \in Dark(Marks4) \/ x \in Strings4}
    <2>1. ASSUME NEW x \in Alive
          PROVE  ~isdead(x)' <=> x \in Dark(Marks4) \/ x \in Strings4
        <3>0. x \in Objs /\ (isdead(x)' <=> g'.color[x] = currentwhite)
            BY <1>4, <2>1 DEF isdead
        <3>1. CASE x \in Strings4
            BY <1>4, <1>6, <3>0, <3>1 DEF Whites
        <3>2. CASE x \notin Strings4 /\ White(Marks4, x)
            <4>1. Marks4.color[x] \in Whites /\ Marks4.color[x] = g.color[x]
                BY <1>2, <3>0, <3>2 DEF Darker, White
            <4>2. Marks4.color[x] = currentwhite
                BY <1>4, <4>1 DEF otherwhite, Whites
            <4> QED
                BY <1>6, <3>0, <3>2, <4>2 DEF Dark
        <3>3. CASE x \notin Strings4 /\ ~White(Marks4, x)
            BY <1>4, <1>6, <3>0, <3>3 DEF Dark, White
        <3> QED
            BY <3>1, <3>2, <3>3
    <2> QED
        BY <1>3, <2>1 DEF Live
<1>8. LiveClosed'
    <2>1. Roots' \subseteq Live'
        <3>1. {Main, Registry} \subseteq Alive /\ Objs \cap {gmt} \subseteq Alive /\ Range(Tmu4) \subseteq Alive
            BY <1>2, ObjsAssumption DEF HeapOK, Of
        <3>2. Roots' = Objs \cap ({Main, Registry, gmt} \cup Range(Tmu4))
            BY <1>1 DEF Roots
        <3> QED
            BY <1>2, <1>7, <3>1, <3>2
    <2>2. ASSUME NEW o \in Live'
          PROVE  All(o)' \subseteq Live'
        <3>0. o \in Alive /\ All(o) \subseteq Alive
            BY <1>2, <1>7 DEF Sealed
        <3>1. CASE o \notin Dark(Marks4)
            <4>1. Kind(o)' = "string"
                BY <1>3, <1>5, <1>7, <3>1
            <4> QED
                BY <4>1 DEF All, Strong, Weak
        <3>2. CASE o \in Dark(Marks4) /\ o \notin Marks4.weak
            <4>1. All(o) \subseteq Dark(Marks4)
                BY <1>2, <3>0, <3>2 DEF Clean, Dark, All
            <4> QED
                BY <1>3, <1>7, <3>0, <3>2, <4>1
        <3>3. CASE o \in Dark(Marks4) /\ o \in Marks4.weak
            <4>1. Objs \cap {body[o].mt} \subseteq Dark(Marks4) /\ Objs \cap {body[o].mt} \subseteq All(o)
                <5>1. Strong(o) \subseteq Dark(Marks4)
                    BY <1>2, <3>0, <3>3 DEF Clean, Dark
                <5>2. Objs \cap {body[o].mt} \subseteq Strong(o)
                    BY <1>3, <3>3 DEF Strong, Of
                <5> QED
                    BY <5>1, <5>2 DEF All
            <4>2. ASSUME NEW e \in cleartable(Marks4, Finals4, o), NEW x \in Objs, x = e[1] \/ x = e[2]
                  PROVE  x \in Live'
                <5>1. /\ e \in body[o].entries /\ ~iscleared(Marks4, Finals4, e[1], TRUE)
                      /\ ~iscleared(Marks4, Finals4, e[2], FALSE)
                    BY DEF cleartable
                <5>2. x \in Weak(o) /\ x \in Alive
                    <6>1. Weak(o) = Objs \cap UNION {{f[1], f[2]} : f \in body[o].entries}
                        BY <1>3, <3>3 DEF Weak, Of
                    <6>2. x \in {e[1], e[2]}
                        BY <4>2
                    <6>3. x \in Weak(o)
                        BY <5>1, <6>1, <6>2
                    <6> QED
                        BY <3>0, <6>3 DEF All
                <5>3. CASE Kind(x) # "string"
                    BY <1>7, <4>2, <5>1, <5>2, <5>3 DEF iscleared, Dark
                <5>4. CASE Kind(x) = "string"
                    <6>1. ~iscleared(Marks4, {}, e[1], TRUE)
                        BY <5>1 DEF iscleared
                    <6>2. x \in kept(Marks4, o)
                        BY <4>2, <5>1, <5>2, <5>4, <6>1 DEF kept
                    <6>3. x \in Strings4
                        BY <3>3, <6>2 DEF Strings4
                    <6> QED
                        BY <1>7, <5>2, <6>3
                <5> QED
                    BY <5>3, <5>4
            <4>3. Objs \cap {body[o].mt} \subseteq Live'
                BY <1>7, <3>0, <4>1
            <4>4. All(o)' = Objs \cap ({body[o].mt} \cup UNION {{e[1], e[2]} : e \in cleartable(Marks4, Finals4, o)})
                BY <1>3, <3>3
            <4> QED
                BY <4>2, <4>3, <4>4
        <3> QED
            BY <3>1, <3>2, <3>3
    <2> QED
        BY <2>1, <2>2 DEF LiveClosed
<1> DEFINE T == Range(Tmu4)
           r == Without(rootgc, T)
           s == SetToSeq(Of("string"))
<1>9. /\ rootgc \in Seq(Objs) /\ IsInjective(rootgc) /\ Range(rootgc) = Listed \ Tmu
      /\ Listed' = Listed
    BY <1>3 DEF Safe, ListsOK, Tmu, Listed
<1>10. r \in Seq(Objs) /\ Range(r) = Range(rootgc) \ T /\ IsInjective(r) /\ r = rootgc'
    <2>1. rootgc \in Seq(Objs)
        BY <1>9
    <2> HIDE DEF T
    <2>2. /\ r \in Seq(Objs) /\ Range(r) = Range(rootgc) \ T
          /\ IsInjective(rootgc) => IsInjective(r)
        BY <2>1, WithoutFacts
    <2> HIDE DEF r
    <2>3. r = rootgc'
        BY <1>1 DEF r, T
    <2> QED
        BY <1>9, <2>2, <2>3
<1>11. Range(r) = Listed \ T /\ T \subseteq Listed
    <2>1. Tmu \subseteq T /\ T \subseteq Of("userdata")
        BY <1>2
    <2>2. T \subseteq Listed
        BY <2>1 DEF Of, Listed, Open
    <2> QED
        BY <1>9, <1>10, <2>1, <2>2
<1>12. s \in Seq(Of("string")) /\ Range(s) = Of("string") /\ IsInjective(s)
    <2>1. IsFiniteSet(Of("string"))
        BY <1>4, ObjsAssumption, FS_Subset DEF Of
    <2> QED
        BY <2>1, SetToSeqFacts
<1> HIDE DEF r, s, T
<1>13. r \in Seq(Alive) /\ s \in Seq(Alive)
    <2>1. Range(r) \subseteq Alive /\ Of("string") \subseteq Alive
        BY <1>11 DEF Listed, Of
    <2>2. DOMAIN r = 1..Len(r) /\ Len(r) \in Nat /\ r \in [1..Len(r) -> Objs]
        BY <1>10, LenProperties
    <2>3. r \in [1..Len(r) -> Alive]
        BY <2>1, <2>2 DEF Range
    <2> QED
        BY <1>12, <2>1, <2>2, <2>3, SeqDef
<1>14. sweepgc' \in Seq(Alive) /\ Range(sweepgc') = Of("string") \cup (Listed \ T) /\ IsInjective(sweepgc')
    <2>1. Range(s) \cap Range(r) = {}
        BY <1>11, <1>12 DEF Of, Listed
    <2>2. s \o r \in Seq(Alive) /\ Range(s \o r) = Range(s) \cup Range(r) /\ IsInjective(s \o r)
        BY <1>10, <1>12, <1>13, <2>1, ConcatFacts
    <2>3. sweepgc' = s \o r
        BY <1>1, <1>10 DEF s
    <2> QED
        BY <1>11, <1>12, <2>2, <2>3
<1>15. Tmu' = T /\ Range(tmudata') = T
    BY <1>1 DEF Tmu, T
<1>16. ListsOK'
    <2>1. Range(rootgc') \cup T = Listed /\ Range(rootgc') \cap T = {}
        BY <1>10, <1>11
    <2>2. finalized' \subseteq Of("userdata")'
        <3>1. finalized \subseteq Of("userdata") /\ dying(Marks3) \subseteq Of("userdata")
            BY <1>9 DEF Safe, ListsOK, dying, Listed, Of
        <3> QED
            BY <1>1, <1>3, <3>1 DEF Finals4, Of
    <2>3. called' \in [Objs -> Nat]
        BY <1>1 DEF Safe, ListsOK
    <2> QED
        BY <1>1, <1>2, <1>3, <1>9, <1>10, <1>14, <1>15, <2>1, <2>2, <2>3 DEF ListsOK
<1>17. Sweeping'
    <2>1. T \subseteq Of("userdata")'
        BY <1>2, <1>3 DEF Of, T
    <2>2. \A x \in Range(sweepgc') : ~Open(x)' /\ x \notin T
        <3>1. \A x \in Range(sweepgc') : ~Open(x) /\ x \in Alive
            BY <1>14 DEF Of, Listed, Open
        <3>2. Of("string") \cap T = {}
            BY <1>2 DEF Of, T
        <3> QED
            BY <1>3, <1>14, <3>1, <3>2
    <2> QED
        BY <1>1, <1>14, <1>15, <2>1, <2>2 DEF Sweeping
<1>18. Colours'
    <2>1. ASSUME NEW x \in Alive, Kind(x) = "thread" \/ Open(x)
          PROVE  ~Black(g', x)
        <3>1. ~Black(g, x)
            BY <1>1, <2>1 DEF Safe, Colours
        <3>2. ~Black(Marks4, x)
            BY <1>2, <1>4, <2>1, <3>1 DEF Darker, IsThread
        <3> QED
            BY <1>4, <1>6, <3>2 DEF Black
    <2>2. ASSUME NEW x \in Alive \ T
          PROVE  Awaiting(x)'
        <3>1. CASE Open(x)
            <4>1. x \in Of("upval") /\ Kind(x) = "upval"
                BY <3>1 DEF Open, Of
            <4>2. body[x].at[1] \in Alive /\ Kind(body[x].at[1]) = "thread"
                BY <3>1, <4>1, UpvalueFacts
            <4>3. body[x].at[1] \in Listed /\ body[x].at[1] \notin T
                BY <1>2, <4>2 DEF Listed, Open, Of, T
            <4>4. body'[x] = body[x] /\ Open(x)'
                BY <1>3, <3>1, <4>1 DEF Of
            <4> QED
                BY <1>14, <4>3, <4>4 DEF Awaiting
        <3>2. CASE ~Open(x)
            <4>1. x \in Range(sweepgc')
                BY <1>14, <2>2, <3>2 DEF Of, Listed
            <4> QED
                BY <4>1 DEF Awaiting
        <3> QED
            BY <3>1, <3>2
    <2> QED
        BY <1>1, <1>3, <1>15, <2>1, <2>2 DEF Colours
<1>19. Marked' /\ Marking'
    BY <1>1, <1>4, <1>6 DEF Marked, Marking, States
<1> HIDE DEF Safe
<1> QED
    BY <1>3, <1>8, <1>16, <1>17, <1>18, <1>19 DEF Safe

-----------------------------------------------------------------------------
(* The beginning, and every step *)

\* The heap that a pool begins with is a heap, and refers to itself only.
LEMMA InitHeap ==
    ASSUME Init
    PROVE  /\ HeapOK /\ Homed /\ Sealed /\ Tmu = {}
           /\ Main \in Listed /\ Main \notin Of("userdata") /\ Registry \in Alive /\ IsFiniteSet(Alive)
           /\ Range(rootgc) = Listed /\ IsInjective(rootgc) /\ rootgc \in Seq(Objs)
<1>1. /\ pool \in Pools /\ body = [o \in Objs |-> pool[o].body] /\ gmt = nil /\ fin = <<>> /\ tmudata = <<>>
      /\ rootgc = SetToSeq(Listed \ (Of("userdata") \cup {Main})) \o <<Main>> \o SetToSeq(Of("userdata"))
    BY DEF Init
<1>2. /\ {Main, Registry} \subseteq Alive /\ Alive \subseteq Objs
      /\ \A o \in Alive : body[o] \in Bodies(pool, Kind(o), Alive) /\ Kind(o) \in Kinds
    <2>1. Alive = {o \in Objs : pool[o].body # nil}
        BY <1>1 DEF Alive
    <2>2. Alive \subseteq Objs /\ \A o \in Alive : body[o] = pool[o].body
        BY <1>1, <2>1
    <2> QED
        BY <1>1, <2>1, <2>2, PoolsAssumption DEF Kind
<1>3. Kind(Main) = "thread" /\ Kind(Registry) = "table" /\ nil \notin Objs /\ Plain \notin Objs
    BY <1>1, PoolFacts, ObjsAssumption
<1>4. \A k \in Kinds : \A b \in Bodies(pool, k, Alive) : b \in Bodies(pool, k, Objs)
    <2> SUFFICES ASSUME NEW k \in Kinds, NEW b \in Bodies(pool, k, Alive)
                 PROVE  b \in Bodies(pool, k, Objs)
        OBVIOUS
    <2>1. CASE k = "table"
        BY <1>2, <2>1 DEF Bodies
    <2>2. CASE k = "userdata"
        BY <1>2, <2>2 DEF Bodies
    <2>3. CASE k = "function"
        BY <1>2, <2>3 DEF Bodies
    <2>4. CASE k = "upval"
        BY <1>2, <2>4 DEF Bodies
    <2>5. CASE k = "thread"
        BY <1>2, <2>5 DEF Bodies
    <2>6. CASE k = "string"
        BY <1>2, <2>6 DEF Bodies
    <2> QED
        BY <2>1, <2>2, <2>3, <2>4, <2>5, <2>6 DEF Kinds
<1>5. HeapOK /\ Range(fin) = {}
    <2>1. fin \in Seq(Objs) /\ Range(fin) = {}
        BY <1>1 DEF Range
    <2> QED
        BY <1>1, <1>2, <1>4, <2>1 DEF HeapOK
<1>6. Homed
    <2> SUFFICES ASSUME NEW u \in Alive, Open(u) PROVE body[u].at[1] \in Alive
        BY DEF Homed
    <2>1. body[u] \in Bodies(pool, "upval", Alive) /\ body[u].at # <<>>
        BY <1>2 DEF Open, Closed
    <2>2. body[u].at \in {o \in Alive : pool[o].kind = "thread"} \X Slots
        BY <2>1 DEF Bodies
    <2> QED
        BY <2>2
<1>7. Sealed
    <2> SUFFICES ASSUME NEW o \in Alive, NEW v \in All(o), v \in Objs PROVE v \in Alive
        BY <1>5, <1>6, StrongFacts DEF Sealed, All
    <2>0. body[o] \in Bodies(pool, Kind(o), Alive)
        BY <1>2
    <2>1. CASE Kind(o) = "table"
        <3>1. v \in {body[o].mt} \cup UNION {{e[1], e[2]} : e \in body[o].entries}
            BY <1>5, <1>6, <2>1, StrongFacts
        <3>2. body[o].mt \in Alive \cup {nil} /\ \A e \in body[o].entries : e[1] \in Alive \cup {Plain} /\ e[2] \in Alive \cup {Plain}
            BY <2>0, <2>1 DEF Bodies
        <3> QED
            BY <1>3, <3>1, <3>2
    <2>2. CASE Kind(o) = "userdata"
        <3>1. v = body[o].mt
            BY <1>5, <1>6, <2>2, StrongFacts DEF All
        <3>2. body[o].mt \in Alive \cup {nil}
            BY <2>0, <2>2 DEF Bodies
        <3> QED
            BY <1>3, <3>1, <3>2
    <2>3. CASE Kind(o) = "function"
        <3>1. v = body[o].up
            BY <1>5, <1>6, <2>3, StrongFacts DEF All
        <3>2. body[o].up \in Alive \cup {nil}
            BY <2>0, <2>3 DEF Bodies
        <3> QED
            BY <1>3, <3>1, <3>2
    <2>4. ASSUME NEW th \in Alive, Kind(th) = "thread", NEW s \in Slots
          PROVE  body[th].stack[s] \in Alive \cup {nil}
        <3>1. body[th] \in Bodies(pool, "thread", Alive)
            BY <1>2, <2>4
        <3> QED
            BY <2>4, <3>1 DEF Bodies
    <2>5. CASE Kind(o) = "upval"
        <3>1. v = upvalue(o)
            BY <1>5, <1>6, <2>5, StrongFacts DEF All
        <3>2. body[o].v \in Alive \cup {nil}
            BY <2>0, <2>5 DEF Bodies
        <3>3. Open(o) => body[o].at[1] \in Alive /\ Kind(body[o].at[1]) = "thread" /\ body[o].at[2] \in Slots
            BY <1>5, <1>6, <2>5, BodyFacts DEF Homed
        <3> QED
            BY <1>3, <2>4, <3>1, <3>2, <3>3 DEF upvalue
    <2>6. CASE Kind(o) = "thread"
        <3>1. v \in StackOf(o)
            BY <1>5, <1>6, <2>6, StrongFacts DEF All
        <3> QED
            BY <1>3, <1>5, <2>4, <2>6, <3>1 DEF StackOf
    <2>7. CASE Kind(o) = "string"
        BY <1>5, <1>6, <2>7, StrongFacts DEF All
    <2> QED
        BY <1>2, <2>1, <2>2, <2>3, <2>5, <2>6, <2>7 DEF Kinds
<1>8. Tmu = {}
    BY <1>1 DEF Tmu, Range
<1>9. Main \in Listed /\ Main \notin Of("userdata")
    BY <1>2, <1>3 DEF Listed, Of, Open
<1> DEFINE A == Listed \ (Of("userdata") \cup {Main})
           B == Of("userdata")
<1>10. IsFiniteSet(A) /\ IsFiniteSet(B) /\ A \subseteq Objs /\ B \subseteq Objs /\ Main \in Objs /\ IsFiniteSet(Alive)
    <2>1. A \subseteq Objs /\ B \subseteq Objs /\ Main \in Objs
        BY <1>2 DEF Listed, Of
    <2> HIDE DEF A, B
    <2> QED
        BY <1>2, <2>1, FS_Subset, ObjsAssumption
<1>11. A \cup {Main} \cup B = Listed /\ A \cap {Main} = {} /\ (A \cup {Main}) \cap B = {}
    BY <1>9 DEF Listed, Of, Open
<1> DEFINE a == SetToSeq(A)
           b == SetToSeq(B)
<1>12. rootgc = a \o <<Main>> \o b
    BY <1>1
<1> HIDE DEF A, B
<1>13. /\ a \in Seq(A) /\ Range(a) = A /\ IsInjective(a)
       /\ b \in Seq(B) /\ Range(b) = B /\ IsInjective(b)
    BY <1>10, SetToSeqFacts
<1>14. a \in Seq(Objs) /\ b \in Seq(Objs)
    BY <1>10, <1>13, SeqDef
<1> HIDE DEF a, b
<1> DEFINE one == <<Main>>
           c == a \o one
<1>15. one \in Seq(Objs) /\ Range(one) = {Main} /\ IsInjective(one)
    BY <1>10, OneFacts
<1>16. rootgc = c \o b
    BY <1>12
<1> HIDE DEF one
<1>17. c \in Seq(Objs) /\ Range(c) = A \cup {Main} /\ IsInjective(c)
    BY <1>11, <1>13, <1>14, <1>15, ConcatFacts
<1> HIDE DEF c
<1>18. c \o b \in Seq(Objs) /\ Range(c \o b) = Listed /\ IsInjective(c \o b)
    <2>1. Range(c) \cap Range(b) = {} /\ Range(c) \cup Range(b) = Listed
        BY <1>11, <1>13, <1>17
    <2>2. c \in Seq(Objs) /\ b \in Seq(Objs) /\ IsInjective(c) /\ IsInjective(b)
        BY <1>13, <1>14, <1>17
    <2>3. /\ c \o b \in Seq(Objs) /\ Range(c \o b) = Range(c) \cup Range(b)
          /\ Range(c) \cap Range(b) = {} => IsInjective(c \o b)
        BY <2>2, ConcatFacts
    <2> QED
        BY <2>1, <2>3
<1> QED
    BY <1>2, <1>5, <1>6, <1>7, <1>8, <1>9, <1>10, <1>16, <1>18

\* A collection begins with everything white.
LEMMA InitSafe ==
    ASSUME Init
    PROVE  Safe
<1>1. /\ HeapOK /\ Homed /\ Sealed /\ Tmu = {}
      /\ Main \in Listed /\ Main \notin Of("userdata") /\ Registry \in Alive
      /\ Range(rootgc) = Listed /\ IsInjective(rootgc) /\ rootgc \in Seq(Objs)
    BY InitHeap
<1>2. /\ gmt = nil /\ sweepgc = <<>> /\ tmudata = <<>>
      /\ g = [color |-> [o \in Objs |-> "white0"], gray |-> {}, grayagain |-> {}, weak |-> {}]
      /\ gcstate = "pause" /\ currentwhite = "white0"
      /\ finalized = {} /\ called = [o \in Objs |-> 0]
    BY DEF Init
<1>3. Alive \subseteq Objs /\ nil \notin Objs
    BY ObjsAssumption DEF Alive
<1>4. Range(tmudata) = {} /\ Range(sweepgc) = {} /\ IsInjective(sweepgc) /\ IsInjective(tmudata)
    BY <1>2 DEF Range, IsInjective
<1>5. ListsOK
    BY <1>1, <1>2, <1>4 DEF ListsOK
<1>6. g \in Marks /\ \A o \in Objs : g.color[o] = "white0"
    BY <1>2 DEF Marks, Whites
<1>7. Marked
    BY <1>2, <1>6 DEF Marked, States, Whites
<1>8. Sweeping
    BY <1>1, <1>2, <1>4 DEF Sweeping
<1>9. Colours
    BY <1>2, <1>3, <1>6 DEF Colours, Black, isdead, otherwhite
<1>10. Live = Alive
    BY <1>9, <1>2 DEF Live, Colours
<1>11. Roots \subseteq Alive
    BY <1>1, <1>2, <1>3, <1>4 DEF Roots, Listed
<1>12. LiveClosed /\ Marking
    BY <1>1, <1>2, <1>10, <1>11 DEF LiveClosed, Marking, Sealed
<1> QED
    BY <1>1, <1>5, <1>7, <1>8, <1>9, <1>12 DEF Safe

\* Every step of the program and of the collector keeps the invariant, unless
\* lua_setupvalue misses a barrier.
LEMMA NextSafe ==
    ASSUME Safe, ~missed', [Next]_vars
    PROVE  Safe'
<1>1. CASE Begin
    BY <1>1, MarkrootSafe, FullgcSafe DEF Begin
<1>2. CASE Goon
    BY <1>2, PropagateSafe, AtomicSafe, SweeplistSafe, SweepDoneSafe, GCTMSafe, FinalizerReturnSafe DEF Goon
<1>3. CASE Program \/ Setupvalue
    BY <1>3, ProgramSafe, SetupvalueSafe DEF Setupvalue
<1>4. CASE UNCHANGED vars
    <2>1. /\ UNCHANGED heap /\ g' = g /\ gcstate' = gcstate /\ currentwhite' = currentwhite
          /\ pool' = pool /\ body' = body /\ gmt' = gmt /\ fin' = fin
          /\ rootgc' = rootgc /\ sweepgc' = sweepgc /\ tmudata' = tmudata
          /\ finalized' = finalized /\ called' = called
        BY <1>4 DEF vars, heap, phase, lists
    <2>2. /\ Alive' = Alive /\ Listed' = Listed /\ (HeapOK' <=> HeapOK) /\ (Homed' <=> Homed)
          /\ \A k : Of(k)' = Of(k)
          /\ \A x : Kind(x)' = Kind(x) /\ (Open(x)' <=> Open(x)) /\ All(x)' = All(x)
        BY <2>1, HeapSame
    <2>3. Tmu' = Tmu /\ otherwhite' = otherwhite /\ Roots' = Roots /\ Live' = Live
        BY <2>1, <2>2 DEF Tmu, otherwhite, Roots, Live, isdead
    <2>4. ListsOK' /\ Marked' /\ Sweeping' /\ LiveClosed'
        BY <2>1, <2>2, <2>3 DEF Safe, ListsOK, Marked, Sweeping, LiveClosed
    <2>5. Colours'
        BY <2>1, <2>2, <2>3 DEF Safe, Colours, Awaiting, Black, isdead
    <2>6. Marking'
        <3>1. gcstate = "propagate" => Tri(g, Tmu, {})'
            BY <2>1, <2>2, <2>3
            DEF Safe, Marking, Tri, Blacks, Grays, Queues, Dark, White, Black, Gray
        <3>2. Dark(g)' = Dark(g)
            BY <2>1 DEF Dark, White
        <3> QED
            BY <2>1, <2>3, <3>1, <3>2 DEF Safe, Marking
    <2> QED
        BY <2>2, <2>4, <2>5, <2>6 DEF Safe
<1> HIDE DEF Safe
<1> QED
    BY <1>1, <1>2, <1>3, <1>4 DEF Next

\* What lua_setupvalue has missed stays missed.
LEMMA MissedStays ==
    ASSUME [Next]_vars, ~missed'
    PROVE  ~missed
<1>1. \A c, v : lua_setupvalue(c, v) => ~missed
    BY DEF lua_setupvalue
<1> QED
    BY <1>1 DEF Next, Setupvalue, vars

\* The invariant holds for as long as lua_setupvalue has not put a white value
\* in a black upvalue.
THEOREM SafeAlways == Spec => [](~missed => Safe)
<1>1. Init => Safe
    BY InitSafe
<1>2. (~missed => Safe) /\ [Next]_vars => (~missed => Safe)'
    BY NextSafe, MissedStays
<1> QED
    BY <1>1, <1>2, PTL DEF Spec

-----------------------------------------------------------------------------
(* What the invariant says *)

\* References lead to objects.
LEMMA RefsFacts ==
    ASSUME HeapOK, Homed
    PROVE  /\ \A S : Refs(S) \in [Objs -> SUBSET Objs]
           /\ \A S : \A o \in Alive \ S : Refs(S)[o] = Holds(o)
           /\ \A S : \A o \in Objs : o \notin Alive \ S => Refs(S)[o] = {}
           /\ \A o \in Alive : Holds(o) \subseteq All(o) /\ All(o) \subseteq Objs
<1>1. \A o \in Alive : Holds(o) \subseteq All(o) /\ All(o) \subseteq Objs
    BY StrongFacts DEF Holds, All
<1>2. \A S : Refs(S) \in [Objs -> SUBSET Objs]
    BY <1>1 DEF Refs
<1>3. Alive \subseteq Objs
    BY DEF Alive
<1> QED
    BY <1>1, <1>2, <1>3 DEF Refs

\* What the roots reach is live.
LEMMA ReachLive ==
    ASSUME Safe
    PROVE  Reach \subseteq Live
<1>1. HeapOK /\ Homed /\ Roots \subseteq Live /\ \A o \in Live : All(o) \subseteq Live
    BY DEF Safe, LiveClosed
<1>2. Live \in SUBSET Objs /\ Live \subseteq Alive /\ Roots \in SUBSET Objs
    BY DEF Live, Alive, Roots
<1>3. Refs({}) \in [Objs -> SUBSET Objs] /\ \A o \in Live : Refs({})[o] \subseteq Live
    <2>1. \A o \in Live : Refs({})[o] = Holds(o) /\ Holds(o) \subseteq All(o)
        BY <1>1, <1>2, RefsFacts
    <2> QED
        BY <1>1, <2>1, RefsFacts
<1> QED
    BY <1>1, <1>2, <1>3, FromFacts DEF Reach

\* What the program can get at, now or by way of a weak table, is allocated
\* and will not be freed by this collection.
LEMMA SafeNotDead ==
    ASSUME Safe
    PROVE  OnlyLostIsDead
<1>1. Reach \subseteq Live /\ \A o \in Live : All(o) \subseteq Live
    BY ReachLive DEF Safe, LiveClosed
<1>2. \A o \in Reach : \A r \in {o} \cup Weak(o) : r \in Live
    BY <1>1 DEF All
<1> QED
    BY <1>2 DEF OnlyLostIsDead, Live

\* Objects the program can get at are never freed under it: the collector and
\* the barriers of lgc.c, lapi.c, lvm.c and lfunc.c work together, in every
\* heap and under every interleaving, for as long as lua_setupvalue has not put
\* a white value in a black upvalue.
THEOREM NeverFreedInUse == Spec => []NothingInUseIsDead
<1>1. (~missed => Safe) => NothingInUseIsDead
    BY SafeNotDead DEF NothingInUseIsDead
<1> QED
    BY <1>1, SafeAlways, PTL

\* While marking, no black object refers to a white one, but by the barrier of
\* lua_setupvalue.
THEOREM BarriersHold == Spec => []BlackNeverSeesWhite
<1>1. (~missed => Safe) => BlackNeverSeesWhite
    <2> SUFFICES ASSUME Safe, gcstate = "propagate", NEW o \in Alive \ Range(tmudata),
                        g.color[o] = "black", NEW v \in Strong(o)
                 PROVE  ~White(g, v)
        BY DEF BlackNeverSeesWhite
    <2>1. All(o) \subseteq Dark(g) \cup {}
        BY DEF Safe, Marking, Tri, Blacks, Black, Tmu
    <2> QED
        BY <2>1 DEF All, Dark
<1> QED
    BY <1>1, SafeAlways, PTL

\* No object is on two of the lists that go through the field gclist.
THEOREM OneListEach == Spec => [](~missed => ListsDisjoint)
<1>1. Safe => ListsDisjoint
    BY DEF Safe, Marking, Tri, Queues, ListsDisjoint
<1> QED
    BY <1>1, SafeAlways, PTL

\* The heap stays well-formed: bodies fit their kinds, every object is on the
\* list of its kind once, colours are colours.
THEOREM TypeAlways == Spec => [](~missed => TypeOK)
<1> DEFINE Counted == steps \in 0..MaxSteps /\ doomed \subseteq Alive /\ missed \in BOOLEAN
<1>1. Init => Counted
    <2>1. Init => steps = 0 /\ doomed = {} /\ missed \in BOOLEAN
        BY DEF Init
    <2>2. 0 \in 0..MaxSteps
        BY BoundsAssumption
    <2> QED
        BY <2>1, <2>2
<1>2. Counted /\ [Next]_vars => Counted'
    <2> SUFFICES ASSUME Counted, [Next]_vars PROVE Counted'
        OBVIOUS
    <2>1. CASE UNCHANGED vars
        BY <2>1 DEF vars, heap, Alive
    <2>2. CASE Begin /\ UNCHANGED <<steps, missed>> /\ doomed' = Alive \ Reach
        BY <2>2 DEF Begin, markroot, luaC_fullgc, heap, Alive
    <2>3. CASE Goon /\ UNCHANGED <<steps, missed>> /\ doomed' \subseteq Alive'
        BY <2>3
    <2>4. CASE /\ (Program /\ UNCHANGED missed) \/ Setupvalue
               /\ steps' = steps + 1 /\ doomed' \subseteq Alive'
        <3>1. steps < MaxSteps
            BY <2>4 DEF Program, Setupvalue
        <3>2. \A c, v : lua_setupvalue(c, v) => missed' \in BOOLEAN
            BY DEF lua_setupvalue
        <3> QED
            BY <2>4, <3>1, <3>2, BoundsAssumption DEF Setupvalue
    <2>5. doomed' = (IF doomed = {} THEN {} ELSE (doomed \ (Reach' \cup From(Roots', Refs({})))) \cap Alive')
          => doomed' \subseteq Alive'
        OBVIOUS
    <2> QED
        BY <2>1, <2>2, <2>3, <2>4, <2>5 DEF Next
<1>3. Safe /\ Counted => TypeOK
    BY DEF Safe, TypeOK, Marked
<1> QED
    BY <1>1, <1>2, <1>3, SafeAlways, PTL DEF Spec

-----------------------------------------------------------------------------
(* Finalizers *)

\* What the program's steps leave to the collector.
LEMMA ProgramLists ==
    ASSUME Program \/ Setupvalue
    PROVE  /\ gcstate' = gcstate /\ currentwhite' = currentwhite
           /\ tmudata' = tmudata /\ sweepgc' = sweepgc /\ finalized' = finalized /\ called' = called
<1> DEFINE Left == UNCHANGED <<phase, tmudata, sweepgc, finalized, called>>
<1>1. \A th, s : assign(th, s) => Left
    BY DEF assign, lists
<1>2. \A th, s : luaF_close(th, s) => Left
    BY Zenon DEF luaF_close
<1>3. \A th, s, o : new_object(th, s, o) => Left
    BY Zenon DEF new_object
<1>4. \A th, s, o : luaS_newlstr(th, s, o) => Left
    <2>1. \A th, s, o : luaS_newlstr(th, s, o) => UNCHANGED <<phase, lists>>
        BY Zenon DEF luaS_newlstr
    <2> QED
        BY <2>1 DEF lists
<1>5. \A th, s, o : pushcclosure(th, s, o) => Left
    BY Zenon DEF pushcclosure
<1>6. ASSUME NEW th, NEW s, NEW l, NEW o, NEW u, op_closure(th, s, l, o, u)
      PROVE  Left
    <2>1. UNCHANGED <<pool, gmt, fin, phase, sweepgc, tmudata, finalized, called>>
        BY <1>6 DEF op_closure
    <2> QED
        BY <2>1
<1>7. \A t, k, v : settable(t, k, v) => Left
    <2>1. \A t, k, v : settable(t, k, v) => UNCHANGED <<phase, lists>>
        BY Zenon DEF settable
    <2> QED
        BY <2>1 DEF lists
<1>8. \A m : setmetatable_basic(m) => Left
    BY DEF setmetatable_basic, lists
<1>9. \A o, m : lua_setmetatable(o, m) => Left
    <2>1. \A o, m : lua_setmetatable(o, m) => UNCHANGED <<phase, lists>>
        BY Zenon DEF lua_setmetatable
    <2> QED
        BY <2>1 DEF lists
<1>10. \A c, v : op_setupval(c, v) \/ lua_setupvalue(c, v) => Left
    <2>1. \A c, v : op_setupval(c, v) \/ lua_setupvalue(c, v) => UNCHANGED <<phase, lists>>
        BY Zenon DEF op_setupval, lua_setupvalue
    <2> QED
        BY <2>1 DEF lists
<1> HIDE DEF Left
<1>11. Left
    BY <1>1, <1>2, <1>3, <1>4, <1>5, <1>6, <1>7, <1>8, <1>9, <1>10 DEF Program, Setupvalue
<1> QED
    BY <1>11 DEF Left, phase

\* A userdata waits for its finalizer only before the first call.
Finals ==
    /\ \A o \in Objs : called[o] = 0 \/ (called[o] = 1 /\ o \in finalized)
    /\ \A u \in Tmu : u \in finalized /\ called[u] = 0

\* FINALIZEDBIT is set when a userdata goes to tmudata, and stays.
LEMMA FinalsStep ==
    ASSUME Safe, Finals, [Next]_vars
    PROVE  Finals'
<1>1. /\ called \in [Objs -> Nat] /\ Tmu \subseteq Of("userdata") /\ Tmu \subseteq Objs
      /\ IsInjective(tmudata) /\ tmudata \in Seq(Objs)
    BY DEF Safe, ListsOK, Sweeping, Of, Alive
<1>2. CASE UNCHANGED <<tmudata, finalized, called>>
    BY <1>2 DEF Finals, Tmu
<1>3. CASE atomic
    <2>1. tmudata' = Tmu4 /\ finalized' = Finals4 /\ called' = called /\ gcstate = "propagate" /\ g.gray = {}
        BY <1>3, AtomicIs
    <2>2. Range(Tmu4) = Tmu \cup {u \in dying(Marks3) : HasGC(u)} /\ Range(Tmu4) \subseteq Objs
        BY <2>1, AtomicMarks DEF Of, Alive
    <2>3. dying(Marks3) \cap finalized = {}
        BY DEF dying
    <2> QED
        BY <2>1, <2>2, <2>3 DEF Finals, Tmu, Finals4
<1>4. CASE sweeplist
    <2> DEFINE o == Head(sweepgc)
               opens == IF Kind(o) = "thread" THEN OpenOn(o) ELSE {}
               freed == {x \in opens \cup {o} : isdead(x)}
    <2>1. /\ finalized' = finalized \ freed /\ called' = [x \in Objs |-> IF x \in freed THEN 0 ELSE called[x]]
          /\ tmudata' = tmudata /\ sweepgc # <<>>
        BY <1>4 DEF sweeplist
    <2>2. o \in Range(sweepgc)
        <3>1. sweepgc \in Seq(Alive)
            BY DEF Safe, ListsOK
        <3> QED
            BY <2>1, <3>1, TailFacts
    <2>3. o \notin Tmu
        BY <2>2 DEF Safe, Sweeping
    <2>4. \A x \in opens : Kind(x) = "upval"
        BY DEF OpenOn, Of
    <2>5. freed \cap Tmu = {}
        BY <1>1, <2>3, <2>4 DEF Of
    <2> HIDE DEF freed
    <2> QED
        BY <1>1, <2>1, <2>5 DEF Finals, Tmu
<1>5. CASE GCTM
    <2> DEFINE u == Head(tmudata)
    <2>1. /\ called' = [called EXCEPT ![u] = IF HasGC(u) THEN @ + 1 ELSE @] /\ finalized' = finalized
          /\ tmudata' = Tail(tmudata) /\ tmudata # <<>>
        BY <1>5 DEF GCTM
    <2>2. u \in Tmu /\ Tmu' \subseteq Tmu /\ u \notin Tmu'
        BY <1>1, <2>1, TailFacts DEF Tmu
    <2> HIDE DEF u
    <2>3. \A x \in Objs : called'[x] = IF x = u /\ HasGC(u) THEN called[x] + 1 ELSE called[x]
        BY <1>1, <2>1
    <2> QED
        BY <1>1, <2>1, <2>2, <2>3 DEF Finals
<1>6. CASE markroot \/ luaC_fullgc \/ propagate \/ sweep_done \/ finalizer_return \/ cycle_done
    BY <1>2, <1>6 DEF markroot, luaC_fullgc, propagate, sweep_done, finalizer_return, cycle_done, lists
<1>7. CASE Program \/ Setupvalue
    BY <1>2, <1>7, ProgramLists
<1>8. CASE UNCHANGED vars
    BY <1>2, <1>8 DEF vars, lists
<1> HIDE DEF Safe
<1> QED
    BY <1>3, <1>4, <1>5, <1>6, <1>7, <1>8 DEF Next, Begin, Goon

\* No userdata is finalized twice, whether or not its finalizer makes it
\* reachable again.
THEOREM OnceFinalized == Spec => [](~missed => FinalizedOnce)
<1>1. Init => Finals
    BY DEF Init, Finals, Tmu, Range
<1>2. Finals => FinalizedOnce
    BY DEF Finals, FinalizedOnce
<1>3. (~missed => Safe) /\ (~missed => Finals) /\ [Next]_vars => (~missed => Finals)'
    BY FinalsStep, MissedStays
<1> QED
    BY <1>1, <1>2, <1>3, SafeAlways, PTL DEF Spec

\* The atomic step gives a userdata to its finalizer only if the program has
\* no way to it but through userdata that wait for their own.
LEMMA AtomicSpares ==
    ASSUME Safe, atomic, NEW u \in Range(tmudata') \ Range(tmudata)
    PROVE  u \notin InUse
<1>1. gcstate = "propagate" /\ g.gray = {} /\ tmudata' = Tmu4
    BY AtomicIs
<1>2. /\ HeapOK /\ Homed /\ Clean(Marks3, Tmu, {}, {})
      /\ {Main, Registry} \subseteq Dark(Marks3) /\ Objs \cap {gmt} \subseteq Dark(Marks3)
      /\ Range(Tmu4) = Tmu \cup {x \in dying(Marks3) : HasGC(x)}
    BY <1>1, AtomicMarks
<1>3. u \in dying(Marks3)
    BY <1>1, <1>2 DEF Tmu
<1>4. Kind(u) = "userdata" /\ White(Marks3, u)
    BY <1>3 DEF dying
<1> DEFINE T == Dark(Marks3) \cup {o \in Objs : Kind(o) = "string"}
           S == Objs \cap {Main, Registry, gmt}
<1>5. T \in SUBSET Objs /\ S \in SUBSET Objs /\ S \subseteq T /\ Refs(Tmu) \in [Objs -> SUBSET Objs]
    BY <1>2, RefsFacts DEF Dark
<1>6. ASSUME NEW o \in T
      PROVE  Refs(Tmu)[o] \subseteq T
    <2>0. o \in Objs
        BY <1>5
    <2>1. CASE o \notin Alive \ Tmu
        BY <1>2, <2>0, <2>1, RefsFacts
    <2>2. CASE o \in Alive \ Tmu
        <3>1. Refs(Tmu)[o] = Holds(o) /\ Holds(o) \subseteq Objs
            BY <1>2, <2>2, RefsFacts
        <3>2. CASE Kind(o) = "string"
            BY <3>1, <3>2 DEF Holds, Strong, Weak
        <3>3. CASE Kind(o) # "string"
            <4>1. Strong(o) \subseteq Dark(Marks3)
                BY <1>2, <2>2, <3>3 DEF Clean, Dark
            <4> QED
                BY <3>1, <4>1 DEF Holds
        <3> QED
            BY <3>2, <3>3
    <2> QED
        BY <2>1, <2>2
<1>7. u \notin T
    BY <1>4 DEF Dark
<1> HIDE DEF T, S
<1>8. From(S, Refs(Tmu)) \subseteq T
    BY <1>5, <1>6, FromFacts
<1> QED
    BY <1>7, <1>8 DEF InUse, Tmu, S

\* A finalizer is never given what the program still has, unless lua_setupvalue
\* has hidden it.
THEOREM FinalizedAreLost == Spec => NotFinalizedInUse
<1>1. (~missed => Safe) /\ [Next]_vars
      => [~missed => \A u \in Range(tmudata') \ Range(tmudata) : u \notin InUse]_vars
    <2> SUFFICES ASSUME Safe, Next, vars' # vars
                 PROVE  \A u \in Range(tmudata') \ Range(tmudata) : u \notin InUse
        OBVIOUS
    <2>1. CASE atomic
        BY <2>1, AtomicSpares
    <2>2. CASE tmudata' = tmudata
        BY <2>2
    <2>3. CASE GCTM
        <3>1. tmudata' = Tail(tmudata) /\ tmudata # <<>> /\ tmudata \in Seq(Objs) /\ IsInjective(tmudata)
            BY <2>3 DEF GCTM, Safe, ListsOK
        <3>2. Range(Tail(tmudata)) \subseteq Range(tmudata)
            BY <3>1, TailFacts
        <3> QED
            BY <3>1, <3>2
    <2>4. CASE markroot \/ luaC_fullgc \/ propagate \/ sweep_done \/ finalizer_return \/ cycle_done \/ sweeplist
        BY <2>2, <2>4 DEF markroot, luaC_fullgc, propagate, sweep_done, finalizer_return, cycle_done, sweeplist, lists
    <2>5. CASE Program \/ Setupvalue
        BY <2>2, <2>5, ProgramLists
    <2> HIDE DEF Safe
    <2> QED
        BY <2>1, <2>3, <2>4, <2>5 DEF Next, Begin, Goon
<1> QED
    BY <1>1, SafeAlways, PTL DEF Spec, NotFinalizedInUse
=============================================================================
