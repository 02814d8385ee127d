---------------------------- MODULE LuaGCLemmas ----------------------------
(***************************************************************************)
(* Lemmas about the operators LuaGC is built from: its lists, what         *)
(* references lead to, and what marking does.                              *)
(***************************************************************************)
EXTENDS LuaGC, FiniteSetTheorems, SequenceTheorems, WellFoundedInduction, TLAPS

-----------------------------------------------------------------------------
(* Lists *)

\* Every non-empty set of natural numbers has a least element.
LEMMA NatLess == \A T \in SUBSET Nat : T # {} => \E n \in T : \A k \in T : ~(k < n)
<1> SUFFICES ASSUME NEW T \in SUBSET Nat, T # {}
             PROVE  \E n \in T : \A k \in T : ~(k < n)
    OBVIOUS
<1> DEFINE R == OpToRel(<, Nat)
<1>1. \A i, j \in Nat : <<i, j>> \in R <=> i < j
    BY DEF OpToRel
<1>2. IsWellFoundedOn(R, Nat)
    BY NatLessThanWellFounded
<1> HIDE DEF R
<1>3. \E n \in T : \A k \in T : ~(<<k, n>> \in R)
    BY <1>2, WFMin
<1> QED
    BY <1>1, <1>3

\* Induction over the natural numbers, for a set instead of a predicate.
LEMMA SetInduction ==
    ASSUME NEW S, 0 \in S, \A n \in Nat : n \in S => n + 1 \in S
    PROVE  Nat \subseteq S
<1> DEFINE T == Nat \ S
<1>1. SUFFICES ASSUME T # {} PROVE FALSE
    OBVIOUS
<1>2. PICK n \in T : \A k \in T : ~(k < n)
    BY <1>1, NatLess
<1>3. n - 1 \in Nat /\ n - 1 \notin T
    BY <1>2
<1> QED
    BY <1>3

\* SetToSeq lists a finite set, each element once.
LEMMA SetToSeqFacts ==
    ASSUME NEW S, IsFiniteSet(S)
    PROVE  /\ SetToSeq(S) \in Seq(S)
           /\ Range(SetToSeq(S)) = S
           /\ IsInjective(SetToSeq(S))
<1> DEFINE n == Cardinality(S)
           s == SetToSeq(S)
<1>1. n \in Nat /\ ExistsBijection(1..n, S)
    BY FS_CardinalityType
<1>2. \E f \in [1..n -> S] : IsInjective(f)
    BY <1>1 DEF ExistsBijection, Bijection, Injection
<1>3. s \in [1..n -> S] /\ IsInjective(s)
    BY <1>2 DEF SetToSeq
<1>4. s \in Injection(1..n, S)
    BY <1>3 DEF Injection
<1>5. s \in Seq(S)
    BY <1>3, <1>1, SeqDef
<1>6. s \in Surjection(1..n, S)
    <2>1. IsFiniteSet(1..n) /\ Cardinality(1..n) = n
        BY <1>1, FS_Interval
    <2> QED
        BY <2>1, <1>4, FS_Injection
<1> QED
    BY <1>3, <1>5, <1>6 DEF Surjection, Range
\* Without keeps what is not in S, and repeats nothing that was not repeated.
LEMMA WithoutFacts ==
    ASSUME NEW A, NEW s \in Seq(A), NEW S
    PROVE  /\ Without(s, S) \in Seq(A)
           /\ Range(Without(s, S)) = Range(s) \ S
           /\ IsInjective(s) => IsInjective(Without(s, S))
<1> DEFINE Step(h, n) == IF n = 0 THEN <<>> ELSE IF s[n] \in S THEN h[n - 1] ELSE Append(h[n - 1], s[n])
           Upto(h, n) == h = [i \in 0..n |-> Step(h, i)]
           Good == {n \in Nat : \E h : Upto(h, n)}
           upto == CHOOSE h : Upto(h, Len(s))
<1>1. Len(s) \in Nat /\ s \in [1..Len(s) -> A]
    OBVIOUS
<1>2. Nat \subseteq Good
    <2>1. 0 \in Good
        <3> DEFINE h == [i \in 0..0 |-> <<>>]
        <3>1. Upto(h, 0)
            OBVIOUS
        <3> QED
            BY <3>1
    <2>2. ASSUME NEW n \in Nat, n \in Good
          PROVE  n + 1 \in Good
        <3>1. PICK h : Upto(h, n)
            BY <2>2
        <3> DEFINE k == [i \in 0..n + 1 |-> IF i = n + 1 THEN Step(h, i) ELSE h[i]]
        <3>2. \A i \in 0..n : k[i] = h[i]
            OBVIOUS
        <3>3. \A i \in 0..n : h[i] = Step(h, i)
            BY <3>1
        <3>4. \A i \in 0..n + 1 : Step(k, i) = Step(h, i)
            BY <3>2
        <3>5. \A i \in 0..n + 1 : k[i] = Step(k, i)
            BY <3>2, <3>3, <3>4
        <3>6. Upto(k, n + 1)
            <4> HIDE DEF Step
            <4> QED BY <3>5
        <3> HIDE DEF k, Upto
        <3> QED
            BY <3>6
    <2> HIDE DEF Good
    <2> QED
        BY <2>1, <2>2, SetInduction
<1>3. Upto(upto, Len(s))
    BY <1>1, <1>2
<1>4. Without(s, S) = upto[Len(s)]
    BY DEF Without
<1> HIDE DEF upto
<1>5. \A n \in 0..Len(s) : upto[n] = Step(upto, n)
    BY <1>3
<1> DEFINE First(n) == {s[i] : i \in 1..n}
           Fine(q, n) == /\ q \in Seq(A) /\ Range(q) = First(n) \ S
                         /\ IsInjective(s) => IsInjective(q)
           Sound == {n \in Nat : n <= Len(s) => Fine(upto[n], n)}
<1>6. Nat \subseteq Sound
    <2>1. 0 \in Sound
        <3>1. upto[0] = <<>>
            BY <1>5, <1>1
        <3>2. Range(<<>>) = {} /\ IsInjective(<<>>)
            BY DEF Range, IsInjective
        <3>3. Fine(upto[0], 0)
            BY <3>1, <3>2
        <3> HIDE DEF Fine
        <3> QED
            BY <3>3
    <2>2. ASSUME NEW n \in Nat, n \in Sound, n + 1 <= Len(s)
          PROVE  Fine(upto[n + 1], n + 1)
        <3> DEFINE q == upto[n]
                   x == s[n + 1]
        <3>1. Fine(q, n)
            BY <2>2, <1>1
        <3>2. upto[n + 1] = IF x \in S THEN q ELSE Append(q, x)
            BY <1>5, <1>1, <2>2
        <3>3. First(n + 1) = First(n) \cup {x} /\ x \in A
            BY <1>1, <2>2
        <3> HIDE DEF q, x
        <3>4. CASE x \in S
            BY <3>1, <3>2, <3>3, <3>4
        <3>5. CASE x \notin S
            <4>0. /\ Append(q, x) \in Seq(A) /\ Len(Append(q, x)) = Len(q) + 1 /\ Len(q) \in Nat
                  /\ \A i \in 1..Len(q) : Append(q, x)[i] = q[i]
                  /\ Append(q, x)[Len(q) + 1] = x
                  /\ DOMAIN Append(q, x) = 1..Len(q) + 1 /\ DOMAIN q = 1..Len(q)
                BY <3>1, <3>3, AppendProperties
            <4>1. Range(Append(q, x)) = Range(q) \cup {x}
                <5>1. \A i \in 1..Len(q) + 1 : i \in 1..Len(q) \/ i = Len(q) + 1
                  BY <4>0
                <5>2. Len(q) + 1 \in 1..Len(q) + 1 /\ 1..Len(q) \subseteq 1..Len(q)+1
                  BY <4>0
                <5> QED BY <4>0, <5>1, <5>2, Zenon DEF Range
            <4>2. IsInjective(s) => x \notin First(n)
                BY <1>1, <2>2 DEF IsInjective, x
            <4>3. IsInjective(s) => IsInjective(Append(q, x))
                <5>1. \A i \in 1..Len(q) : q[i] \in First(n)
                    BY <3>1, <4>0 DEF Range
                <5> HIDE DEF First
                <5>2. SUFFICES ASSUME IsInjective(s), NEW i \in 1..Len(q) + 1, NEW j \in 1..Len(q) + 1,
                                      Append(q, x)[i] = Append(q, x)[j]
                               PROVE  i = j
                    BY <4>0 DEF IsInjective
                <5>3. x \notin First(n) /\ IsInjective(q)
                    BY <3>1, <4>2, <5>2
                <5> QED
                    BY <4>0, <5>1, <5>2, <5>3 DEF IsInjective
            <4> QED
                BY <3>1, <3>2, <3>3, <3>5, <4>0, <4>1, <4>3
        <3> QED
            BY <3>4, <3>5
    <2> HIDE DEF Fine
    <2>3. \A n \in Nat : n \in Sound => n + 1 \in Sound
        BY <2>2, <1>1
    <2> HIDE DEF Sound
    <2> QED
        BY <2>1, <2>3, SetInduction
<1>7. Fine(upto[Len(s)], Len(s))
    <2> HIDE DEF Fine
    <2> QED
        BY <1>1, <1>6
<1>8. Range(s) = First(Len(s))
    BY <1>1 DEF Range
<1> QED
    BY <1>4, <1>7, <1>8

\* Two lists in a row.
LEMMA ConcatFacts ==
    ASSUME NEW A, NEW s \in Seq(A), NEW t \in Seq(A)
    PROVE  /\ s \o t \in Seq(A)
           /\ Range(s \o t) = Range(s) \cup Range(t)
           /\ IsInjective(s) /\ IsInjective(t) /\ Range(s) \cap Range(t) = {} => IsInjective(s \o t)
<1>1. s \o t \in Seq(A) /\ Range(s \o t) = Range(s) \cup Range(t)
    BY RangeConcatenation, ConcatProperties
<1>2. ASSUME IsInjective(s), IsInjective(t), Range(s) \cap Range(t) = {}
      PROVE  IsInjective(s \o t)
    <2> DEFINE r == s \o t
    <2>1. /\ Len(s) \in Nat /\ Len(t) \in Nat
          /\ DOMAIN s = 1..Len(s) /\ DOMAIN t = 1..Len(t)
          /\ DOMAIN r = 1..Len(s) + Len(t)
        BY ConcatProperties, LenProperties
    <2>2. \A k \in 1..Len(s) + Len(t) : r[k] = IF k <= Len(s) THEN s[k] ELSE t[k - Len(s)]
        BY ConcatProperties
    <2> HIDE DEF r
    <2>3. \A k \in 1..Len(s) + Len(t) : \/ k \in 1..Len(s) /\ r[k] = s[k]
                                        \/ k - Len(s) \in 1..Len(t) /\ r[k] = t[k - Len(s)]
        BY <2>1, <2>2
    <2>4. \A k \in 1..Len(s), l \in 1..Len(t) : s[k] # t[l]
        BY <1>2, <2>1 DEF Range
    <2>5. /\ \A k, l \in 1..Len(s) : s[k] = s[l] => k = l
          /\ \A k, l \in 1..Len(t) : t[k] = t[l] => k = l
        BY <1>2, <2>1 DEF IsInjective
    <2>6. ASSUME NEW i \in 1..Len(s) + Len(t), NEW j \in 1..Len(s) + Len(t), r[i] = r[j]
          PROVE  i = j
        <3>1. CASE i \in 1..Len(s) /\ r[i] = s[i]
            <4>1. j \in 1..Len(s) /\ r[j] = s[j]
                BY <2>3, <2>4, <2>6, <3>1
            <4> QED
                BY <2>5, <2>6, <3>1, <4>1
        <3>2. CASE i - Len(s) \in 1..Len(t) /\ r[i] = t[i - Len(s)]
            <4>1. j - Len(s) \in 1..Len(t) /\ r[j] = t[j - Len(s)]
                BY <2>3, <2>4, <2>6, <3>2
            <4>2. i - Len(s) = j - Len(s)
                BY <2>5, <2>6, <3>2, <4>1
            <4> QED
                BY <2>1, <4>2
        <3> QED
            BY <2>3, <3>1, <3>2
    <2>7. IsInjective(r)
        BY <2>1, <2>6 DEF IsInjective
    <2> QED
        BY <2>7 DEF r
<1> QED
    BY <1>1, <1>2

\* A list without its first element.
LEMMA TailFacts ==
    ASSUME NEW A, NEW s \in Seq(A), s # <<>>
    PROVE  /\ Head(s) \in A /\ Head(s) \in Range(s) /\ Tail(s) \in Seq(A)
           /\ Range(s) = {Head(s)} \cup Range(Tail(s))
           /\ IsInjective(s) => IsInjective(Tail(s)) /\ Head(s) \notin Range(Tail(s))
<1>1. /\ Head(s) \in A /\ Tail(s) \in Seq(A) /\ Len(Tail(s)) = Len(s) - 1
      /\ \A i \in 1..Len(Tail(s)) : Tail(s)[i] = s[i + 1]
    BY HeadTailProperties
<1>2. /\ Len(s) \in Nat \ {0} /\ DOMAIN s = 1..Len(s) /\ DOMAIN Tail(s) = 1..Len(s) - 1
      /\ Head(s) = s[1]
    BY <1>1, EmptySeq, LenProperties
<1>3. \A i \in 1..Len(s) : i = 1 \/ (i - 1 \in 1..Len(s) - 1 /\ Tail(s)[i - 1] = s[i])
    BY <1>1, <1>2
<1>4. \A i \in 1..Len(s) - 1 : i + 1 \in 1..Len(s) /\ Tail(s)[i] = s[i + 1]
    BY <1>1, <1>2
<1>5. Range(s) = {Head(s)} \cup Range(Tail(s))
    <2>1. Range(s) \subseteq {Head(s)} \cup Range(Tail(s))
        BY <1>2, <1>3 DEF Range
    <2>2. Range(Tail(s)) \subseteq Range(s)
        BY <1>2, <1>4 DEF Range
    <2>3. Head(s) \in Range(s)
        BY <1>2 DEF Range
    <2> QED
        BY <2>1, <2>2, <2>3
<1>6. ASSUME IsInjective(s)
      PROVE  IsInjective(Tail(s)) /\ Head(s) \notin Range(Tail(s))
    BY <1>2, <1>4, <1>6 DEF IsInjective, Range
<1> QED
    BY <1>1, <1>5, <1>6

\* A list of one.
LEMMA OneFacts ==
    ASSUME NEW A, NEW x \in A
    PROVE  <<x>> \in Seq(A) /\ Range(<<x>>) = {x} /\ IsInjective(<<x>>)
BY DEF Range, IsInjective

\* A list with an element put in at a place.
LEMMA InsertFacts ==
    ASSUME NEW A, NEW s \in Seq(A), NEW i \in 1..Len(s) + 1, NEW e \in A
    PROVE  /\ InsertAt(s, i, e) \in Seq(A)
           /\ Range(InsertAt(s, i, e)) = Range(s) \cup {e}
           /\ IsInjective(s) /\ e \notin Range(s) => IsInjective(InsertAt(s, i, e))
<1> DEFINE p == SubSeq(s, 1, i - 1)
           q == SubSeq(s, i, Len(s))
           one == <<e>>
           pe == p \o one
<1>1. InsertAt(s, i, e) = pe \o q
    BY Zenon DEF InsertAt
<1>2. /\ Len(s) \in Nat /\ DOMAIN s = 1..Len(s) /\ i - 1 \in Int
      /\ \A j \in 1..Len(s) : s[j] \in A
    BY LenProperties, ElementOfSeq
<1>3. p \in Seq(A) /\ Len(p) = i - 1 /\ \A j \in 1..i - 1 : p[j] = s[j]
    <2>1. \A j \in 1..i - 1 : s[j] \in A
        BY <1>2
    <2>2. /\ p \in Seq(A) /\ Len(p) = IF 1 <= i - 1 THEN (i - 1) - 1 + 1 ELSE 0
          /\ \A j \in 1..(i - 1) - 1 + 1 : p[j] = s[1 + j - 1]
        BY <1>2, <2>1, SubSeqProperties
    <2> HIDE DEF p
    <2> QED
        BY <1>2, <2>2
<1>4. q \in Seq(A) /\ Len(q) = Len(s) - i + 1 /\ \A j \in 1..Len(s) - i + 1 : q[j] = s[i + j - 1]
    <2>1. \A j \in i..Len(s) : s[j] \in A
        BY <1>2
    <2>2. /\ q \in Seq(A) /\ Len(q) = IF i <= Len(s) THEN Len(s) - i + 1 ELSE 0
          /\ \A j \in 1..Len(s) - i + 1 : q[j] = s[i + j - 1]
        BY <1>2, <2>1, SubSeqProperties
    <2> HIDE DEF q
    <2> QED
        BY <1>2, <2>2
<1> HIDE DEF p, q
<1>5. DOMAIN p = 1..i - 1 /\ DOMAIN q = 1..Len(s) - i + 1
    BY <1>3, <1>4, LenProperties
<1>6. Range(s) = Range(p) \cup Range(q)
    <2>1. ASSUME NEW j \in 1..Len(s)
          PROVE  s[j] \in Range(p) \cup Range(q)
        <3>1. CASE j \in 1..i - 1
            BY <1>3, <1>5, <3>1 DEF Range
        <3>2. CASE j \notin 1..i - 1
            <4>1. j - i + 1 \in 1..Len(s) - i + 1 /\ i + (j - i + 1) - 1 = j
                BY <1>2, <3>2
            <4> QED
                BY <1>4, <1>5, <4>1 DEF Range
        <3> QED
            BY <3>1, <3>2
    <2>2. \A j \in 1..i - 1 : p[j] \in Range(s)
        <3>1. \A j \in 1..i - 1 : j \in 1..Len(s)
            BY <1>2
        <3> QED
            BY <1>2, <1>3, <3>1 DEF Range
    <2>3. \A j \in 1..Len(s) - i + 1 : q[j] \in Range(s)
        <3>1. \A j \in 1..Len(s) - i + 1 : i + j - 1 \in 1..Len(s)
            BY <1>2
        <3> QED
            BY <1>2, <1>4, <3>1 DEF Range
    <2> QED
        BY <1>2, <1>5, <2>1, <2>2, <2>3, Zenon DEF Range
<1>7. ASSUME IsInjective(s)
      PROVE  IsInjective(p) /\ IsInjective(q) /\ Range(p) \cap Range(q) = {}
    <2>1. \A j, k \in 1..Len(s) : s[j] = s[k] => j = k
        BY <1>2, <1>7 DEF IsInjective
    <2>2. IsInjective(p)
        BY <1>2, <1>3, <1>5, <2>1 DEF IsInjective
    <2>3. IsInjective(q)
        <3> SUFFICES ASSUME NEW j \in 1..Len(s) - i + 1, NEW k \in 1..Len(s) - i + 1, q[j] = q[k]
                     PROVE  j = k
            BY <1>5 DEF IsInjective
        <3>1. i + j - 1 \in 1..Len(s) /\ i + k - 1 \in 1..Len(s)
            BY <1>2
        <3>2. i + j - 1 = i + k - 1
            BY <1>4, <2>1, <3>1
        <3> QED
            BY <3>2
    <2>4. ASSUME NEW j \in 1..i - 1, NEW k \in 1..Len(s) - i + 1
          PROVE  p[j] # q[k]
        <3>1. j \in 1..Len(s) /\ i + k - 1 \in 1..Len(s) /\ j # i + k - 1
            BY <1>2
        <3> QED
            BY <1>3, <1>4, <2>1, <3>1
    <2> QED
        BY <1>5, <2>2, <2>3, <2>4 DEF Range
<1>8. one \in Seq(A) /\ Range(one) = {e} /\ IsInjective(one)
    BY OneFacts
<1> HIDE DEF one
<1>9. /\ pe \in Seq(A) /\ Range(pe) = Range(p) \cup {e}
      /\ IsInjective(p) /\ e \notin Range(p) => IsInjective(pe)
    BY <1>3, <1>8, ConcatFacts
<1> HIDE DEF pe
<1>10. /\ pe \o q \in Seq(A) /\ Range(pe \o q) = Range(pe) \cup Range(q)
       /\ IsInjective(pe) /\ IsInjective(q) /\ Range(pe) \cap Range(q) = {} => IsInjective(pe \o q)
    BY <1>4, <1>9, ConcatFacts
<1> QED
    BY <1>1, <1>6, <1>7, <1>9, <1>10

\* luaC_link adds one object to the list.
LEMMA LinkFacts ==
    ASSUME NEW o \in Objs, rootgc \in Seq(Objs), Main \in Range(rootgc)
    PROVE  /\ link(o) \in Seq(Objs)
           /\ Range(link(o)) = Range(rootgc) \cup {o}
           /\ IsInjective(rootgc) /\ o \notin Range(rootgc) => IsInjective(link(o))
<1>1. CASE Kind(o) # "userdata"
    <2> DEFINE one == <<o>>
    <2>1. link(o) = one \o rootgc
        BY <1>1 DEF link
    <2>2. one \in Seq(Objs) /\ Range(one) = {o} /\ IsInjective(one)
        BY OneFacts
    <2> HIDE DEF one
    <2> QED
        BY <2>1, <2>2, ConcatFacts
<1>2. CASE Kind(o) = "userdata"
    <2> DEFINE n == CHOOSE i \in 1..Len(rootgc) : rootgc[i] = Main
    <2>1. Len(rootgc) \in Nat /\ DOMAIN rootgc = 1..Len(rootgc)
        BY LenProperties
    <2>2. n \in 1..Len(rootgc)
        BY <2>1 DEF Range
    <2>3. link(o) = InsertAt(rootgc, n + 1, o)
        BY <1>2 DEF link
    <2> HIDE DEF n
    <2>4. n + 1 \in 1..Len(rootgc) + 1
        BY <2>1, <2>2
    <2> QED
        BY <2>3, <2>4, InsertFacts
<1> QED
    BY <1>1, <1>2

-----------------------------------------------------------------------------
(* What references lead to *)

\* From holds S, is closed under the references, and is the least such set.
LEMMA FromFacts ==
    ASSUME NEW S \in SUBSET Objs, NEW refs \in [Objs -> SUBSET Objs]
    PROVE  /\ S \subseteq From(S, refs) /\ From(S, refs) \subseteq Objs
           /\ \A o \in From(S, refs) : refs[o] \subseteq From(S, refs)
           /\ \A T \in SUBSET Objs :
                  S \subseteq T /\ (\A o \in T : refs[o] \subseteq T) => From(S, refs) \subseteq T
<1> DEFINE closed == {U \in SUBSET (Objs \ S) : \A o \in S \cup U : refs[o] \subseteq S \cup U}
<1>1. From(S, refs) = {o \in Objs : o \in S \/ \A U \in closed : o \in U}
    BY DEF From
<1>2. \A U \in closed : \A o \in S \cup U : refs[o] \subseteq S \cup U
    OBVIOUS
<1>3. \A T \in SUBSET Objs :
          S \subseteq T /\ (\A o \in T : refs[o] \subseteq T) => T \ S \in closed
    <2> SUFFICES ASSUME NEW T \in SUBSET Objs, S \subseteq T, \A o \in T : refs[o] \subseteq T
                 PROVE  T \ S \in closed
        OBVIOUS
    <2>1. S \cup (T \ S) = T
        OBVIOUS
    <2> QED
        BY <2>1
<1>4. closed \subseteq SUBSET (Objs \ S)
    OBVIOUS
<1> HIDE DEF closed
<1>5. ASSUME NEW o \in From(S, refs), NEW x \in refs[o], x \notin S, NEW U \in closed
      PROVE  x \in U
    BY <1>1, <1>2, <1>5
<1>6. \A o \in From(S, refs) : refs[o] \subseteq From(S, refs)
    BY <1>1, <1>5
<1>7. ASSUME NEW T \in SUBSET Objs, S \subseteq T, \A o \in T : refs[o] \subseteq T
      PROVE  From(S, refs) \subseteq T
    BY <1>1, <1>3, <1>7
<1> QED
    BY <1>1, <1>6, <1>7

-----------------------------------------------------------------------------
(* What objects refer to *)

All(o)  == Strong(o) \cup Weak(o)
Dark(m) == {o \in Objs : ~White(m, o)}
Black(m, o) == m.color[o] = "black"
Gray(m, o)  == m.color[o] = "gray"

\* Whatever is allocated refers to what is allocated.
Sealed == \A o \in Alive : All(o) \subseteq Alive

\* The assumptions on a pool, for the pool of the behaviour.
LEMMA PoolFacts ==
    ASSUME pool \in Pools
    PROVE  /\ Kind(Main) = "thread" /\ Kind(Registry) = "table"
           /\ \A o \in Objs : /\ Kind(o) \in Kinds /\ pool[o].meta \subseteq {"k", "v", "gc"}
                              /\ pool[o].meta # {} => Kind(o) = "table"
           /\ \A k \in Kinds : nil \notin Bodies(pool, k, Objs)
BY PoolsAssumption, NilAssumption DEF Kind

\* What the bodies of the kinds are, and where they can be nil.
LEMMA BodyFacts ==
    ASSUME HeapOK, NEW o \in Alive
    PROVE  /\ Kind(o) = "table" => /\ body[o].mt \in Objs \cup {nil}
                                   /\ body[o].mt # nil => Kind(body[o].mt) = "table"
                                   /\ \A e \in body[o].entries : /\ e = <<e[1], e[2]>>
                                                                 /\ e[1] \in Objs => Kind(e[1]) # "upval"
                                                                 /\ e[2] \in Objs => Kind(e[2]) # "upval"
           /\ Kind(o) = "userdata" => /\ body[o].mt \in Objs \cup {nil}
                                      /\ body[o].mt # nil => Kind(body[o].mt) = "table"
           /\ Kind(o) = "function" => body[o].up \in Objs \cup {nil}
           /\ Kind(o) = "upval" => /\ body[o].v \in Objs \cup {nil}
                                   /\ body[o].v # nil => Kind(body[o].v) # "upval"
                                   /\ Open(o) => /\ body[o].at[1] \in Objs /\ body[o].at[2] \in Slots
                                                 /\ body[o].at = <<body[o].at[1], body[o].at[2]>>
                                                 /\ Kind(body[o].at[1]) = "thread"
           /\ Kind(o) = "thread" => \A s \in Slots : /\ body[o].stack[s] \in Objs \cup {nil}
                                                     /\ body[o].stack[s] # nil => Kind(body[o].stack[s]) # "upval"
<1>1. body[o] \in Bodies(pool, Kind(o), Objs) /\ o \in Objs
    BY DEF HeapOK, Alive
<1>2. CASE Kind(o) = "table"
    BY <1>1, <1>2, ObjsAssumption DEF Bodies, Kind
<1>3. CASE Kind(o) = "userdata"
    BY <1>1, <1>3, ObjsAssumption DEF Bodies, Kind
<1>4. CASE Kind(o) = "function"
    BY <1>1, <1>4, ObjsAssumption DEF Bodies, Kind
<1>5. CASE Kind(o) = "upval"
    BY <1>1, <1>5, ObjsAssumption DEF Bodies, Kind, Open, Closed
<1>6. CASE Kind(o) = "thread"
    BY <1>1, <1>6, ObjsAssumption DEF Bodies, Kind
<1>7. Kind(o) \in Kinds
    BY <1>1, PoolFacts DEF HeapOK
<1> QED
    BY <1>2, <1>3, <1>4, <1>5, <1>6, <1>7 DEF Kinds
\* An open upvalue points into a stack that is allocated.
Homed == \A u \in Alive : Open(u) => body[u].at[1] \in Alive

\* What an object refers to, kind by kind.  Only functions refer to upvalues;
\* a table that is not weak refers strongly to all it has.
LEMMA StrongFacts ==
    ASSUME HeapOK, Homed, NEW o \in Alive
    PROVE  /\ Strong(o) \subseteq Objs /\ Weak(o) \subseteq Objs
           /\ Kind(o) = "table"    => All(o) = Objs \cap ({body[o].mt} \cup UNION {{e[1], e[2]} : e \in body[o].entries})
           /\ Kind(o) = "userdata" => Strong(o) = Objs \cap {body[o].mt}
           /\ Kind(o) = "function" => Strong(o) = Objs \cap {body[o].up}
           /\ Kind(o) = "upval"    => Strong(o) = Objs \cap {upvalue(o)}
           /\ Kind(o) = "thread"   => Strong(o) = Objs \cap StackOf(o)
           /\ Kind(o) = "string"   => Strong(o) = {}
           /\ Kind(o) # "table" => Weak(o) = {}
           /\ ~IsWeak(o) => Weak(o) \subseteq Strong(o)
           /\ Kind(o) # "function" => \A v \in All(o) : Kind(v) # "upval"
<1>0. o \in Objs /\ Kind(o) \in Kinds
    BY PoolFacts DEF HeapOK, Alive
<1>1. CASE Kind(o) = "table"
    <2>1. /\ Strong(o) = Objs \cap ({body[o].mt}
                             \cup {e[1] : e \in IF "k" \in Modes(o) THEN {} ELSE body[o].entries}
                             \cup {e[2] : e \in IF "v" \in Modes(o) THEN {} ELSE body[o].entries})
          /\ Weak(o) = Objs \cap UNION {{e[1], e[2]} : e \in body[o].entries}
        BY <1>1 DEF Strong, Weak
    <2>2. ~IsWeak(o) => "k" \notin Modes(o) /\ "v" \notin Modes(o)
        BY <1>1 DEF IsWeak
    <2>3. /\ body[o].mt \in Objs => Kind(body[o].mt) # "upval"
          /\ \A e \in body[o].entries : (e[1] \in Objs => Kind(e[1]) # "upval") /\ (e[2] \in Objs => Kind(e[2]) # "upval")
        BY <1>1, BodyFacts, ObjsAssumption
    <2>4. All(o) = Objs \cap ({body[o].mt} \cup UNION {{e[1], e[2]} : e \in body[o].entries})
        BY <2>1 DEF All
    <2>5. \A v \in All(o) : Kind(v) # "upval"
        BY <2>3, <2>4
    <2>6. ~IsWeak(o) => Weak(o) \subseteq Strong(o)
        BY <2>1, <2>2
    <2> QED
        BY <1>1, <2>1, <2>4, <2>5, <2>6
<1>2. CASE Kind(o) = "userdata"
    <2>1. Strong(o) = Objs \cap {body[o].mt} /\ Weak(o) = {}
        BY <1>2 DEF Strong, Weak
    <2>2. body[o].mt \in Objs => Kind(body[o].mt) # "upval"
        BY <1>2, BodyFacts, ObjsAssumption
    <2> QED
        BY <1>2, <2>1, <2>2 DEF All
<1>3. CASE Kind(o) = "function"
    BY <1>3 DEF Strong, Weak
<1>4. CASE Kind(o) = "upval"
    <2>1. Strong(o) = Objs \cap {upvalue(o)} /\ Weak(o) = {}
        BY <1>4 DEF Strong, Weak
    <2>2. upvalue(o) \in Objs => Kind(upvalue(o)) # "upval"
        <3>1. CASE Open(o)
            <4>1. body[o].at[1] \in Alive /\ body[o].at[2] \in Slots /\ Kind(body[o].at[1]) = "thread"
                BY <1>4, <3>1, BodyFacts DEF Homed
            <4> QED
                BY <3>1, <4>1, BodyFacts, ObjsAssumption DEF upvalue
        <3>2. CASE ~Open(o)
            BY <1>4, <3>2, BodyFacts, ObjsAssumption DEF upvalue
        <3> QED
            BY <3>1, <3>2
    <2> QED
        BY <1>4, <2>1, <2>2 DEF All
<1>5. CASE Kind(o) = "thread"
    <2>1. Strong(o) = Objs \cap StackOf(o) /\ Weak(o) = {}
        BY <1>5 DEF Strong, Weak
    <2>2. \A s \in Slots : body[o].stack[s] \in Objs => Kind(body[o].stack[s]) # "upval"
        BY <1>5, BodyFacts, ObjsAssumption
    <2>3. \A v \in Range(fin) : Kind(v) # "upval"
        BY DEF HeapOK, Of
    <2>4. \A v \in All(o) : Kind(v) # "upval"
        BY <2>1, <2>2, <2>3 DEF All, StackOf
    <2> QED
        BY <1>5, <2>1, <2>4
<1>6. CASE Kind(o) = "string"
    BY <1>6 DEF Strong, Weak, All
<1> QED
    BY <1>0, <1>1, <1>2, <1>3, <1>4, <1>5, <1>6 DEF Kinds

-----------------------------------------------------------------------------
(* Marking *)

\* What is white in m and no longer in n.
New(m, n) == {o \in Objs : White(m, o) /\ ~White(n, o)}

\* What mark does: the objects it reaches, all white before, are in use.  It
\* goes as far as userdata and upvalues lead, and stays inside every set that
\* is closed under references.
LEMMA MarkFacts ==
    ASSUME HeapOK, Homed, Sealed, NEW m \in Marks, NEW S, S \cap Objs \subseteq Alive
    PROVE  LET n == mark(m, S)
               W == New(m, n)
           IN /\ n \in Marks /\ W \subseteq Alive
              /\ n.weak = m.weak /\ n.grayagain = m.grayagain
              /\ n.gray = m.gray \cup {o \in W : Kind(o) \in {"table", "function", "thread"}}
              /\ \A o \in Objs \ W : n.color[o] = m.color[o]
              /\ \A o \in W : /\ White(m, o)
                              /\ n.color[o] = IF Kind(o) = "userdata" \/ (Kind(o) = "upval" /\ ~Open(o))
                                              THEN "black" ELSE "gray"
              /\ Dark(n) = Dark(m) \cup W /\ S \cap Objs \subseteq Dark(n)
              /\ \A o \in W : Kind(o) \in {"userdata", "upval"} => Strong(o) \subseteq Dark(n)
              /\ \A o \in W : Kind(o) = "upval" => o \in S
              /\ \A T \in SUBSET Objs :
                    S \cap Objs \subseteq T /\ (\A o \in T \cap Alive : Strong(o) \subseteq T) => W \subseteq T
<1> DEFINE W0 == {o \in S \cap Objs : White(m, o)}
           V1 == {v \in {upvalue(u) : u \in {o \in W0 : Kind(o) = "upval"}} \cap Objs : White(m, v)}
           W1 == W0 \cup V1
           V2 == {v \in {body[u].mt : u \in {o \in W1 : Kind(o) = "userdata"}} \cap Objs : White(m, v)}
           W2 == W1 \cup V2
           black == {o \in W2 : Kind(o) = "userdata" \/ (Kind(o) = "upval" /\ ~Open(o))}
           n == mark(m, S)
<1>1. n = [m EXCEPT !.color = [o \in Objs |-> IF o \in black THEN "black"
                                           ELSE IF o \in W2 THEN "gray" ELSE @[o]],
                    !.gray = @ \cup {o \in W2 : Kind(o) \in {"table", "function", "thread"}}]
    BY Zenon DEF mark
<1>2. /\ \A o \in W0 : o \in S /\ o \in Alive /\ White(m, o)
      /\ \A o \in S \cap Objs : White(m, o) => o \in W0
    OBVIOUS
<1>3. ASSUME NEW u \in W0, Kind(u) = "upval"
      PROVE  Strong(u) = Objs \cap {upvalue(u)} /\ (upvalue(u) \in Objs => upvalue(u) \in Alive /\ Kind(upvalue(u)) # "upval")
    <2>1. Strong(u) = Objs \cap {upvalue(u)} /\ \A v \in All(u) : Kind(v) # "upval"
        BY <1>2, <1>3, StrongFacts
    <2>2. Strong(u) \subseteq Alive /\ Strong(u) \subseteq All(u)
        BY <1>2 DEF Sealed, All
    <2> QED
        BY <2>1, <2>2
<1>4. \A v \in V1 : /\ v \in Alive /\ White(m, v) /\ Kind(v) # "upval"
                    /\ \E u \in W0 : Kind(u) = "upval" /\ Strong(u) = {v}
    BY <1>3
<1>5. \A u \in W0 : Kind(u) = "upval" => \A v \in Strong(u) : White(m, v) => v \in V1
    BY <1>3
<1> HIDE DEF V1
<1>6. \A o \in W1 : o \in Alive /\ White(m, o)
    BY <1>2, <1>4
<1>7. ASSUME NEW u \in W1, Kind(u) = "userdata"
      PROVE  /\ Strong(u) = Objs \cap {body[u].mt}
             /\ body[u].mt \in Objs => body[u].mt \in Alive /\ Kind(body[u].mt) = "table"
    <2>1. Strong(u) = Objs \cap {body[u].mt} /\ Strong(u) \subseteq Alive
        BY <1>6, <1>7, StrongFacts DEF Sealed, All
    <2>2. body[u].mt \in Objs => Kind(body[u].mt) = "table"
        BY <1>6, <1>7, BodyFacts, ObjsAssumption
    <2> QED
        BY <2>1, <2>2
<1>8. \A v \in V2 : /\ v \in Alive /\ White(m, v) /\ Kind(v) = "table"
                    /\ \E u \in W1 : Kind(u) = "userdata" /\ Strong(u) = {v}
    BY <1>7
<1>9. \A u \in W1 : Kind(u) = "userdata" => \A v \in Strong(u) : White(m, v) => v \in V2
    BY <1>7
<1> HIDE DEF V2, W0
<1>10. W2 \subseteq Alive /\ W2 \subseteq Objs /\ \A o \in W2 : White(m, o)
    BY <1>6, <1>8 DEF Alive
<1>11. black \subseteq W2 /\ W2 \subseteq Objs
    BY <1>10
<1> DEFINE Col(o) == IF Kind(o) = "userdata" \/ (Kind(o) = "upval" /\ ~Open(o)) THEN "black" ELSE "gray"
<1>12. /\ n \in Marks /\ n.weak = m.weak /\ n.grayagain = m.grayagain
       /\ n.gray = m.gray \cup {o \in W2 : Kind(o) \in {"table", "function", "thread"}}
       /\ \A o \in Objs : n.color[o] = IF o \in W2 THEN Col(o) ELSE m.color[o]
    <2> HIDE DEF n
    <2> DEFINE gray == {o \in W2 : Kind(o) \in {"table", "function", "thread"}}
               color == [o \in Objs |-> IF o \in W2 THEN Col(o) ELSE m.color[o]]
    <2>1. color \in [Objs -> Whites \cup {"gray", "black"}] /\ gray \subseteq Objs
        BY <1>11 DEF Marks
    <2>2. n = [m EXCEPT !.color = color, !.gray = m.gray \cup gray]
        <3>1. [o \in Objs |-> IF o \in black THEN "black" ELSE IF o \in W2 THEN "gray" ELSE m.color[o]] = color
            BY <1>11
        <3> QED
            BY <1>1, <3>1 DEF Marks
    <2>3. color = [o \in Objs |-> IF o \in W2 THEN Col(o) ELSE m.color[o]]
        OBVIOUS
    <2> HIDE DEF color, gray, W2
    <2>4. n \in Marks /\ n.weak = m.weak /\ n.grayagain = m.grayagain /\ n.gray = m.gray \cup gray /\ n.color = color
        BY <2>1, <2>2 DEF Marks
    <2> QED
        BY <2>3, <2>4 DEF gray
<1> HIDE DEF n, W1
<1>13. New(m, n) = W2 /\ Dark(n) = Dark(m) \cup W2
    <2>1. \A o \in W2 : ~White(n, o)
        BY <1>11, <1>12 DEF White, Whites
    <2>2. \A o \in Objs \ W2 : White(n, o) <=> White(m, o)
        BY <1>12 DEF White
    <2> QED
        BY <1>10, <2>1, <2>2 DEF New, Dark
<1>14. S \cap Objs \subseteq Dark(n)
    BY <1>2, <1>13 DEF Dark, W1
<1>15. \A o \in W2 : Kind(o) \in {"userdata", "upval"} => Strong(o) \subseteq Dark(n)
    <2>1. \A o \in W2 : Strong(o) \subseteq Objs
        BY <1>10, StrongFacts
    <2>2. \A o \in W2 : Kind(o) = "userdata" => o \in W1
        BY <1>8
    <2>3. \A o \in W2 : Kind(o) = "upval" => o \in W0
        BY <1>4, <1>8 DEF W1
    <2>4. \A o \in W2 : \A v \in Strong(o) : Kind(o) \in {"userdata", "upval"} /\ White(m, v) => v \in W2
        BY <1>5, <1>9, <2>2, <2>3 DEF W1
    <2> QED
        BY <1>13, <2>1, <2>4 DEF Dark
<1>16. \A o \in W2 : Kind(o) = "upval" => o \in S
    BY <1>2, <1>4, <1>8 DEF W1
<1>17. ASSUME NEW T \in SUBSET Objs, S \cap Objs \subseteq T, \A o \in T \cap Alive : Strong(o) \subseteq T
       PROVE  W2 \subseteq T
    <2>1. W0 \subseteq T
        BY <1>2, <1>17 DEF Alive
    <2>2. V1 \subseteq T
        BY <1>2, <1>4, <1>17, <2>1
    <2>3. V2 \subseteq T
        BY <1>6, <1>8, <1>17, <2>1, <2>2 DEF W1
    <2> QED
        BY <2>1, <2>2, <2>3 DEF W1
<1> HIDE DEF W2
<1> QED
    BY <1>10, <1>12, <1>13, <1>14, <1>15, <1>16, <1>17 DEF n

\* The gray objects, and the white ones that they lead to.
Reached(m) == From(m.gray, [o \in Objs |-> IF o \in Alive THEN {v \in Strong(o) : White(m, v)} ELSE {}])

\* Traversal darkens, and turns gray those that wait for `atomic'.
LEMMA TraversedFacts ==
    ASSUME HeapOK, NEW m \in Marks, NEW F \in SUBSET Alive
    PROVE  LET n == traversed(m, F)
           IN /\ n \in Marks /\ n.gray = m.gray \ F
              /\ n.weak = m.weak \cup {o \in F : IsWeak(o)}
              /\ n.grayagain = m.grayagain \cup {o \in F : IsThread(o)}
              /\ \A o \in Objs \ F : n.color[o] = m.color[o]
              /\ \A o \in F : n.color[o] = IF \/ IsWeak(o) \/ Kind(o) \in {"thread", "string"}
                                              \/ Kind(o) = "upval" /\ Open(o)
                                           THEN "gray" ELSE "black"
              /\ Dark(n) = Dark(m) \cup F
<1> DEFINE n == traversed(m, F)
           gray == {o \in F : IsWeak(o) \/ Kind(o) \in {"thread", "string"} \/ (Kind(o) = "upval" /\ Open(o))}
           color == [o \in Objs |-> IF o \in gray THEN "gray" ELSE IF o \in F THEN "black" ELSE m.color[o]]
           weak == {o \in F : IsWeak(o)}
           again == {o \in F : IsThread(o)}
<1>1. n = [m EXCEPT !.color = color, !.gray = m.gray \ F, !.weak = m.weak \cup weak, !.grayagain = m.grayagain \cup again]
    BY DEF traversed
<1>2. F \subseteq Objs /\ gray \subseteq F /\ weak \subseteq Objs /\ again \subseteq Objs
    BY DEF Alive
<1>3. color \in [Objs -> Whites \cup {"gray", "black"}]
    <2> HIDE DEF gray
    <2> QED
        BY DEF Marks
<1>4. \A o \in Objs : color[o] = IF o \in gray THEN "gray" ELSE IF o \in F THEN "black" ELSE m.color[o]
    OBVIOUS
<1> HIDE DEF color
<1>5. /\ n \in Marks /\ n.gray = m.gray \ F /\ n.weak = m.weak \cup weak
      /\ n.grayagain = m.grayagain \cup again /\ n.color = color
    <2> HIDE DEF n, weak, again
    <2> QED
        BY <1>1, <1>2, <1>3 DEF Marks
<1> HIDE DEF n
<1>6. Dark(n) = Dark(m) \cup F
    <2> HIDE DEF gray
    <2>1. \A o \in F : ~White(n, o)
        BY <1>2, <1>4, <1>5 DEF White, Whites
    <2>2. \A o \in Objs \ F : White(n, o) <=> White(m, o)
        BY <1>2, <1>4, <1>5 DEF White
    <2> QED
        BY <1>2, <2>1, <2>2 DEF Dark
<1> QED
    BY <1>2, <1>4, <1>5, <1>6 DEF n

\* propagateall traverses what the gray objects lead to, and stays inside
\* every set that is closed under references.
LEMMA ReachedFacts ==
    ASSUME HeapOK, Homed, Sealed, NEW m \in Marks, m.gray \subseteq Alive
    PROVE  LET F == Reached(m)
           IN /\ propagateall(m) = traversed(m, F) /\ F \in SUBSET Alive /\ m.gray \subseteq F
              /\ \A o \in F : Strong(o) \subseteq Dark(m) \cup F
              /\ \A T \in SUBSET Objs :
                    m.gray \subseteq T /\ (\A o \in T \cap Alive : Strong(o) \subseteq T) => F \subseteq T
<1> DEFINE refs == [o \in Objs |-> IF o \in Alive THEN {v \in Strong(o) : White(m, v)} ELSE {}]
           F == Reached(m)
<1>1. F = From(m.gray, refs) /\ propagateall(m) = traversed(m, F)
    BY DEF Reached, propagateall
<1>2. \A o \in Alive : Strong(o) \subseteq Objs /\ Strong(o) \subseteq Alive
    BY StrongFacts DEF Sealed, All
<1>3. \A o \in Objs : refs[o] = IF o \in Alive THEN {v \in Strong(o) : White(m, v)} ELSE {}
    OBVIOUS
<1>4. refs \in [Objs -> SUBSET Objs]
    BY <1>2
<1> HIDE DEF refs
<1>5. m.gray \in SUBSET Objs /\ Alive \subseteq Objs
    BY DEF Marks, Alive
<1>6. /\ m.gray \subseteq F /\ F \subseteq Objs /\ \A o \in F : refs[o] \subseteq F
      /\ \A T \in SUBSET Objs : m.gray \subseteq T /\ (\A o \in T : refs[o] \subseteq T) => F \subseteq T
    <2> HIDE DEF F
    <2> QED
        BY <1>1, <1>4, <1>5, FromFacts
<1> HIDE DEF F
<1>7. F \subseteq Alive
    <2>1. \A o \in Alive : refs[o] \subseteq Alive
        BY <1>2, <1>3, <1>5
    <2> QED
        BY <1>5, <1>6, <2>1
<1>8. \A o \in F : Strong(o) \subseteq Dark(m) \cup F
    <2>1. ASSUME NEW o \in F, NEW v \in Strong(o), White(m, v)
          PROVE  v \in F
        <3>1. refs[o] = {x \in Strong(o) : White(m, x)}
            BY <1>3, <1>5, <1>7
        <3>2. refs[o] \subseteq F
            BY <1>6
        <3> QED
            BY <2>1, <3>1, <3>2
    <2> QED
        BY <1>2, <1>7, <2>1 DEF Dark
<1>9. ASSUME NEW T \in SUBSET Objs, m.gray \subseteq T, \A o \in T \cap Alive : Strong(o) \subseteq T
      PROVE  F \subseteq T
    <2>1. \A o \in T : refs[o] \subseteq T
        BY <1>3, <1>9
    <2> QED
        BY <1>6, <1>9, <2>1
<1> QED
    BY <1>1, <1>6, <1>7, <1>8, <1>9 DEF F

-----------------------------------------------------------------------------
(* What is left to do in the atomic phase *)

\* Dark objects but those of E and Y refer to dark objects or to X; the weak
\* references of those on the list of weak tables may lead anywhere.
Clean(m, E, Y, X) ==
    \A o \in Alive \ (E \cup Y) : ~White(m, o) =>
        /\ Strong(o) \subseteq Dark(m) \cup X
        /\ Weak(o) \subseteq Dark(m) \cup X \/ o \in m.weak

\* The lists hold dark objects that have a field gclist.
Queued(m) ==
    /\ m.gray \cup m.grayagain \cup m.weak \subseteq {o \in Alive : Kind(o) \in {"table", "function", "thread"}}
    /\ m.gray \cup m.grayagain \cup m.weak \subseteq Dark(m)
    /\ \A o \in m.weak : Kind(o) = "table"

\* Colours change to dark ones only, and to black only for objects that may be
\* black.
Darker(m, n) == \A o \in Objs : /\ White(n, o) => n.color[o] = m.color[o]
                                /\ (IsThread(o) \/ Open(o)) /\ Black(n, o) => Black(m, o)

\* T is closed under references.
Within(T) == T \in SUBSET Objs /\ \A o \in T \cap Alive : Strong(o) \subseteq T

\* mark leaves as work what it turns gray.
LEMMA MarkClean ==
    ASSUME HeapOK, Homed, Sealed, NEW m \in Marks, Queued(m), NEW S, S \cap Objs \subseteq Alive,
           NEW E, NEW Y, NEW X, Clean(m, E, Y, X), X \subseteq S
    PROVE  LET n == mark(m, S)
           IN /\ n \in Marks /\ Queued(n) /\ Darker(m, n)
              /\ \A Y1 : n.gray \subseteq Y1 /\ (\A o \in Y \cap Alive : o \in Y1 \/ All(o) \subseteq S)
                        => Clean(n, E, Y1, {})
              /\ Dark(m) \subseteq Dark(n) /\ S \cap Objs \subseteq Dark(n)
              /\ n.weak = m.weak /\ n.grayagain = m.grayagain /\ m.gray \subseteq n.gray
              /\ \A T : Within(T) /\ Dark(m) \subseteq T /\ S \cap Objs \subseteq T => Dark(n) \subseteq T
<1> DEFINE n == mark(m, S)
           W == New(m, n)
<1>1. /\ n \in Marks /\ W \subseteq Alive
      /\ n.weak = m.weak /\ n.grayagain = m.grayagain
      /\ n.gray = m.gray \cup {o \in W : Kind(o) \in {"table", "function", "thread"}}
      /\ \A o \in Objs \ W : n.color[o] = m.color[o]
      /\ \A o \in W : /\ White(m, o)
                      /\ n.color[o] = IF Kind(o) = "userdata" \/ (Kind(o) = "upval" /\ ~Open(o))
                                      THEN "black" ELSE "gray"
      /\ Dark(n) = Dark(m) \cup W /\ S \cap Objs \subseteq Dark(n)
      /\ \A o \in W : Kind(o) \in {"userdata", "upval"} => Strong(o) \subseteq Dark(n)
    BY MarkFacts
<1>2. \A T \in SUBSET Objs :
          S \cap Objs \subseteq T /\ (\A o \in T \cap Alive : Strong(o) \subseteq T) => W \subseteq T
    BY MarkFacts
<1> HIDE DEF n, W
<1>3. Queued(n)
    BY <1>1 DEF Queued
<1>4. Darker(m, n)
    <2>1. \A o \in W : ~White(n, o)
        BY <1>1 DEF White, Whites
    <2>2. \A o \in W : (IsThread(o) \/ Open(o)) => ~Black(n, o)
        BY <1>1 DEF Black, IsThread, Open
    <2> QED
        BY <1>1, <2>1, <2>2 DEF Darker, Black
<1>5. ASSUME NEW Y1, n.gray \subseteq Y1, \A o \in Y \cap Alive : o \in Y1 \/ All(o) \subseteq S,
             NEW o \in Alive \ (E \cup Y1), ~White(n, o)
      PROVE  /\ Strong(o) \subseteq Dark(n) \cup {}
             /\ Weak(o) \subseteq Dark(n) \cup {} \/ o \in n.weak
    <2>0. o \in Objs /\ Strong(o) \subseteq Objs /\ Weak(o) \subseteq Objs /\ Kind(o) \in Kinds
        BY StrongFacts, PoolFacts DEF Alive, HeapOK
    <2>1. CASE o \in W
        <3>1. Kind(o) \in {"userdata", "upval", "string"}
            BY <1>1, <1>5, <2>0, <2>1 DEF Kinds
        <3> QED
            BY <1>1, <2>1, <3>1, StrongFacts
    <2>2. CASE o \notin W /\ o \in Y
        BY <1>1, <1>5, <2>0, <2>2 DEF All
    <2>3. CASE o \notin W /\ o \notin Y
        <3>1. ~White(m, o)
            BY <1>1, <1>5, <2>0, <2>3 DEF White
        <3>2. Strong(o) \subseteq Dark(m) \cup X /\ (Weak(o) \subseteq Dark(m) \cup X \/ o \in m.weak)
            BY <1>5, <2>3, <3>1 DEF Clean
        <3> QED
            BY <1>1, <2>0, <3>2
    <2> QED
        BY <2>1, <2>2, <2>3
<1>6. \A Y1 : n.gray \subseteq Y1 /\ (\A o \in Y \cap Alive : o \in Y1 \/ All(o) \subseteq S)
              => Clean(n, E, Y1, {})
    BY <1>5, Zenon DEF Clean
<1>7. ASSUME NEW T, Within(T), Dark(m) \subseteq T, S \cap Objs \subseteq T
      PROVE  Dark(n) \subseteq T
    BY <1>1, <1>2, <1>7 DEF Within
<1> QED
    BY <1>1, <1>3, <1>4, <1>6, <1>7 DEF n

\* propagateall does what is left for the gray objects.
LEMMA AllClean ==
    ASSUME HeapOK, Homed, Sealed, NEW m \in Marks, Queued(m),
           NEW E, NEW Y, Clean(m, E, Y \cup m.gray, {})
    PROVE  LET n == propagateall(m)
           IN /\ n \in Marks /\ Queued(n) /\ Darker(m, n) /\ Clean(n, E, Y, {})
              /\ Dark(m) \subseteq Dark(n) /\ n.gray = {}
              /\ m.weak \subseteq n.weak /\ m.grayagain \subseteq n.grayagain
              /\ \A T : Within(T) /\ Dark(m) \subseteq T => Dark(n) \subseteq T
<1> DEFINE n == propagateall(m)
           F == Reached(m)
<1>0. m.gray \subseteq Alive /\ m.gray \subseteq Dark(m)
    BY DEF Queued
<1>1. /\ n = traversed(m, F) /\ F \in SUBSET Alive /\ m.gray \subseteq F
      /\ \A o \in F : Strong(o) \subseteq Dark(m) \cup F
      /\ \A T \in SUBSET Objs :
            m.gray \subseteq T /\ (\A o \in T \cap Alive : Strong(o) \subseteq T) => F \subseteq T
    BY <1>0, ReachedFacts
<1> HIDE DEF n, F
<1>2. /\ n \in Marks /\ n.gray = m.gray \ F
      /\ n.weak = m.weak \cup {o \in F : IsWeak(o)}
      /\ n.grayagain = m.grayagain \cup {o \in F : IsThread(o)}
      /\ \A o \in Objs \ F : n.color[o] = m.color[o]
      /\ \A o \in F : n.color[o] = IF \/ IsWeak(o) \/ Kind(o) \in {"thread", "string"}
                                      \/ Kind(o) = "upval" /\ Open(o)
                                   THEN "gray" ELSE "black"
      /\ Dark(n) = Dark(m) \cup F
    BY <1>1, TraversedFacts
<1>3. Queued(n)
    <2>1. \A o \in n.weak : Kind(o) = "table"
        BY <1>2 DEF Queued, IsWeak
    <2>2. \A o \in F : IsThread(o) \/ IsWeak(o) => Kind(o) \in {"table", "function", "thread"}
        BY DEF IsThread, IsWeak
    <2> QED
        BY <1>1, <1>2, <2>1, <2>2 DEF Queued
<1>4. Darker(m, n)
    <2>1. \A o \in F : ~White(n, o)
        BY <1>2 DEF White, Whites
    <2>2. \A o \in F : (IsThread(o) \/ Open(o)) => ~Black(n, o)
        BY <1>2 DEF Black, IsThread, Open
    <2> QED
        BY <1>2, <2>1, <2>2 DEF Darker, Black
<1>5. ASSUME NEW o \in Alive \ (E \cup Y), ~White(n, o)
      PROVE  /\ Strong(o) \subseteq Dark(n) \cup {}
             /\ Weak(o) \subseteq Dark(n) \cup {} \/ o \in n.weak
    <2>0. o \in Objs /\ Strong(o) \subseteq Objs /\ Weak(o) \subseteq Objs
        BY StrongFacts DEF Alive
    <2>1. CASE o \in F
        <3>1. Strong(o) \subseteq Dark(n)
            BY <1>1, <1>2, <2>1
        <3>2. IsWeak(o) \/ Weak(o) \subseteq Strong(o)
            BY StrongFacts
        <3> QED
            BY <1>2, <2>1, <3>1, <3>2
    <2>2. CASE o \notin F
        <3>1. ~White(m, o) /\ o \notin m.gray
            BY <1>1, <1>2, <1>5, <2>0, <2>2 DEF White
        <3>2. Strong(o) \subseteq Dark(m) \cup {} /\ (Weak(o) \subseteq Dark(m) \cup {} \/ o \in m.weak)
            BY <1>5, <3>1 DEF Clean
        <3> QED
            BY <1>2, <3>2
    <2> QED
        BY <2>1, <2>2
<1>6. Clean(n, E, Y, {})
    BY <1>5, Zenon DEF Clean
<1>7. ASSUME NEW T, Within(T), Dark(m) \subseteq T
      PROVE  Dark(n) \subseteq T
    BY <1>0, <1>1, <1>2, <1>7 DEF Within
<1> QED
    BY <1>1, <1>2, <1>3, <1>4, <1>6, <1>7 DEF n

-----------------------------------------------------------------------------
(* The marks that `atomic' makes one after the other *)

Tmu    == Range(tmudata)
Marks1 == propagateall(mark(g, openvalues(g)))
Marks2 == propagateall(mark([Marks1 EXCEPT !.gray = Marks1.weak, !.weak = {}], {gmt}))
Marks3 == propagateall([Marks2 EXCEPT !.gray = Marks2.grayagain, !.grayagain = {}])
Tmu4   == tmudata \o separateudata(Marks3)
Marks4 == propagateall(marktmu(Marks3, Range(Tmu4)))

\* Open upvalues that a function has been seen to use
GrayOpens == {u \in Of("upval") : Open(u) /\ g.color[u] = "gray"}

\* Before the dying userdata are marked: what is dark refers to what is dark,
\* but for the userdata that wait for their finalizers.
LEMMA Marks3Facts ==
    ASSUME HeapOK, Homed, Sealed, g \in Marks, Queued(g), g.gray = {},
           Clean(g, Tmu, g.grayagain \cup g.weak \cup GrayOpens, {})
    PROVE  /\ Marks3 \in Marks /\ Queued(Marks3) /\ Darker(g, Marks3) /\ Marks3.gray = {}
           /\ Clean(Marks3, Tmu, {}, {})
           /\ Dark(g) \subseteq Dark(Marks3) /\ Objs \cap {gmt} \subseteq Dark(Marks3)
           /\ \A T : Within(T) /\ Dark(g) \subseteq T /\ Objs \cap {gmt} \subseteq T => Dark(Marks3) \subseteq T
<1> DEFINE S1 == openvalues(g)
           m1 == mark(g, S1)
           n1 == [Marks1 EXCEPT !.gray = Marks1.weak, !.weak = {}]
           m2 == mark(n1, {gmt})
           n2 == [Marks2 EXCEPT !.gray = Marks2.grayagain, !.grayagain = {}]
<1>1. S1 = {upvalue(u) : u \in GrayOpens} /\ \A u \in GrayOpens : u \in Alive /\ u \in Dark(g)
    BY DEF openvalues, GrayOpens, Of, Alive, Dark, White, Whites
<1>2. \A u \in GrayOpens : Strong(u) = Objs \cap {upvalue(u)} /\ All(u) = Strong(u) /\ Strong(u) \subseteq Alive
    BY <1>1, StrongFacts DEF GrayOpens, Of, All, Sealed
<1>3. S1 \cap Objs \subseteq Alive
    BY <1>1, <1>2
<1>4. /\ m1 \in Marks /\ Queued(m1) /\ Darker(g, m1)
      /\ Clean(m1, Tmu, (g.grayagain \cup g.weak) \cup m1.gray, {})
      /\ Dark(g) \subseteq Dark(m1) /\ m1.weak = g.weak /\ m1.grayagain = g.grayagain
      /\ \A T : Within(T) /\ Dark(g) \subseteq T => Dark(m1) \subseteq T
    <2>1. \A o \in GrayOpens \cap Alive : All(o) \subseteq S1
        BY <1>1, <1>2
    <2>3. /\ m1 \in Marks /\ Queued(m1) /\ Darker(g, m1)
          /\ Clean(m1, Tmu, (g.grayagain \cup g.weak) \cup m1.gray, {})
          /\ Dark(g) \subseteq Dark(m1) /\ m1.weak = g.weak /\ m1.grayagain = g.grayagain
          /\ \A T : Within(T) /\ Dark(g) \subseteq T /\ S1 \cap Objs \subseteq T => Dark(m1) \subseteq T
        <3> DEFINE Y == g.grayagain \cup g.weak \cup GrayOpens
                   Y1 == (g.grayagain \cup g.weak) \cup m1.gray
                   X == {}
        <3>1. Clean(g, Tmu, Y, X) /\ X \subseteq S1
            OBVIOUS
        <3>2. m1.gray \subseteq Y1 /\ \A o \in Y \cap Alive : o \in Y1 \/ All(o) \subseteq S1
            BY <2>1
        <3> HIDE DEF S1, X, Y, Y1
        <3>3. /\ m1 \in Marks /\ Queued(m1) /\ Darker(g, m1)
              /\ Clean(m1, Tmu, Y1, {})
              /\ Dark(g) \subseteq Dark(m1) /\ m1.weak = g.weak /\ m1.grayagain = g.grayagain
              /\ \A T : Within(T) /\ Dark(g) \subseteq T /\ S1 \cap Objs \subseteq T => Dark(m1) \subseteq T
            BY <1>3, <3>1, <3>2, MarkClean
        <3> QED
            BY <3>3 DEF Y1
    <2>4. ASSUME NEW T, Within(T), Dark(g) \subseteq T
          PROVE  S1 \cap Objs \subseteq T
        BY <1>1, <1>2, <2>4 DEF Within
    <2> HIDE DEF S1, m1
    <2> QED
        BY <2>3, <2>4
<1> HIDE DEF S1, m1
<1>5. /\ Marks1 \in Marks /\ Queued(Marks1) /\ Darker(m1, Marks1) /\ Clean(Marks1, Tmu, g.grayagain \cup g.weak, {})
      /\ Dark(m1) \subseteq Dark(Marks1) /\ g.weak \subseteq Marks1.weak /\ g.grayagain \subseteq Marks1.grayagain
      /\ \A T : Within(T) /\ Dark(m1) \subseteq T => Dark(Marks1) \subseteq T
    <2>1. Marks1 = propagateall(m1)
        BY DEF Marks1, m1, S1
    <2> QED
        BY <1>4, <2>1, AllClean
<1>6. /\ n1 \in Marks /\ Dark(n1) = Dark(Marks1) /\ n1.color = Marks1.color
      /\ n1.gray = Marks1.weak /\ n1.weak = {} /\ n1.grayagain = Marks1.grayagain
    BY <1>5 DEF Marks, Dark, White
<1> HIDE DEF n1
<1>7. Queued(n1) /\ Clean(n1, Tmu, g.grayagain \cup n1.gray, {})
    <2>1. Queued(n1)
        BY <1>5, <1>6 DEF Queued
    <2>2. ASSUME NEW o \in Alive \ (Tmu \cup (g.grayagain \cup n1.gray)), ~White(n1, o)
          PROVE  Strong(o) \subseteq Dark(n1) \cup {} /\ (Weak(o) \subseteq Dark(n1) \cup {} \/ o \in n1.weak)
        <3>1. ~White(Marks1, o) /\ o \notin Marks1.weak /\ o \notin g.weak /\ o \notin g.grayagain
            BY <1>5, <1>6, <2>2 DEF White
        <3> QED
            BY <1>5, <1>6, <2>2, <3>1 DEF Clean
    <2> QED
        BY <2>1, <2>2, Zenon DEF Clean
<1>8. gmt \in Objs => gmt \in Alive
    BY ObjsAssumption DEF HeapOK, Of
<1>9. /\ m2 \in Marks /\ Queued(m2) /\ Darker(n1, m2) /\ Clean(m2, Tmu, g.grayagain \cup m2.gray, {})
      /\ Dark(n1) \subseteq Dark(m2) /\ Objs \cap {gmt} \subseteq Dark(m2) /\ m2.grayagain = Marks1.grayagain
      /\ \A T : Within(T) /\ Dark(n1) \subseteq T /\ Objs \cap {gmt} \subseteq T => Dark(m2) \subseteq T
    <2>1. {gmt} \cap Objs \subseteq Alive
        BY <1>8
    <2>2. /\ m2 \in Marks /\ Queued(m2) /\ Darker(n1, m2) /\ Clean(m2, Tmu, g.grayagain \cup m2.gray, {})
          /\ Dark(n1) \subseteq Dark(m2) /\ {gmt} \cap Objs \subseteq Dark(m2) /\ m2.grayagain = n1.grayagain
          /\ \A T : Within(T) /\ Dark(n1) \subseteq T /\ {gmt} \cap Objs \subseteq T => Dark(m2) \subseteq T
        <3> DEFINE Y == g.grayagain \cup n1.gray
                   Y1 == g.grayagain \cup m2.gray
                   X == {}
                   S == {gmt}
        <3>1. Clean(n1, Tmu, Y, X) /\ X \subseteq S /\ S \cap Objs \subseteq Alive
            BY <1>7, <2>1
        <3>2. m2 = mark(n1, S) /\ m2.gray \subseteq Y1
            OBVIOUS
        <3>3. n1.gray \subseteq m2.gray
            <4> HIDE DEF S, X, Y, Y1, m2
            <4> QED
                BY <1>6, <1>7, <3>1, <3>2, MarkClean
        <3>4. \A o \in Y \cap Alive : o \in Y1
            BY <3>3
        <3> HIDE DEF S, X, Y, Y1, m2
        <3>5. /\ m2 \in Marks /\ Queued(m2) /\ Darker(n1, m2) /\ Clean(m2, Tmu, Y1, {})
              /\ Dark(n1) \subseteq Dark(m2) /\ S \cap Objs \subseteq Dark(m2) /\ m2.grayagain = n1.grayagain
              /\ \A T : Within(T) /\ Dark(n1) \subseteq T /\ S \cap Objs \subseteq T => Dark(m2) \subseteq T
            BY <1>6, <1>7, <3>1, <3>2, <3>4, MarkClean
        <3> QED
            BY <3>5 DEF Y1, S
    <2>3. {gmt} \cap Objs = Objs \cap {gmt}
        OBVIOUS
    <2> HIDE DEF m2
    <2> QED
        BY <1>6, <2>2, <2>3
<1> HIDE DEF m2
<1>10. /\ Marks2 \in Marks /\ Queued(Marks2) /\ Darker(m2, Marks2) /\ Clean(Marks2, Tmu, g.grayagain, {})
       /\ Dark(m2) \subseteq Dark(Marks2) /\ g.grayagain \subseteq Marks2.grayagain /\ Marks2.gray = {}
       /\ \A T : Within(T) /\ Dark(m2) \subseteq T => Dark(Marks2) \subseteq T
    <2>1. Marks2 = propagateall(m2)
        BY DEF Marks2, m2, n1
    <2>2. /\ Marks2 \in Marks /\ Queued(Marks2) /\ Darker(m2, Marks2) /\ Clean(Marks2, Tmu, g.grayagain, {})
          /\ Dark(m2) \subseteq Dark(Marks2) /\ m2.grayagain \subseteq Marks2.grayagain /\ Marks2.gray = {}
          /\ \A T : Within(T) /\ Dark(m2) \subseteq T => Dark(Marks2) \subseteq T
        BY <1>9, <2>1, AllClean
    <2> QED
        BY <1>5, <1>9, <2>2
<1>11. /\ n2 \in Marks /\ Dark(n2) = Dark(Marks2) /\ n2.color = Marks2.color
       /\ n2.gray = Marks2.grayagain /\ n2.weak = Marks2.weak /\ n2.grayagain = {}
    BY <1>10 DEF Marks, Dark, White
<1> HIDE DEF n2
<1>12. Queued(n2) /\ Clean(n2, Tmu, {} \cup n2.gray, {})
    <2>1. Queued(n2)
        BY <1>10, <1>11 DEF Queued
    <2>2. ASSUME NEW o \in Alive \ (Tmu \cup ({} \cup n2.gray)), ~White(n2, o)
          PROVE  Strong(o) \subseteq Dark(n2) \cup {} /\ (Weak(o) \subseteq Dark(n2) \cup {} \/ o \in n2.weak)
        <3>1. ~White(Marks2, o) /\ o \notin g.grayagain
            BY <1>10, <1>11, <2>2 DEF White
        <3> QED
            BY <1>10, <1>11, <2>2, <3>1 DEF Clean
    <2> QED
        BY <2>1, <2>2, Zenon DEF Clean
<1>13. /\ Marks3 \in Marks /\ Queued(Marks3) /\ Darker(n2, Marks3) /\ Clean(Marks3, Tmu, {}, {})
       /\ Dark(n2) \subseteq Dark(Marks3) /\ Marks3.gray = {}
       /\ \A T : Within(T) /\ Dark(n2) \subseteq T => Dark(Marks3) \subseteq T
    <2>1. Marks3 = propagateall(n2)
        BY DEF Marks3, n2
    <2> QED
        BY <1>11, <1>12, <2>1, AllClean
<1>14. Darker(g, Marks3)
    BY <1>4, <1>5, <1>6, <1>9, <1>10, <1>11, <1>13 DEF Darker, White, Black
<1> QED
    BY <1>4, <1>5, <1>6, <1>9, <1>10, <1>11, <1>13, <1>14

\* What the finalizers will see has been marked: the marks that remain after
\* the atomic phase are closed, but for weak references from weak tables.
LEMMA Marks4Facts ==
    ASSUME HeapOK, Homed, Sealed, currentwhite \in Whites, g \in Marks,
           Marks3 \in Marks, Queued(Marks3), Darker(g, Marks3), Marks3.gray = {},
           Clean(Marks3, Tmu, {}, {}), Tmu \subseteq Range(Tmu4), Range(Tmu4) \subseteq Of("userdata")
    PROVE  /\ Marks4 \in Marks /\ Queued(Marks4) /\ Clean(Marks4, {}, {}, {})
           /\ Dark(Marks3) \cup Range(Tmu4) \subseteq Dark(Marks4)
           /\ Darker(g, Marks4)
           /\ \A T : Within(T) /\ Dark(Marks3) \cup Range(Tmu4) \subseteq T => Dark(Marks4) \subseteq T
<1> DEFINE R == Range(Tmu4)
           white == [o \in Objs |-> IF o \in R THEN currentwhite ELSE Marks3.color[o]]
           n == [Marks3 EXCEPT !.color = white]
           m == mark(n, R)
<1>1. Marks4 = propagateall(m)
    BY DEF Marks4, marktmu
<1>2. R \subseteq Objs /\ R \subseteq Alive /\ \A o \in R : Kind(o) = "userdata"
    BY DEF Of, Alive
<1>3. R \cap Objs = R
    BY <1>2
<1> HIDE DEF R
<1>4. white \in [Objs -> Whites \cup {"gray", "black"}]
    BY DEF Marks
<1>5. /\ n \in Marks /\ n.color = white
      /\ n.gray = Marks3.gray /\ n.weak = Marks3.weak /\ n.grayagain = Marks3.grayagain
    <2> HIDE DEF white
    <2> QED
        BY <1>4 DEF Marks
<1>6. \A o \in Objs : n.color[o] = IF o \in R THEN currentwhite ELSE Marks3.color[o]
    BY <1>5
<1> HIDE DEF n, white
<1>7. Dark(n) = Dark(Marks3) \ R
    BY <1>6 DEF Dark, White
<1>8. Queued(n)
    BY <1>2, <1>5, <1>7 DEF Queued
<1>9. /\ m \in Marks /\ Queued(m) /\ Darker(n, m) /\ Clean(m, {}, m.gray, {})
      /\ Dark(n) \subseteq Dark(m) /\ R \subseteq Dark(m)
      /\ \A T : Within(T) /\ Dark(n) \subseteq T /\ R \subseteq T => Dark(m) \subseteq T
    <2> DEFINE E == {}
               Y == {}
               Y1 == m.gray
    <2>1. ASSUME NEW o \in Alive \ (E \cup Y), ~White(n, o)
          PROVE  Strong(o) \subseteq Dark(n) \cup R /\ (Weak(o) \subseteq Dark(n) \cup R \/ o \in n.weak)
        <3>1. o \in Objs /\ o \notin R /\ ~White(Marks3, o)
            BY <1>6, <2>1 DEF White, Alive
        <3>2. o \notin Tmu
            BY <3>1 DEF R
        <3> QED
            BY <1>5, <1>7, <3>1, <3>2 DEF Clean
    <2>2. Clean(n, E, Y, R)
        BY <2>1, Zenon DEF Clean
    <2>3. \A o \in Y \cap Alive : o \in Y1 \/ All(o) \subseteq R
        OBVIOUS
    <2>4. m.gray \subseteq Y1 /\ m = mark(n, R)
        OBVIOUS
    <2> HIDE DEF E, Y, Y1, m
    <2>5. /\ m \in Marks /\ Queued(m) /\ Darker(n, m) /\ Clean(m, E, Y1, {})
          /\ Dark(n) \subseteq Dark(m) /\ R \subseteq Dark(m)
          /\ \A T : Within(T) /\ Dark(n) \subseteq T /\ R \subseteq T => Dark(m) \subseteq T
        BY <1>2, <1>3, <1>5, <1>8, <2>2, <2>3, <2>4, MarkClean
    <2> QED
        BY <2>5 DEF E, Y1
<1> HIDE DEF m
<1>10. /\ Marks4 \in Marks /\ Queued(Marks4) /\ Darker(m, Marks4) /\ Clean(Marks4, {}, {}, {})
       /\ Dark(m) \subseteq Dark(Marks4)
       /\ \A T : Within(T) /\ Dark(m) \subseteq T => Dark(Marks4) \subseteq T
    <2> DEFINE E == {}
               Y == {}
    <2>1. Clean(m, E, Y \cup m.gray, {})
        BY <1>9
    <2> HIDE DEF E, Y
    <2>2. /\ Marks4 \in Marks /\ Queued(Marks4) /\ Darker(m, Marks4) /\ Clean(Marks4, E, Y, {})
          /\ Dark(m) \subseteq Dark(Marks4)
          /\ \A T : Within(T) /\ Dark(m) \subseteq T => Dark(Marks4) \subseteq T
        BY <1>1, <1>9, <2>1, AllClean
    <2> QED
        BY <2>2 DEF E, Y
<1>11. Dark(Marks3) \cup R \subseteq Dark(Marks4)
    BY <1>7, <1>9, <1>10
<1>12. Darker(g, Marks4)
    <2>1. ASSUME NEW o \in Objs, White(Marks4, o)
          PROVE  Marks4.color[o] = g.color[o]
        <3>1. o \notin R
            BY <1>11, <2>1 DEF Dark
        <3> QED
            BY <1>6, <1>9, <1>10, <2>1, <3>1 DEF Darker, White
    <2>2. ASSUME NEW o \in Objs, IsThread(o) \/ Open(o), Black(Marks4, o)
          PROVE  Black(g, o)
        <3>1. o \notin R
            BY <1>2, <2>2 DEF IsThread, Open
        <3> QED
            BY <1>6, <1>9, <1>10, <2>2, <3>1 DEF Darker, Black
    <2> QED
        BY <2>1, <2>2 DEF Darker
<1>13. ASSUME NEW T, Within(T), Dark(Marks3) \cup R \subseteq T
       PROVE  Dark(Marks4) \subseteq T
    BY <1>7, <1>9, <1>10, <1>13
<1> QED
    BY <1>10, <1>11, <1>12, <1>13 DEF R

-----------------------------------------------------------------------------
(* The invariant of the mark phase *)

\* Black objects but those of E refer to dark objects or to X, and userdata do
\* not stop at gray.
Blacks(m, E, X) == \A o \in Alive \ E : /\ Black(m, o) => All(o) \subseteq Dark(m) \cup X
                                        /\ Gray(m, o) => Kind(o) # "userdata"

\* Gray objects are on the list that they wait on; a stack changes without a
\* barrier, so threads and open upvalues are never black.
Grays(m) ==
    /\ \A o \in Alive : Gray(m, o) =>
          /\ Kind(o) = "table"    => o \in m.gray \cup m.grayagain \cup m.weak
          /\ Kind(o) = "function" => o \in m.gray
          /\ Kind(o) = "thread"   => o \in m.gray \cup m.grayagain
          /\ Kind(o) = "upval"    => Open(o)
    /\ \A o \in Alive : Kind(o) = "thread" \/ Open(o) => ~Black(m, o)

\* What the lists hold, each object once.
Queues(m) ==
    /\ \A o \in m.gray \cup m.grayagain \cup m.weak : o \in Alive /\ Gray(m, o)
    /\ \A o \in m.gray : Kind(o) \in {"table", "function", "thread"}
    /\ \A o \in m.grayagain : Kind(o) \in {"table", "thread"}
    /\ \A o \in m.weak : Kind(o) = "table"
    /\ m.gray \cap m.grayagain = {} /\ m.gray \cap m.weak = {} /\ m.grayagain \cap m.weak = {}

Tri(m, E, X) == Blacks(m, E, X) /\ Grays(m) /\ Queues(m)

\* mark keeps the invariant and settles what is owed to the set it marks.
LEMMA TriMark ==
    ASSUME HeapOK, Homed, Sealed, NEW m \in Marks, NEW S, S \cap Objs \subseteq Alive,
           NEW E, NEW X, Tri(m, E, X), X \subseteq S
    PROVE  Tri(mark(m, S), E, {})
<1> DEFINE n == mark(m, S)
           W == New(m, n)
<1>1. /\ n \in Marks /\ W \subseteq Alive
      /\ n.weak = m.weak /\ n.grayagain = m.grayagain
      /\ n.gray = m.gray \cup {o \in W : Kind(o) \in {"table", "function", "thread"}}
      /\ \A o \in Objs \ W : n.color[o] = m.color[o]
      /\ \A o \in W : /\ White(m, o)
                      /\ n.color[o] = IF Kind(o) = "userdata" \/ (Kind(o) = "upval" /\ ~Open(o))
                                      THEN "black" ELSE "gray"
      /\ Dark(n) = Dark(m) \cup W /\ S \cap Objs \subseteq Dark(n)
      /\ \A o \in W : Kind(o) \in {"userdata", "upval"} => Strong(o) \subseteq Dark(n)
      /\ \A o \in W : Kind(o) = "upval" => o \in S
    BY MarkFacts
<1> HIDE DEF n, W
<1>2. Alive \subseteq Objs
    BY DEF Alive
<1>3. /\ \A o \in W : ~Black(m, o) /\ ~Gray(m, o)
      /\ \A o \in Objs \ W : (Black(n, o) <=> Black(m, o)) /\ (Gray(n, o) <=> Gray(m, o)) /\ (White(n, o) <=> White(m, o))
    BY <1>1 DEF Black, Gray, White, Whites
<1>4. Blacks(n, E, {})
    <2>1. ASSUME NEW o \in Alive \ E, Black(n, o), o \in W
          PROVE  All(o) \subseteq Dark(n)
        <3>1. Kind(o) \in {"userdata", "upval"}
            BY <1>1, <2>1 DEF Black
        <3> QED
            BY <1>1, <2>1, <3>1, StrongFacts DEF All
    <2>2. ASSUME NEW o \in Alive \ E, Black(n, o), o \notin W
          PROVE  All(o) \subseteq Dark(n)
        <3>1. All(o) \subseteq Dark(m) \cup X
            BY <1>2, <1>3, <2>2 DEF Tri, Blacks
        <3>2. All(o) \subseteq Objs
            BY <2>2, StrongFacts DEF All
        <3> QED
            BY <1>1, <3>1, <3>2
    <2>3. \A o \in W : Gray(n, o) => Kind(o) # "userdata"
        BY <1>1 DEF Gray
    <2> QED
        BY <1>2, <1>3, <2>1, <2>2, <2>3 DEF Tri, Blacks
<1>5. Grays(n)
    <2>1. \A o \in W : (Kind(o) = "thread" \/ Open(o)) => ~Black(n, o)
        BY <1>1 DEF Black, Open
    <2>2. \A o \in W : Kind(o) = "upval" /\ Gray(n, o) => Open(o)
        BY <1>1 DEF Gray
    <2> QED
        BY <1>1, <1>2, <1>3, <2>1, <2>2 DEF Tri, Grays
<1>6. Queues(n)
    <2>1. \A o \in W : Kind(o) \in {"table", "function", "thread"} => Gray(n, o)
        BY <1>1 DEF Gray
    <2>2. (m.gray \cup m.grayagain \cup m.weak) \cap W = {}
        BY <1>3 DEF Tri, Queues
    <2> QED
        BY <1>1, <1>2, <1>3, <2>1, <2>2 DEF Tri, Queues
<1> QED
    BY <1>4, <1>5, <1>6 DEF Tri, n

\* A gray object is traversed: its references are owed.
LEMMA TriTraverse ==
    ASSUME HeapOK, Homed, Sealed, NEW m \in Marks, NEW E, Tri(m, E, {}), NEW o \in m.gray
    PROVE  Tri(traversed(m, {o}), E, Strong(o))
<1> DEFINE n == traversed(m, {o})
<1>1. o \in Alive /\ o \in Objs /\ Kind(o) \in {"table", "function", "thread"} /\ Gray(m, o)
      /\ o \notin m.grayagain /\ o \notin m.weak
    BY DEF Tri, Queues, Alive
<1>2. /\ n \in Marks /\ n.gray = m.gray \ {o}
      /\ n.weak = m.weak \cup {x \in {o} : IsWeak(x)}
      /\ n.grayagain = m.grayagain \cup {x \in {o} : IsThread(x)}
      /\ \A x \in Objs \ {o} : n.color[x] = m.color[x]
      /\ \A x \in {o} : n.color[x] = IF \/ IsWeak(x) \/ Kind(x) \in {"thread", "string"}
                                        \/ Kind(x) = "upval" /\ Open(x)
                                     THEN "gray" ELSE "black"
      /\ Dark(n) = Dark(m) \cup {o}
    <2> DEFINE F == {o}
    <2>1. F \in SUBSET Alive
        BY <1>1
    <2> HIDE DEF F
    <2>2. /\ n \in Marks /\ n.gray = m.gray \ F
          /\ n.weak = m.weak \cup {x \in F : IsWeak(x)}
          /\ n.grayagain = m.grayagain \cup {x \in F : IsThread(x)}
          /\ \A x \in Objs \ F : n.color[x] = m.color[x]
          /\ \A x \in F : n.color[x] = IF \/ IsWeak(x) \/ Kind(x) \in {"thread", "string"}
                                          \/ Kind(x) = "upval" /\ Open(x)
                                       THEN "gray" ELSE "black"
          /\ Dark(n) = Dark(m) \cup F
        <3> DEFINE k == traversed(m, F)
        <3>1. k = n
            BY DEF F
        <3> HIDE DEF k, n
        <3> QED
            BY <2>1, <3>1, TraversedFacts DEF k
    <2> QED
        BY <2>2 DEF F
<1> HIDE DEF n
<1>3. Alive \subseteq Objs
    BY DEF Alive
<1>4. \A x \in Objs \ {o} : (Black(n, x) <=> Black(m, x)) /\ (Gray(n, x) <=> Gray(m, x)) /\ (White(n, x) <=> White(m, x))
    BY <1>2 DEF Black, Gray, White
<1>5. /\ Black(n, o) => ~IsWeak(o) /\ Kind(o) # "thread"
      /\ Gray(n, o) => IsWeak(o) \/ Kind(o) = "thread"
      /\ Kind(o) = "function" => Black(n, o)
      /\ Gray(n, o) \/ Black(n, o)
    BY <1>1, <1>2 DEF Black, Gray, IsWeak
<1>6. Blacks(n, E, Strong(o))
    <2>1. Black(n, o) => All(o) \subseteq Strong(o)
        BY <1>1, <1>5, StrongFacts DEF All
    <2> QED
        BY <1>1, <1>2, <1>3, <1>4, <2>1 DEF Tri, Blacks
<1>7. Grays(n)
    BY <1>1, <1>2, <1>3, <1>4, <1>5 DEF Tri, Grays, Open, IsThread
<1>8. Queues(n)
    BY <1>1, <1>2, <1>3, <1>4, <1>5 DEF Tri, Queues, IsThread, IsWeak
<1> QED
    BY <1>6, <1>7, <1>8 DEF Tri, n

\* When no object is on the list gray, what is left is on the other lists, or
\* in the open upvalues.
LEMMA TriClean ==
    ASSUME HeapOK, Homed, g \in Marks, NEW E, Tri(g, E, {}), g.gray = {}
    PROVE  Queued(g) /\ Clean(g, E, g.grayagain \cup g.weak \cup GrayOpens, {})
<1>1. Queued(g)
    BY DEF Tri, Queues, Queued, Gray, Dark, White, Whites, Alive
<1>2. ASSUME NEW o \in Alive \ (E \cup (g.grayagain \cup g.weak \cup GrayOpens)), ~White(g, o)
      PROVE  Strong(o) \subseteq Dark(g) \cup {} /\ (Weak(o) \subseteq Dark(g) \cup {} \/ o \in g.weak)
    <2>0. o \in Objs /\ Kind(o) \in Kinds
        BY PoolFacts DEF Alive, HeapOK
    <2>1. CASE Black(g, o)
        BY <1>2, <2>1 DEF Tri, Blacks, All
    <2>2. CASE ~Black(g, o)
        <3>1. Gray(g, o)
            BY <1>2, <2>0, <2>2 DEF Marks, White, Black, Gray
        <3>2. Kind(o) \notin {"table", "function", "thread", "upval"}
            BY <1>2, <2>0, <3>1 DEF Tri, Grays, GrayOpens, Of, Gray
        <3>3. Kind(o) = "string"
            BY <1>2, <2>0, <3>1, <3>2 DEF Kinds, Tri, Blacks
        <3> QED
            BY <1>2, <3>3, StrongFacts
    <2> QED
        BY <2>1, <2>2
<1> QED
    BY <1>1, <1>2, Zenon DEF Clean
=============================================================================
