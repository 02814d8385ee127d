--------------------------- MODULE LuaTableProofs ---------------------------
(***************************************************************************)
(* Every property of LuaTable, for all keys, values, limits and sizes: the *)
(* nodes stay sound (NodesAlwaysSound), the table implements LuaDictionary *)
(* (TableIsDictionary) and its array is more than half used when an        *)
(* addition gave it its size (ArrayMoreThanHalfUsed).                      *)
(*                                                                         *)
(* The invariant is Sound: every key is in the chain from its main         *)
(* position, chains are finite and do not meet, and a key has one place.   *)
(* It is shown of every function of ltable.c in turn, with what it makes   *)
(* each key give: found, getfreepos, newkey, the collector, resize,        *)
(* rehash, luaH_set, luaH_getn, the loops of the libraries, luaH_next.     *)
(***************************************************************************)
EXTENDS LuaTable, FiniteSetTheorems, WellFoundedInduction, TLAPS

-----------------------------------------------------------------------------
(* Numbers, and loops as recursive functions *)

\* Every non-empty set of natural numbers has a least element.
LEMMA NatLess == \A T \in SUBSET Nat : T # {} => \E n \in T : \A k \in T : n <= k
<1> SUFFICES ASSUME NEW T \in SUBSET Nat, T # {}
             PROVE  \E n \in T : \A k \in T : n <= k
    OBVIOUS
<1> DEFINE R == OpToRel(<, Nat)
<1>1. \A i, j \in Nat : <<i, j>> \in R <=> i < j
    BY DEF OpToRel
<1>2. IsWellFoundedOn(R, Nat)
    BY NatLessThanWellFounded
<1> HIDE DEF R
<1>3. \E n \in T : \A k \in T : ~(<<k, n>> \in R)
    BY <1>2, WFMin
<1>4. \A i, j \in Nat : ~(i < j) => j <= i
    OBVIOUS
<1> QED
    BY <1>1, <1>3, <1>4

\* Induction over the natural numbers, for a set instead of a predicate.
LEMMA SetInduction ==
    ASSUME NEW S, 0 \in S, \A n \in Nat : n \in S => n + 1 \in S
    PROVE  Nat \subseteq S
<1> DEFINE T == Nat \ S
<1>1. SUFFICES ASSUME T # {} PROVE FALSE
    OBVIOUS
<1>2. PICK n \in T : \A k \in T : n <= k
    BY <1>1, NatLess
<1>3. n - 1 \in Nat /\ n - 1 \notin T
    BY <1>2
<1> QED
    BY <1>3

\* Induction up to N.
LEMMA UpTo ==
    ASSUME NEW N \in Nat, NEW S, 0 \in S, \A n \in 1..N : n - 1 \in S => n \in S
    PROVE  \A n \in 0..N : n \in S
<1> DEFINE T == {n \in Nat : n <= N => n \in S}
<1>1. 0 \in T /\ \A n \in Nat : n \in T => n + 1 \in T
    OBVIOUS
<1>2. Nat \subseteq T
    <2> HIDE DEF T
    <2> QED BY <1>1, SetInduction
<1> QED
    BY <1>2

\* the states of a loop of N steps from x on
IsLoop(at, N, x, F) == at = [n \in 0..N |-> IF n = 0 THEN x ELSE F[n][at[n - 1]]]

\* A loop of N steps within a set has a recursive function of its states.
LEMMA Iterate ==
    ASSUME NEW N \in Nat, NEW X, NEW x \in X, NEW F,
           \A n \in 1..N, y \in X : F[n][y] \in X
    PROVE  \E at : IsLoop(at, N, x, F) /\ \A n \in 0..N : at[n] \in X
<1> DEFINE Loop(h, n) == h = [i \in 0..n |-> IF i = 0 THEN x ELSE F[i][h[i - 1]]]
           Fine(n) == \E h : Loop(h, n) /\ \A i \in 0..n : h[i] \in X
           S == {n \in 0..N : Fine(n)}
<1>1. 0 \in S
    <2> DEFINE h == [i \in 0..0 |-> x]
    <2>1. h = [i \in 0..0 |-> IF i = 0 THEN x ELSE F[i][h[i - 1]]]
        OBVIOUS
    <2>2. Loop(h, 0) /\ \A i \in 0..0 : h[i] \in X
        BY <2>1
    <2>3. Fine(0)
        <3> HIDE DEF h, Loop
        <3> QED BY <2>2
    <2> HIDE DEF Fine
    <2> QED
        BY <2>3
<1>2. ASSUME NEW n \in 1..N, n - 1 \in S
      PROVE  n \in S
    <2>1. PICK h : Loop(h, n - 1) /\ \A i \in 0..n - 1 : h[i] \in X
        BY <1>2
    <2> DEFINE k == [i \in 0..n |-> IF i = n THEN F[n][h[n - 1]] ELSE h[i]]
    <2>2. \A i \in 0..n - 1 : h[i] = IF i = 0 THEN x ELSE F[i][h[i - 1]]
        BY <2>1
    <2>3. \A i \in 0..n : k[i] = IF i = 0 THEN x ELSE F[i][k[i - 1]]
        BY <2>2
    <2>4. Loop(k, n)
        BY <2>3
    <2>5. F[n][h[n - 1]] \in X
        BY <2>1
    <2>6. \A i \in 0..n : k[i] \in X
        BY <2>1, <2>5
    <2> HIDE DEF k, Loop
    <2> QED
        BY <2>4, <2>6
<1>3. N \in S
    <2> HIDE DEF S
    <2> QED BY <1>1, <1>2, UpTo
<1> QED
    BY <1>3 DEF IsLoop

-----------------------------------------------------------------------------
(* Powers of two and logarithms *)

\* twoto doubles.
LEMMA TwotoStep == \A e \in Nat : /\ twoto(e) \in Nat \ {0}
                                  /\ twoto(0) = 1
                                  /\ twoto(e + 1) = 2 * twoto(e)
<1> DEFINE Pow(h, n) == h = [i \in 0..n |-> IF i = 0 THEN 1 ELSE 2 * h[i - 1]]
           pow(n) == CHOOSE h : Pow(h, n)
<1>1. ASSUME NEW n \in Nat
      PROVE  Pow(pow(n), n)
    <2> DEFINE F == [i \in 1..n |-> [y \in Nat |-> 2 * y]]
    <2>1. /\ \A i \in 1..n, y \in Nat : F[i][y] \in Nat
          /\ \A i \in 1..n : \A y \in Nat : F[i][y] = 2 * y
        OBVIOUS
    <2> HIDE DEF F
    <2>2. PICK h : /\ h = [i \in 0..n |-> IF i = 0 THEN 1 ELSE F[i][h[i - 1]]]
                   /\ \A i \in 0..n : h[i] \in Nat
        <3> DEFINE X == Nat
        <3>1. 1 \in X /\ \A i \in 1..n, y \in X : F[i][y] \in X
            BY <2>1
        <3> HIDE DEF X
        <3>2. \E h : IsLoop(h, n, 1, F) /\ \A i \in 0..n : h[i] \in X
            BY <3>1, Iterate
        <3> QED
            BY <3>2 DEF X, IsLoop
    <2>3. \A i \in 0..n : (IF i = 0 THEN 1 ELSE F[i][h[i - 1]]) = IF i = 0 THEN 1 ELSE 2 * h[i - 1]
        <3>1. \A i \in 0..n : i # 0 => i \in 1..n /\ i - 1 \in 0..n
            OBVIOUS
        <3>2. \A i \in 0..n : h[i] \in Nat
            BY <2>2
        <3>3. ASSUME NEW i \in 0..n, i # 0
              PROVE  F[i][h[i - 1]] = 2 * h[i - 1]
            BY <2>1, <3>1, <3>2, <3>3
        <3> QED
            BY <3>3
    <2>4. Pow(h, n)
        BY <2>2, <2>3
    <2> QED
        BY <2>4
<1>2. \A n \in Nat : twoto(n) = pow(n)[n]
    BY DEF twoto
<1> HIDE DEF pow
<1>3. ASSUME NEW n \in Nat, NEW h, Pow(h, n)
      PROVE  \A i \in 0..n : h[i] \in Nat \ {0}
    <2> DEFINE S == {i \in 0..n : h[i] \in Nat \ {0}}
    <2>1. 0 \in S /\ \A i \in 1..n : i - 1 \in S => i \in S
        BY <1>3
    <2>2. \A i \in 0..n : i \in S
        <3> HIDE DEF S
        <3> QED BY <2>1, UpTo
    <2> QED
        BY <2>2
<1>4. ASSUME NEW n \in Nat
      PROVE  \A i \in 0..n : pow(n)[i] = pow(n + 1)[i]
    <2> DEFINE p == pow(n)
               q == pow(n + 1)
               S == {i \in 0..n : p[i] = q[i]}
    <2>1. Pow(p, n) /\ Pow(q, n + 1)
        BY <1>1
    <2> HIDE DEF p, q
    <2>2. 0 \in S /\ \A i \in 1..n : i - 1 \in S => i \in S
        BY <2>1
    <2>3. \A i \in 0..n : i \in S
        <3> HIDE DEF S
        <3> QED BY <2>2, UpTo
    <2> QED
        BY <2>3 DEF p, q
<1>5. ASSUME NEW e \in Nat
      PROVE  twoto(e) \in Nat \ {0} /\ twoto(e + 1) = 2 * twoto(e) /\ twoto(0) = 1
    <2> HIDE DEF Pow
    <2>1. Pow(pow(e), e) /\ Pow(pow(e + 1), e + 1) /\ Pow(pow(0), 0)
        BY <1>1
    <2>2. pow(e + 1)[e + 1] = 2 * pow(e + 1)[e]
        BY <2>1 DEF Pow
    <2>3. pow(0)[0] = 1
        BY <2>1 DEF Pow
    <2>4. pow(e + 1)[e] = pow(e)[e]
        BY <1>4
    <2>5. pow(e)[e] \in Nat \ {0}
        BY <2>1, <1>3
    <2> QED
        BY <2>2, <2>3, <2>4, <2>5, <1>2
<1> QED
    BY <1>5

\* The binary logarithm of a positive number, rounded down.
LEMMA Log2Facts ==
    ASSUME NEW n \in Nat \ {0}
    PROVE  luaO_log2(n) \in 0..n /\ twoto(luaO_log2(n)) <= n /\ n < twoto(luaO_log2(n) + 1)
<1> DEFINE S == {e \in Nat : e + 1 <= twoto(e)}
           T == {e \in Nat : n < twoto(e)}
<1>1. 0 \in S /\ \A e \in Nat : e \in S => e + 1 \in S
    BY TwotoStep
<1>2. Nat \subseteq S
    <2> HIDE DEF S
    <2> QED BY <1>1, SetInduction
<1>3. n \in T
    <2>1. n \in S
        BY <1>2
    <2> QED
        BY <2>1, TwotoStep
<1>4. PICK m \in T : \A k \in T : m <= k
    BY <1>3, NatLess
<1>5. m # 0
    BY <1>4, TwotoStep
<1>6. m - 1 \in Nat /\ m - 1 \notin T
    BY <1>4, <1>5
<1>7. m - 1 \in 0..n /\ twoto(m - 1) <= n /\ n < twoto((m - 1) + 1)
    BY <1>3, <1>4, <1>6, TwotoStep
<1>8. \E e \in 0..n : twoto(e) <= n /\ n < twoto(e + 1)
    BY <1>7
<1> QED
    BY <1>8 DEF luaO_log2

\* The sizes of node vectors are powers of two, at least what is asked for.
LEMMA CeilFacts ==
    ASSUME NEW n \in Nat \ {0}
    PROVE  ceillog2(n) \in Nat /\ n <= twoto(ceillog2(n))
<1>1. CASE n = 1
    <2>1. ceillog2(n) = 0
        BY <1>1 DEF ceillog2, luaO_log2
    <2> QED
        BY <1>1, <2>1, TwotoStep
<1>2. CASE n # 1
    <2>1. n - 1 \in Nat \ {0}
        BY <1>2
    <2> DEFINE e == luaO_log2(n - 1)
    <2>2. e \in Nat /\ n - 1 < twoto(e + 1)
        BY <2>1, Log2Facts
    <2>3. ceillog2(n) = e + 1
        BY DEF ceillog2
    <2> HIDE DEF e
    <2> QED
        BY <2>2, <2>3, TwotoStep
<1> QED
    BY <1>1, <1>2

\* The hash of a number is a natural number.
LEMMA HashIsNat == ASSUME NEW n \in Nat PROVE hashnum(n) \in Nat
<1> DEFINE e == luaO_log2(n + 1)
           p == twoto(e)
           q == (n + 1 - p) * 1048576
<1>1. e \in Nat /\ p \in Nat \ {0} /\ p <= n + 1
    BY Log2Facts, TwotoStep
<1>2. hashnum(n) = (1023 + e) * 1048576 + q \div p
    BY DEF hashnum
<1> HIDE DEF e, p
<1>3. q \in Nat
    BY <1>1
<1> HIDE DEF q
<1>4. q \div p \in Nat
    BY <1>1, <1>3
<1> QED
    BY <1>1, <1>2, <1>4

-----------------------------------------------------------------------------
(* Keys, tables and what holds of them between two operations *)

\* the key that a node was given, whether the collector removed it or not
Orig(k) == IF k[1] = "dead" THEN k[2] ELSE k

\* what can be looked up
Hashable == Keys \cup {int(n) : n \in Nat \ {0}}
Slots == Keys \cup {nil} \cup {<<"dead", k>> : k \in Keys}
Nodevector(n) == [0..n - 1 -> [key : Slots, val : Values \cup {nil}, next : {NULL} \cup 0..n - 1]]
Tables == [array : Seq(Values \cup {nil}), node : UNION {Nodevector(n) : n \in Nat \ {0}},
           dummy : BOOLEAN, lastfree : Nat, ok : BOOLEAN]

Nodes(x)   == DOMAIN x.node
Filled(x)  == {i \in Nodes(x) : x.node[i].key # nil}
Home(x, i) == mainposition(x, Orig(x.node[i].key))

\* j is in the chain from i
Closed(x, T) == \A i \in T : x.node[i].next \in T \cup {NULL}
On(x, i, j)  == \A T \in SUBSET Nodes(x) : i \in T /\ Closed(x, T) => j \in T

\* Every element is in the chain from its main position, which has there an
\* element that is in its own.
Homed(x) == \A j \in Filled(x) : /\ Home(x, j) \in Filled(x)
                                 /\ Home(x, Home(x, j)) = Home(x, j)
                                 /\ On(x, Home(x, j), j)

\* Chains do not meet, and have no node that was never used.
Linked(x) ==
  /\ \A i, j \in Nodes(x) : x.node[i].next = x.node[j].next /\ x.node[i].next # NULL => i = j
  /\ \A i \in Nodes(x) : x.node[i].next # NULL => x.node[i].next \in Filled(x)
  /\ \A i \in Nodes(x) : x.node[i].key = nil => x.node[i] = FreeNode
  /\ \A i \in Nodes(x) : x.node[i].key[1] = "dead" => x.node[i].val = nil

\* r decreases along chains, and from a key to its removed copies.
IsRank(x, r) ==
  /\ r \in [Nodes(x) -> Nat]
  /\ \A i \in Nodes(x) : x.node[i].next # NULL => r[x.node[i].next] < r[i]
  /\ \A i, j \in Nodes(x) : x.node[j].key = <<"dead", x.node[i].key>> => r[j] < r[i]
Ranked(x) == \E r : IsRank(x, r)

\* A key has one place.
Single(x) ==
  /\ \A i, j \in Filled(x) : x.node[i].key \in Keys /\ x.node[i].key = x.node[j].key => i = j
  /\ \A i \in Filled(x) : ~inarray(x, x.node[i].key)
  /\ \A i \in 1..sizearray(x) : x.array[i] # nil => i <= MaxKey

\* getfreepos has passed only nodes in use.
Freed(x) ==
  IF x.dummy THEN x.node = [i \in 0..0 |-> FreeNode] /\ x.lastfree = 0
  ELSE x.lastfree <= sizenode(x) /\ \A i \in Nodes(x) : i >= x.lastfree => i \in Filled(x)

Sound(x) == /\ x \in Tables /\ Homed(x) /\ Linked(x) /\ Ranked(x)
            /\ Single(x) /\ Freed(x) /\ x.ok

\* Keys are neither nil nor removed, and an integer key is one of 1..MaxKey.
LEMMA KeyFacts ==
    ASSUME NEW k \in Keys
    PROVE  /\ k # nil /\ k[1] # "dead" /\ Orig(k) = k /\ Orig(<<"dead", k>>) = k
           /\ <<"dead", k>> \notin Keys /\ <<"dead", k>> # nil /\ <<"dead", k>>[1] = "dead"
           /\ ~isint(<<"dead", k>>) /\ ~iscollectable(<<"dead", k>>)
           /\ isint(k) => k[2] \in 1..MaxKey /\ k[2] \in Nat \ {0} /\ k = int(k[2])
           /\ ~isint(k) => iscollectable(k) /\ k[2] \in Nat
<1>1. \A l \in Keys : l[1] \in {"number", "string", "object"}
    BY KeysAssumption DEF isint
<1>2. k # nil /\ <<"dead", k>> \notin Keys
    BY <1>1 DEF nil
<1> QED
    BY <1>1, <1>2, KeysAssumption DEF nil, Orig, isint, iscollectable, int

\* nil is nothing else.
LEMMA NilFacts == /\ ~isint(nil) /\ ~iscollectable(nil) /\ Orig(nil) = nil /\ nil[1] # "dead"
                  /\ nil \notin Values /\ nil \notin Keys
<1>1. nil \notin Keys
    BY KeyFacts
<1> QED
    BY <1>1, ValuesAssumption DEF nil, Orig, isint, iscollectable

\* the nodes of a table
LEMMA TableFacts ==
    ASSUME NEW x \in Tables
    PROVE  /\ sizenode(x) \in Nat \ {0} /\ Nodes(x) = 0..sizenode(x) - 1
           /\ x.node \in Nodevector(sizenode(x))
           /\ sizearray(x) \in Nat /\ DOMAIN x.array = 1..sizearray(x)
           /\ \A i \in 1..sizearray(x) : x.array[i] \in Values \cup {nil}
<1>1. PICK n \in Nat \ {0} : x.node \in Nodevector(n)
    BY DEF Tables
<1>2. Nodes(x) = 0..n - 1
    BY <1>1 DEF Nodevector, Nodes
<1>3. sizenode(x) = n
    BY <1>2, FS_Interval DEF sizenode, Nodes
<1>4. x.array \in Seq(Values \cup {nil})
    BY DEF Tables
<1> QED
    BY <1>1, <1>2, <1>3, <1>4 DEF sizearray

\* the parts of a node
LEMMA NodeFacts ==
    ASSUME NEW x \in Tables, NEW i \in Nodes(x)
    PROVE  /\ x.node[i] = [key |-> x.node[i].key, val |-> x.node[i].val, next |-> x.node[i].next]
           /\ x.node[i] \in [key : Slots, val : Values \cup {nil}, next : {NULL} \cup Nodes(x)]
           /\ x.node[i].key \in Slots /\ x.node[i].val \in Values \cup {nil}
           /\ x.node[i].next \in {NULL} \cup Nodes(x)
           /\ NULL \notin Nodes(x)
<1>1. x.node \in [Nodes(x) -> [key : Slots, val : Values \cup {nil}, next : {NULL} \cup Nodes(x)]]
    BY TableFacts DEF Nodevector
<1>2. x.node[i] \in [key : Slots, val : Values \cup {nil}, next : {NULL} \cup Nodes(x)]
    BY <1>1
<1>3. NULL \notin Nodes(x)
    BY TableFacts DEF NULL
<1> QED
    BY <1>2, <1>3

\* The main position is a node.
LEMMA HomeInNodes ==
    ASSUME NEW x, sizenode(x) \in Nat \ {0}, NEW k \in Hashable
    PROVE  mainposition(x, k) \in 0..sizenode(x) - 1
<1> DEFINE N == sizenode(x)
           odd == IF N = 1 THEN 1 ELSE N - 1
<1>1. odd \in Nat \ {0} /\ odd <= N
    OBVIOUS
<1>2. \A a \in Nat, b \in Nat \ {0} : a % b \in 0..b - 1
    OBVIOUS
<1>3. CASE isint(k)
    <2>1. k[2] \in Nat
        <3>1. CASE k \in Keys
            <4>1. k[2] \in Nat \ {0}
                BY <3>1, <1>3, KeyFacts
            <4> QED
                BY <4>1
        <3>2. CASE k \notin Keys
            BY <3>2 DEF Hashable, int
        <3> QED
            BY <3>1, <3>2
    <2>2. hashnum(k[2]) \in Nat
        BY <2>1, HashIsNat
    <2>3. mainposition(x, k) = hashnum(k[2]) % odd
        BY <1>3 DEF mainposition, isint
    <2> HIDE DEF odd, N
    <2>4. hashnum(k[2]) % odd \in 0..odd - 1
        BY <2>2, <1>1, <1>2
    <2>5. N \in Nat
        BY DEF N
    <2>6. mainposition(x, k) \in 0..N - 1
        BY <2>3, <2>4, <2>5, <1>1
    <2> QED
        BY <2>6 DEF N
<1>4. CASE ~isint(k)
    <2>1. k[2] \in Nat /\ k[1] \in {"string", "object"} /\ k[1] # "number"
        <3>1. k \in Keys
            BY <1>4 DEF Hashable, int, isint
        <3>2. iscollectable(k) /\ k[2] \in Nat
            BY <3>1, <1>4, KeyFacts
        <3> QED
            BY <3>2 DEF iscollectable
    <2>2. mainposition(x, k) = k[2] % N \/ mainposition(x, k) = k[2] % odd
        BY <2>1 DEF mainposition, isint
    <2> HIDE DEF odd
    <2>3. k[2] % N \in 0..N - 1 /\ k[2] % odd \in 0..odd - 1
        BY <2>1, <1>1, <1>2
    <2> QED
        BY <2>2, <2>3, <1>1
<1> QED
    BY <1>3, <1>4

\* Nodes with a key have a main position.
LEMMA OrigFacts ==
    ASSUME NEW x \in Tables, NEW i \in Filled(x)
    PROVE  /\ Orig(x.node[i].key) \in Keys /\ Home(x, i) \in Nodes(x)
           /\ x.node[i].key[1] # "dead" => x.node[i].key \in Keys /\ Orig(x.node[i].key) = x.node[i].key
           /\ x.node[i].key[1] = "dead" => x.node[i].key = <<"dead", Orig(x.node[i].key)>>
<1>1. x.node[i].key \in Slots /\ x.node[i].key # nil
    BY NodeFacts DEF Filled
<1>2. Orig(x.node[i].key) \in Keys
    BY <1>1, KeyFacts DEF Slots
<1>3. Home(x, i) \in Nodes(x)
    BY <1>2, HomeInNodes, TableFacts DEF Home, Hashable
<1>4. CASE x.node[i].key \in Keys
    BY <1>2, <1>3, <1>4, KeyFacts
<1>5. CASE x.node[i].key \notin Keys
    <2>1. PICK k \in Keys : x.node[i].key = <<"dead", k>>
        BY <1>1, <1>5 DEF Slots
    <2> QED
        BY <2>1, <1>2, <1>3, KeyFacts
<1> QED
    BY <1>4, <1>5

-----------------------------------------------------------------------------
(* Chains *)

\* A chain has its start, and goes on.
LEMMA OnFacts ==
    ASSUME NEW x, NEW i \in Nodes(x)
    PROVE  /\ On(x, i, i)
           /\ \A j \in Nodes(x) : On(x, i, j) /\ x.node[j].next # NULL => On(x, i, x.node[j].next)
           /\ \A j : On(x, i, j) => j \in Nodes(x) \/ ~Closed(x, Nodes(x))
    BY DEF On, Closed

\* The rank of what comes later in a chain is lower.
LEMMA OnRank ==
    ASSUME NEW x \in Tables, NEW r, IsRank(x, r), NEW i \in Nodes(x), NEW j, On(x, i, j)
    PROVE  j \in Nodes(x) /\ (j = i \/ r[j] < r[i])
<1> DEFINE T == {a \in Nodes(x) : a = i \/ r[a] < r[i]}
<1>1. Closed(x, T)
    <2> SUFFICES ASSUME NEW a \in T, x.node[a].next # NULL
                 PROVE  x.node[a].next \in T
        BY DEF Closed
    <2>1. x.node[a].next \in Nodes(x)
        BY NodeFacts
    <2>2. r[x.node[a].next] < r[a] /\ r[a] \in Nat /\ r[i] \in Nat /\ r[x.node[a].next] \in Nat
        BY <2>1 DEF IsRank
    <2> QED
        BY <2>1, <2>2
<1>2. T \in SUBSET Nodes(x) /\ i \in T
    OBVIOUS
<1> QED
    BY <1>1, <1>2 DEF On

\* found passes the nodes V of the chain up to the first of S.
LEMMA FoundFacts ==
    ASSUME NEW x \in Tables, Ranked(x), NEW i \in Nodes(x), NEW S \in SUBSET Nodes(x)
    PROVE  \E V \in SUBSET Nodes(x) :
             /\ i \in V
             /\ \A j \in V : On(x, i, j)
             /\ \A j \in V \ S : x.node[j].next \in V \cup {NULL}
             /\ V \cap S = {found(x, i, S)} \ {NULL}
<1> DEFINE N == sizenode(x)
           X == {NULL} \cup Nodes(x)
           Step(p) == IF p = NULL \/ p \in S THEN p ELSE x.node[p].next
           Loop(h) == h = [n \in 0..N |-> IF n = 0 THEN i ELSE Step(h[n - 1])]
           at == CHOOSE h : Loop(h)
           Over == S \cup {NULL}
<1>0. N \in Nat \ {0} /\ Nodes(x) = 0..N - 1 /\ NULL \notin Nodes(x) /\ i \in X
    BY TableFacts, NodeFacts
<1>1. \A p \in X : Step(p) \in X
    BY NodeFacts
<1>2. Loop(at) /\ \A n \in 0..N : at[n] \in X
    <2> DEFINE F == [n \in 1..N |-> [p \in X |-> Step(p)]]
    <2>1. \A n \in 1..N, p \in X : F[n][p] \in X
        BY <1>1
    <2>2. \A n \in 1..N : \A p \in X : F[n][p] = Step(p)
        OBVIOUS
    <2> HIDE DEF F, X, Step, N
    <2>3. PICK h : IsLoop(h, N, i, F) /\ \A n \in 0..N : h[n] \in X
        BY <1>0, <2>1, Iterate
    <2>4. \A n \in 0..N : (IF n = 0 THEN i ELSE F[n][h[n - 1]]) = IF n = 0 THEN i ELSE Step(h[n - 1])
        <3>1. \A n \in 0..N : n # 0 => n \in 1..N /\ n - 1 \in 0..N
            BY <1>0
        <3> QED
            BY <3>1, <2>2, <2>3
    <2>5. Loop(h)
        BY <2>3, <2>4 DEF IsLoop
    <2>6. Loop(at)
        BY <2>5
    <2> HIDE DEF at
    <2>7. at[0] = i /\ \A n \in 1..N : at[n] = Step(at[n - 1])
        BY <2>6, <1>0
    <2> DEFINE Good == {n \in 0..N : at[n] \in X}
    <2>8. 0 \in Good /\ \A n \in 1..N : n - 1 \in Good => n \in Good
        BY <2>7, <1>0, <1>1
    <2>9. \A n \in 0..N : n \in Good
        <3> HIDE DEF Good
        <3> QED BY <2>8, <1>0, UpTo
    <2> QED
        BY <2>6, <2>9
<1>3. found(x, i, S) = at[N]
    BY DEF found
<1> HIDE DEF at
<1>4. at[0] = i /\ \A n \in 1..N : at[n] = Step(at[n - 1])
    BY <1>2, <1>0
<1> DEFINE f == at[N]
           V == {at[n] : n \in 0..N} \ {NULL}
<1>5. \A n \in 0..N : at[n] \in X
    BY <1>2
<1>6. ASSUME NEW n \in 0..N, at[n] \in Over
      PROVE  f = at[n]
    <2> DEFINE Good == {m \in 0..N : m >= n => at[m] = at[n]}
    <2>1. 0 \in Good
        BY <1>0
    <2>2. ASSUME NEW m \in 1..N, m - 1 \in Good
          PROVE  m \in Good
        <3>1. CASE m > n
            <4>1. at[m - 1] = at[n]
                BY <3>1, <2>2, <1>0
            <4>2. at[m] = at[m - 1]
                BY <4>1, <1>6, <1>4
            <4> QED
                BY <4>1, <4>2
        <3>2. CASE ~(m > n)
            BY <3>2, <1>0
        <3> QED
            BY <3>1, <3>2
    <2>3. \A m \in 0..N : m \in Good
        <3> HIDE DEF Good
        <3> QED BY <2>1, <2>2, <1>0, UpTo
    <2> QED
        BY <2>3, <1>0
<1>7. f \in Over
    <2> SUFFICES ASSUME f \notin Over PROVE FALSE
        OBVIOUS
    <2>1. \A n \in 0..N : at[n] \notin Over
        BY <1>6
    <2>2. PICK r : IsRank(x, r)
        BY DEF Ranked
    <2>3. \A n \in 0..N : at[n] \in Nodes(x) /\ r[at[n]] \in Nat
        BY <2>1, <2>2, <1>5 DEF IsRank
    <2>4. \A n \in 1..N : r[at[n]] < r[at[n - 1]]
        <3> SUFFICES ASSUME NEW n \in 1..N PROVE r[at[n]] < r[at[n - 1]]
            OBVIOUS
        <3>1. n - 1 \in 0..N
            BY <1>0
        <3>2. at[n] = x.node[at[n - 1]].next
            BY <3>1, <1>4, <2>1
        <3> QED
            BY <3>1, <3>2, <2>1, <2>2, <2>3 DEF IsRank
    <2> DEFINE Good == {n \in 0..N : \A m \in 0..n - 1 : r[at[n]] < r[at[m]]}
    <2>5. 0 \in Good
        BY <1>0
    <2>6. ASSUME NEW n \in 1..N, n - 1 \in Good
          PROVE  n \in Good
        <3> SUFFICES ASSUME NEW m \in 0..n - 1 PROVE r[at[n]] < r[at[m]]
            BY <1>0
        <3>1. r[at[n]] < r[at[n - 1]] /\ r[at[n]] \in Nat /\ r[at[n - 1]] \in Nat /\ r[at[m]] \in Nat
            BY <2>3, <2>4, <1>0
        <3>2. m = n - 1 \/ r[at[n - 1]] < r[at[m]]
            BY <2>6, <1>0
        <3> QED
            BY <3>1, <3>2
    <2>7. \A n \in 0..N : n \in Good
        <3> HIDE DEF Good
        <3> QED BY <2>5, <2>6, <1>0, UpTo
    <2>8. \A a, b \in 0..N : a # b => at[a] # at[b]
        <3> SUFFICES ASSUME NEW a \in 0..N, NEW b \in 0..N, a < b
                     PROVE  at[a] # at[b]
            BY <1>0
        <3>1. r[at[b]] < r[at[a]]
            BY <2>7, <1>0
        <3> QED
            BY <3>1, <2>3
    <2>9. at \in [0..N -> 0..N - 1]
        BY <1>2, <1>0, <2>3
    <2>10. /\ IsFiniteSet(0..N) /\ Cardinality(0..N) = N + 1
           /\ IsFiniteSet(0..N - 1) /\ Cardinality(0..N - 1) = N
        BY <1>0, FS_Interval
    <2>11. Cardinality(0..N - 1) < Cardinality(0..N)
        BY <2>10, <1>0
    <2>12. \E a, b \in 0..N : a # b /\ at[a] = at[b]
        <3> DEFINE A == 0..N
                   B == 0..N - 1
        <3>1. IsFiniteSet(A) /\ IsFiniteSet(B) /\ Cardinality(B) < Cardinality(A) /\ at \in [A -> B]
            BY <2>9, <2>10, <2>11
        <3> HIDE DEF A, B
        <3>2. \E a, b \in A : a # b /\ at[a] = at[b]
            BY <3>1, FS_PigeonHole
        <3> QED
            BY <3>2 DEF A, B
    <2> QED
        BY <2>8, <2>12
<1>8. V \in SUBSET Nodes(x) /\ i \in V
    BY <1>5, <1>4, <1>0
<1>9. \A j \in V : On(x, i, j)
    <2> DEFINE Good == {n \in 0..N : at[n] # NULL => On(x, i, at[n])}
    <2>1. 0 \in Good
        BY <1>4, <1>0, OnFacts
    <2>2. ASSUME NEW n \in 1..N, n - 1 \in Good
          PROVE  n \in Good
        <3>1. n - 1 \in 0..N /\ at[n - 1] \in X
            BY <1>5, <1>0
        <3>2. at[n] = at[n - 1] \/ (at[n - 1] \in Nodes(x) /\ at[n - 1] # NULL /\ at[n] = x.node[at[n - 1]].next)
            BY <3>1, <1>4
        <3> QED
            BY <3>1, <3>2, <2>2, OnFacts
    <2>3. \A n \in 0..N : n \in Good
        <3> HIDE DEF Good
        <3> QED BY <2>1, <2>2, <1>0, UpTo
    <2> QED
        BY <2>3
<1>10. \A j \in V \ S : x.node[j].next \in V \cup {NULL}
    <2> SUFFICES ASSUME NEW n \in 0..N, at[n] # NULL, at[n] \notin S
                 PROVE  x.node[at[n]].next \in V \cup {NULL}
        OBVIOUS
    <2>1. n # N
        BY <1>7
    <2>2. n + 1 \in 1..N /\ (n + 1) - 1 = n
        BY <2>1, <1>0
    <2>3. at[n + 1] = x.node[at[n]].next
        BY <2>2, <1>4
    <2> QED
        BY <2>2, <2>3
<1>11. V \cap S = {f} \ {NULL}
    <2>1. V \cap S \subseteq {f} \ {NULL}
        BY <1>6
    <2>2. f # NULL => f \in V \cap S
        BY <1>7, <1>0
    <2> QED
        BY <2>1, <2>2
<1> QED
    BY <1>3, <1>8, <1>9, <1>10, <1>11

\* found returns the first node of S in the chain, in the order of any rank.
LEMMA FoundFirst ==
    ASSUME NEW x \in Tables, NEW i \in Nodes(x), NEW S \in SUBSET Nodes(x), NEW r, IsRank(x, r)
    PROVE  LET f == found(x, i, S)
           IN  /\ f = NULL => \A j \in S : ~On(x, i, j)
               /\ f # NULL => /\ f \in S /\ On(x, i, f)
                              /\ \A j \in S : On(x, i, j) => j = f \/ r[j] < r[f]
<1> DEFINE f == found(x, i, S)
<1>1. Ranked(x)
    BY DEF Ranked
<1>2. PICK V \in SUBSET Nodes(x) :
        /\ i \in V
        /\ \A j \in V : On(x, i, j)
        /\ \A j \in V \ S : x.node[j].next \in V \cup {NULL}
        /\ V \cap S = {f} \ {NULL}
    BY <1>1, FoundFacts
<1> HIDE DEF f
<1>3. NULL \notin Nodes(x)
    BY NodeFacts
<1>4. CASE f = NULL
    <2>1. V \cap S = {} /\ Closed(x, V)
        BY <1>2, <1>4 DEF Closed
    <2>2. \A j \in S : ~On(x, i, j)
        BY <1>2, <2>1 DEF On
    <2> QED
        BY <1>4, <2>2 DEF f
<1>5. CASE f # NULL
    <2>1. f \in S /\ f \in V /\ On(x, i, f) /\ f \in Nodes(x)
        BY <1>2, <1>5
    <2> DEFINE T == V \cup {a \in Nodes(x) : r[a] < r[f]}
    <2>2. Closed(x, T)
        <3> SUFFICES ASSUME NEW a \in T, x.node[a].next # NULL
                     PROVE  x.node[a].next \in T
            BY DEF Closed
        <3>1. CASE a \in V \ S
            BY <3>1, <1>2
        <3>2. CASE a \notin V \ S
            <4>1. a = f \/ r[a] < r[f]
                BY <3>2, <1>2
            <4>2. x.node[a].next \in Nodes(x)
                BY NodeFacts
            <4>3. /\ r[x.node[a].next] < r[a] /\ r[a] \in Nat
                  /\ r[x.node[a].next] \in Nat /\ r[f] \in Nat
                BY <4>2, <2>1 DEF IsRank
            <4> QED
                BY <4>1, <4>2, <4>3
        <3> QED
            BY <3>1, <3>2
    <2>3. \A j \in S : On(x, i, j) => j \in T
        BY <2>2, <1>2 DEF On
    <2>4. \A j \in S : On(x, i, j) => j = f \/ r[j] < r[f]
        BY <2>3, <1>2
    <2> QED
        BY <1>5, <2>1, <2>4 DEF f
<1> QED
    BY <1>4, <1>5

-----------------------------------------------------------------------------
(* Lookup *)

\* the values in the nodes, and the keys that nodes were given
Pairs(x) == {<<x.node[i].key, x.node[i].val>> : i \in {j \in Nodes(x) : x.node[j].val # nil}}
Names(x) == {x.node[i].key : i \in Filled(x)}

\* Main positions depend on the number of nodes alone.
LEMMA SameHome ==
    ASSUME NEW x, NEW y, Nodes(x) = Nodes(y)
    PROVE  sizenode(x) = sizenode(y) /\ \A k : mainposition(x, k) = mainposition(y, k)
<1>1. sizenode(x) = sizenode(y)
    BY DEF sizenode, Nodes
<1> QED
    BY <1>1 DEF mainposition

\* The place of a key depends on the array alone when it is there.
LEMMA SameArray ==
    ASSUME NEW x, NEW y, x.array = y.array
    PROVE  sizearray(x) = sizearray(y) /\ \A k : inarray(x, k) = inarray(y, k)
BY DEF sizearray, inarray

\* getnode finds the node of a key.
LEMMA GetnodeFacts ==
    ASSUME NEW x, x \in Tables, Homed(x), Ranked(x), NEW k \in Hashable
    PROVE  /\ getnode(x, k) = NULL => \A j \in Nodes(x) : x.node[j].key # k
           /\ getnode(x, k) # NULL => getnode(x, k) \in Nodes(x) /\ x.node[getnode(x, k)].key = k
           /\ mainposition(x, k) \in Nodes(x)
<1> DEFINE S == {j \in Nodes(x) : x.node[j].key = k}
           i == mainposition(x, k)
<1>1. i \in Nodes(x)
    BY HomeInNodes, TableFacts
<1>2. getnode(x, k) = found(x, i, S)
    BY DEF getnode, Nodes
<1>3. PICK r : IsRank(x, r)
    BY DEF Ranked
<1>4. \A j \in S : On(x, i, j)
    <2> SUFFICES ASSUME NEW j \in S PROVE On(x, i, j)
        OBVIOUS
    <2>1. k # nil /\ k[1] # "dead"
        <3>1. CASE k \in Keys
            BY <3>1, KeyFacts
        <3>2. CASE k \notin Keys
            BY <3>2 DEF Hashable, int, nil
        <3> QED
            BY <3>1, <3>2
    <2>2. j \in Filled(x) /\ Home(x, j) = i
        BY <2>1 DEF Filled, Home, Orig
    <2> QED
        BY <2>2 DEF Homed
<1>5. S \in SUBSET Nodes(x)
    OBVIOUS
<1> HIDE DEF S, i
<1>6. /\ found(x, i, S) = NULL => \A j \in S : ~On(x, i, j)
      /\ found(x, i, S) # NULL => found(x, i, S) \in S
    BY <1>1, <1>3, <1>5, FoundFirst
<1>7. /\ getnode(x, k) = NULL => \A j \in S : FALSE
      /\ getnode(x, k) # NULL => getnode(x, k) \in S
    BY <1>2, <1>4, <1>6
<1> QED
    BY <1>7, <1>1 DEF S, i

\* What a key has is in the array or among the pairs.
LEMMA GetFacts ==
    ASSUME NEW x, Sound(x), NEW k \in Hashable
    PROVE  /\ luaH_get(x, k) \in Values \cup {nil}
           /\ inarray(x, k) => luaH_get(x, k) = x.array[k[2]]
           /\ ~inarray(x, k) => \A v : v # nil => (luaH_get(x, k) = v <=> <<k, v>> \in Pairs(x))
           /\ luaH_get(x, k) # nil => k \in Keys /\ has(x, k)
<1> DEFINE p == getnode(x, k)
<1>1. /\ x \in Tables
      /\ p = NULL => \A j \in Nodes(x) : x.node[j].key # k
      /\ p # NULL => p \in Nodes(x) /\ x.node[p].key = k
    BY GetnodeFacts DEF Sound
<1>2. luaH_get(x, k) = IF inarray(x, k) THEN x.array[k[2]] ELSE IF p = NULL THEN nil ELSE x.node[p].val
    BY DEF luaH_get
<1>3. has(x, k) = (inarray(x, k) \/ p # NULL)
    BY DEF has
<1> HIDE DEF p
<1>4. CASE inarray(x, k)
    <2>1. k[2] \in 1..sizearray(x) /\ isint(k)
        BY <1>4 DEF inarray
    <2>2. x.array[k[2]] \in Values \cup {nil}
        BY <2>1, <1>1, TableFacts
    <2>3. x.array[k[2]] # nil => k \in Keys
        <3> SUFFICES ASSUME x.array[k[2]] # nil, k \notin Keys PROVE FALSE
            OBVIOUS
        <3>1. PICK n \in Nat \ {0} : k = int(n)
            BY DEF Hashable
        <3>2. k[2] = n
            BY <3>1 DEF int
        <3>3. n <= MaxKey
            BY <2>1, <3>2 DEF Sound, Single
        <3> QED
            BY <3>1, <3>3, KeysAssumption DEF int
    <2> QED
        BY <1>2, <1>3, <1>4, <2>2, <2>3
<1>5. CASE ~inarray(x, k)
    <2>1. CASE p = NULL
        <3>1. \A v : <<k, v>> \notin Pairs(x)
            BY <1>1, <2>1 DEF Pairs
        <3> QED
            BY <1>2, <1>5, <2>1, <3>1
    <2>2. CASE p # NULL
        <3>1. p \in Nodes(x) /\ x.node[p].key = k
            BY <1>1, <2>2
        <3>2. k \in Keys
            <4>1. k \in Slots
                BY <3>1, <1>1, NodeFacts
            <4>2. (k # nil /\ k[1] # "dead") \/ k \in Keys
                BY DEF Hashable, int, nil
            <4> QED
                BY <4>1, <4>2, KeyFacts DEF Slots
        <3>3. p \in Filled(x)
            BY <3>1, <3>2, KeyFacts DEF Filled
        <3>4. \A v : v # nil => (x.node[p].val = v <=> <<k, v>> \in Pairs(x))
            <4> SUFFICES ASSUME NEW v, v # nil PROVE x.node[p].val = v <=> <<k, v>> \in Pairs(x)
                OBVIOUS
            <4>1. x.node[p].val = v => <<k, v>> \in Pairs(x)
                BY <3>1 DEF Pairs
            <4>2. ASSUME <<k, v>> \in Pairs(x)
                  PROVE  x.node[p].val = v
                <5>1. PICK j \in Nodes(x) : x.node[j].key = k /\ x.node[j].val = v
                    BY <4>2 DEF Pairs
                <5>2. j \in Filled(x)
                    BY <5>1, <3>2, KeyFacts DEF Filled
                <5>3. j = p
                    BY <5>1, <5>2, <3>1, <3>2, <3>3 DEF Sound, Single
                <5> QED
                    BY <5>1, <5>3
            <4> QED
                BY <4>1, <4>2
        <3>5. x.node[p].val \in Values \cup {nil}
            BY <3>1, <1>1, NodeFacts
        <3> QED
            BY <1>2, <1>3, <1>5, <2>2, <3>2, <3>4, <3>5
    <2> QED
        BY <2>1, <2>2
<1> QED
    BY <1>4, <1>5

\* Tables of the same arrays and pairs give the same.
LEMMA SameGet ==
    ASSUME NEW x, NEW y, Sound(x), Sound(y), x.array = y.array, Pairs(x) = Pairs(y)
    PROVE  \A k \in Hashable : luaH_get(y, k) = luaH_get(x, k)
<1> SUFFICES ASSUME NEW k \in Hashable PROVE luaH_get(y, k) = luaH_get(x, k)
    OBVIOUS
<1>1. inarray(x, k) = inarray(y, k)
    BY SameArray
<1>2. CASE inarray(x, k)
    BY <1>1, <1>2, GetFacts
<1>3. CASE ~inarray(x, k)
    <2>1. \A v : v # nil => (luaH_get(x, k) = v <=> luaH_get(y, k) = v)
        BY <1>1, <1>3, GetFacts
    <2> QED
        BY <2>1
<1> QED
    BY <1>2, <1>3

\* getfreepos finds the last node that was never used.
LEMMA GetfreeposFacts ==
    ASSUME NEW x \in Tables, Freed(x), Linked(x)
    PROVE  /\ getfreepos(x) = NULL => x.dummy \/ Nodes(x) \subseteq Filled(x)
           /\ getfreepos(x) # NULL =>
                /\ ~x.dummy /\ getfreepos(x) \in Nodes(x) \ Filled(x)
                /\ x.node[getfreepos(x)] = FreeNode
                /\ \A i \in Nodes(x) : i > getfreepos(x) => i \in Filled(x)
<1> DEFINE b == x.lastfree
           free == {i \in 0..b - 1 : x.node[i].key = nil}
<1>0. b \in Nat /\ sizenode(x) \in Nat /\ Nodes(x) = 0..sizenode(x) - 1 /\ NULL \notin Nodes(x)
    BY TableFacts, NodeFacts DEF Tables
<1>1. CASE x.dummy
    <2>1. getfreepos(x) = NULL
        BY <1>1 DEF Freed, getfreepos
    <2> QED
        BY <1>1, <2>1
<1>2. CASE ~x.dummy
    <2>1. b <= sizenode(x) /\ \A i \in Nodes(x) : i >= b => i \in Filled(x)
        BY <1>2 DEF Freed
    <2>2. free \subseteq Nodes(x) \ Filled(x)
        BY <2>1, <1>0 DEF Filled
    <2>3. CASE free = {}
        <3>1. Nodes(x) \subseteq Filled(x)
            BY <2>3, <2>1, <1>0 DEF Filled
        <3>2. getfreepos(x) = NULL
            BY <2>3 DEF getfreepos
        <3> QED
            BY <3>1, <3>2
    <2>4. CASE free # {}
        <3> DEFINE T == {b - i : i \in free}
        <3>1. T \in SUBSET Nat /\ T # {}
            BY <2>4, <1>0
        <3>2. \E m \in T : \A k \in T : m <= k
            <4> HIDE DEF T
            <4> QED BY <3>1, NatLess
        <3>3. \E i \in free : \A j \in free : j <= i
            <4>1. PICK m \in T : \A k \in T : m <= k
                BY <3>2
            <4>2. PICK i \in free : m = b - i
                BY <4>1
            <4>3. ASSUME NEW j \in free
                  PROVE  j <= i
                <5>1. b - j \in T
                    OBVIOUS
                <5>2. m <= b - j
                    BY <4>1, <5>1
                <5> QED
                    BY <4>2, <5>2, <1>0
            <4> HIDE DEF free, T
            <4> QED
                BY <4>3
        <3>4. getfreepos(x) \in free /\ \A j \in free : j <= getfreepos(x)
            BY <2>4, <3>3 DEF getfreepos
        <3>5. \A i \in Nodes(x) : i > getfreepos(x) => i \in Filled(x)
            BY <3>4, <2>1, <1>0 DEF Filled
        <3>6. x.node[getfreepos(x)] = FreeNode
            BY <3>4, <2>2 DEF Linked
        <3> QED
            BY <1>2, <3>4, <3>5, <3>6, <2>2, <1>0
    <2> QED
        BY <2>3, <2>4
<1> QED
    BY <1>1, <1>2

-----------------------------------------------------------------------------
(* Inserting a key where there is room *)

\* y is x with a place for k
Inserted(x, k, y) ==
  /\ Sound(y) /\ has(y, k)
  /\ y.array = x.array /\ Nodes(y) = Nodes(x) /\ y.dummy = x.dummy
  /\ Pairs(y) = Pairs(x) /\ Names(y) \subseteq Names(x) \cup {k}

\* A key that has a node has a place.
LEMMA HasNode ==
    ASSUME NEW x, Sound(x), NEW k \in Keys, NEW j \in Nodes(x), x.node[j].key = k
    PROVE  has(x, k)
<1>1. k \in Hashable
    BY DEF Hashable
<1> QED
    BY <1>1, GetnodeFacts DEF Sound, has

NodeType(x) == [key : Slots, val : Values \cup {nil}, next : {NULL} \cup Nodes(x)]

With(x, nd, l, b) == [array |-> x.array, node |-> nd, dummy |-> x.dummy, lastfree |-> l, ok |-> b]

\* The fields of a table have their types.
LEMMA FieldFacts ==
    ASSUME NEW x \in Tables
    PROVE  /\ x.node \in [Nodes(x) -> NodeType(x)] /\ x.lastfree \in Nat /\ x.ok \in BOOLEAN
           /\ x.dummy \in BOOLEAN /\ x.array \in Seq(Values \cup {nil})
           /\ x = With(x, x.node, x.lastfree, x.ok)
           /\ DOMAIN x.node = Nodes(x)
<1>1. Nodevector(sizenode(x)) = [Nodes(x) -> NodeType(x)] /\ x.node \in Nodevector(sizenode(x))
    BY TableFacts DEF NodeType, Nodevector
<1> QED
    BY <1>1 DEF Tables, With, Nodes

\* A table stays one with other nodes of the same number.
LEMMA Reshaped ==
    ASSUME NEW x, NEW y, x \in Tables, y = With(y, y.node, y.lastfree, y.ok),
           y.array = x.array, y.dummy = x.dummy,
           y.node \in [Nodes(x) -> NodeType(x)], y.lastfree \in Nat, y.ok \in BOOLEAN
    PROVE  y \in Tables /\ Nodes(y) = Nodes(x)
<1>1. Nodevector(sizenode(x)) = [Nodes(x) -> NodeType(x)] /\ sizenode(x) \in Nat \ {0}
    BY TableFacts DEF NodeType, Nodevector
<1>2. y.node \in UNION {Nodevector(n) : n \in Nat \ {0}}
    BY <1>1
<1>3. DOMAIN y.node = Nodes(x)
    OBVIOUS
<1>4. y \in Tables
    BY <1>2, FieldFacts DEF Tables, With
<1> QED
    BY <1>3, <1>4 DEF Nodes

\* A new key takes the place of a field of value nil in its main position.
LEMMA InsertFree ==
    ASSUME NEW x, Sound(x), NEW k \in Keys, ~inarray(x, k), ~x.dummy,
           \A j \in Nodes(x) : x.node[j].key # k,
           NEW mp \in Nodes(x), mp = mainposition(x, k), x.node[mp].val = nil
    PROVE  Inserted(x, k, [x EXCEPT !.node[mp].key = k])
<1> DEFINE y == [x EXCEPT !.node[mp].key = k]
<1>1. /\ x \in Tables /\ Homed(x) /\ Linked(x) /\ Ranked(x) /\ Single(x) /\ Freed(x) /\ x.ok
    BY DEF Sound
<1> DEFINE nd == [x.node EXCEPT ![mp] = [@ EXCEPT !.key = k]]
<1>2. /\ DOMAIN x.node = Nodes(x)
      /\ \A j \in Nodes(x) : x.node[j] = [key |-> x.node[j].key, val |-> x.node[j].val, next |-> x.node[j].next]
    BY <1>1, NodeFacts DEF Nodes
<1>2a. nd \in [Nodes(x) -> NodeType(x)]
    <2>1. x.node \in [Nodes(x) -> NodeType(x)] /\ k \in Slots
        BY <1>1, FieldFacts DEF Slots
    <2> QED
        BY <2>1 DEF NodeType
<1>3. /\ DOMAIN nd = Nodes(x)
      /\ \A j \in Nodes(x) : nd[j].next = x.node[j].next /\ nd[j].val = x.node[j].val
      /\ \A j \in Nodes(x) : j # mp => nd[j] = x.node[j]
      /\ nd[mp].key = k
    BY <1>2
<1>3a. y = With(x, nd, x.lastfree, x.ok)
    <2>1. y = [x EXCEPT !.node = nd]
        OBVIOUS
    <2>2. x = With(x, x.node, x.lastfree, x.ok)
        BY <1>1, FieldFacts
    <2> HIDE DEF nd, y
    <2> QED
        BY <2>1, <2>2 DEF With
<1> HIDE DEF nd, y
<1>4. /\ y \in Tables /\ y.array = x.array /\ y.dummy = x.dummy
      /\ y.node = nd /\ y.lastfree = x.lastfree /\ y.ok = x.ok /\ Nodes(y) = Nodes(x)
    <2>1. x.lastfree \in Nat /\ x.ok \in BOOLEAN
        BY <1>1, FieldFacts
    <2>2. /\ y.array = x.array /\ y.dummy = x.dummy /\ y.node = nd /\ y.lastfree = x.lastfree /\ y.ok = x.ok
          /\ y = With(y, y.node, y.lastfree, y.ok)
        BY <1>3a DEF With
    <2> QED
        BY <2>1, <2>2, <1>1, <1>2a, Reshaped
<1>5. k # nil /\ k[1] # "dead" /\ Orig(k) = k
    BY KeyFacts
<1>6. Filled(y) = Filled(x) \cup {mp}
    BY <1>3, <1>4, <1>5 DEF Filled
<1>7. \A i, j : On(x, i, j) <=> On(y, i, j)
    BY <1>3, <1>4 DEF On, Closed
<1>8. \A l : mainposition(y, l) = mainposition(x, l)
    BY <1>3, <1>4, SameHome
<1>9. Home(y, mp) = mp /\ \A j \in Nodes(x) \ {mp} : Home(y, j) = Home(x, j)
    BY <1>3, <1>4, <1>5, <1>8 DEF Home
<1>10. Homed(y)
    <2> SUFFICES ASSUME NEW j \in Filled(y)
                 PROVE  /\ Home(y, j) \in Filled(y) /\ Home(y, Home(y, j)) = Home(y, j)
                        /\ On(y, Home(y, j), j)
        BY DEF Homed
    <2>1. CASE j = mp
        BY <2>1, <1>3, <1>4, <1>6, <1>9, OnFacts
    <2>2. CASE j # mp
        <3>1. j \in Filled(x) /\ j \in Nodes(x)
            BY <2>2, <1>6 DEF Filled
        <3>2. Home(x, j) \in Filled(x) /\ Home(x, Home(x, j)) = Home(x, j) /\ On(x, Home(x, j), j)
            BY <3>1, <1>1 DEF Homed
        <3>3. Home(x, j) \in Nodes(x)
            BY <3>2 DEF Filled
        <3> QED
            BY <2>2, <3>1, <3>2, <3>3, <1>6, <1>7, <1>9
    <2> QED
        BY <2>1, <2>2
<1>11. Linked(y)
    <2>1. \A i \in Nodes(y) : y.node[i].key = nil => y.node[i] = FreeNode
        BY <1>1, <1>3, <1>4, <1>5 DEF Linked
    <2>2. \A i \in Nodes(y) : y.node[i].key[1] = "dead" => y.node[i].val = nil
        BY <1>1, <1>3, <1>4, <1>5 DEF Linked
    <2>3. /\ \A i, j \in Nodes(y) : y.node[i].next = y.node[j].next /\ y.node[i].next # NULL => i = j
          /\ \A i \in Nodes(y) : y.node[i].next # NULL => y.node[i].next \in Filled(y)
        BY <1>1, <1>3, <1>4, <1>6 DEF Linked
    <2> QED
        BY <2>1, <2>2, <2>3 DEF Linked
<1>12. Ranked(y)
    <2>1. PICK r : IsRank(x, r)
        BY <1>1 DEF Ranked
    <2>2. ASSUME NEW i \in Nodes(y), NEW j \in Nodes(y), y.node[j].key = <<"dead", y.node[i].key>>
          PROVE  r[j] < r[i]
        <3>1. j # mp
            BY <2>2, <1>3, <1>4, <1>5
        <3>2. CASE i = mp
            <4>1. x.node[j].key = <<"dead", k>>
                BY <2>2, <3>1, <3>2, <1>3, <1>4
            <4>2. j \in Filled(x) /\ Home(x, j) = mp
                BY <4>1, <1>3, <1>4, KeyFacts DEF Filled, Home
            <4>3. On(x, mp, j)
                BY <4>2, <1>1 DEF Homed
            <4> QED
                BY <4>3, <3>1, <3>2, <2>1, <1>1, OnRank
        <3>3. CASE i # mp
            BY <2>2, <3>1, <3>3, <2>1, <1>3, <1>4 DEF IsRank
        <3> QED
            BY <3>2, <3>3
    <2>3. IsRank(y, r)
        BY <2>1, <2>2, <1>3, <1>4 DEF IsRank
    <2> QED
        BY <2>3 DEF Ranked
<1>13. Single(y)
    <2>1. \A l : inarray(y, l) = inarray(x, l)
        BY <1>4, SameArray
    <2>2. sizearray(y) = sizearray(x)
        BY <1>4 DEF sizearray
    <2>3. \A i, j \in Filled(y) : y.node[i].key \in Keys /\ y.node[i].key = y.node[j].key => i = j
        <3>1. \A i \in Filled(y) : i \in Nodes(x) /\ (i # mp => i \in Filled(x))
            BY <1>6 DEF Filled
        <3> QED
            BY <3>1, <1>1, <1>3, <1>4 DEF Single
    <2>4. \A i \in Filled(y) : ~inarray(y, y.node[i].key)
        <3>1. \A i \in Filled(y) : i \in Nodes(x) /\ (i # mp => i \in Filled(x))
            BY <1>6 DEF Filled
        <3> QED
            BY <3>1, <2>1, <1>1, <1>3, <1>4 DEF Single
    <2> QED
        BY <2>2, <2>3, <2>4, <1>1, <1>4 DEF Single
<1>14. Freed(y)
    <2>1. sizenode(y) = sizenode(x)
        BY <1>3, <1>4 DEF sizenode, Nodes
    <2> QED
        BY <2>1, <1>1, <1>4, <1>3, <1>4, <1>6 DEF Freed
<1>15. Sound(y)
    BY <1>1, <1>4, <1>10, <1>11, <1>12, <1>13, <1>14 DEF Sound
<1>16. Pairs(y) = Pairs(x)
    BY <1>3, <1>4 DEF Pairs
<1>17. Names(y) \subseteq Names(x) \cup {k}
    <2>1. \A i \in Filled(y) : i \in Nodes(x) /\ (i # mp => i \in Filled(x))
        BY <1>6 DEF Filled
    <2> QED
        BY <2>1, <1>3, <1>4 DEF Names
<1>18. has(y, k)
    BY <1>15, <1>3, <1>4, HasNode
<1>19. Inserted(x, k, y)
    BY <1>4, <1>3, <1>4, <1>15, <1>16, <1>17, <1>18 DEF Inserted
<1> QED
    BY <1>19 DEF y

\* A node out of its main position has one before it in its chain.
LEMMA PreviousNode ==
    ASSUME NEW x, Sound(x), NEW mp \in Nodes(x), NEW o \in Nodes(x), o # mp, On(x, o, mp)
    PROVE  LET p == found(x, o, {i \in DOMAIN x.node : x.node[i].next = mp})
           IN  p \in Nodes(x) /\ x.node[p].next = mp
<1> DEFINE S == {i \in DOMAIN x.node : x.node[i].next = mp}
           p == found(x, o, S)
<1>1. x \in Tables /\ Ranked(x) /\ S \in SUBSET Nodes(x)
    BY DEF Sound, Nodes
<1>2. PICK V \in SUBSET Nodes(x) :
        /\ o \in V
        /\ \A j \in V \ S : x.node[j].next \in V \cup {NULL}
        /\ V \cap S = {p} \ {NULL}
    <2> HIDE DEF S
    <2>1. \E V \in SUBSET Nodes(x) :
            /\ o \in V
            /\ \A j \in V : On(x, o, j)
            /\ \A j \in V \ S : x.node[j].next \in V \cup {NULL}
            /\ V \cap S = {found(x, o, S)} \ {NULL}
        BY <1>1, FoundFacts
    <2> QED
        BY <2>1
<1> HIDE DEF p
<1>3. p # NULL
    <2> SUFFICES ASSUME p = NULL PROVE FALSE
        OBVIOUS
    <2>1. V \cap S = {}
        BY <1>2
    <2>2. \A j \in V : x.node[j].next # mp
        BY <2>1 DEF Nodes
    <2> DEFINE T == V \ {mp}
    <2>3. Closed(x, T)
        BY <1>2, <2>1, <2>2 DEF Closed
    <2>4. o \in T /\ T \in SUBSET Nodes(x)
        BY <1>2
    <2> QED
        BY <2>3, <2>4 DEF On
<1>4. p \in V \cap S
    BY <1>2, <1>3
<1>5. p \in Nodes(x) /\ x.node[p].next = mp
    BY <1>4 DEF Nodes
<1> QED
    BY <1>5 DEF p

\* What the move does to the nodes.
Moved(x, k, mp, n, p, y) ==
  /\ y \in Tables /\ y.array = x.array /\ y.dummy = x.dummy /\ Nodes(y) = Nodes(x)
  /\ y.lastfree = n /\ y.ok
  /\ y.node[p].next = n /\ y.node[p].key = x.node[p].key /\ y.node[p].val = x.node[p].val
  /\ y.node[n] = x.node[mp]
  /\ y.node[mp] = [key |-> k, val |-> nil, next |-> NULL]
  /\ \A j \in Nodes(x) \ {p, n, mp} : y.node[j] = x.node[j]

\* The move makes place for the new key.
LEMMA MovedSound ==
    ASSUME NEW x, Sound(x), NEW k \in Keys, ~inarray(x, k),
           \A j \in Nodes(x) : x.node[j].key # k,
           NEW mp \in Nodes(x), mp = mainposition(x, k), x.node[mp].val # nil,
           NEW o, o = mainposition(x, x.node[mp].key), o # mp,
           NEW n, n \in Nodes(x) \ Filled(x), ~x.dummy, x.node[n] = FreeNode,
           \A i \in Nodes(x) : i > n => i \in Filled(x),
           NEW p \in Nodes(x), x.node[p].next = mp,
           NEW y, Moved(x, k, mp, n, p, y)
    PROVE  Inserted(x, k, y)
<1>1. /\ x \in Tables /\ Homed(x) /\ Linked(x) /\ Ranked(x) /\ Single(x) /\ Freed(x) /\ x.ok
    BY DEF Sound
<1>2. /\ ~x.dummy /\ n \in Nodes(x) /\ n \notin Filled(x) /\ x.node[n] = FreeNode
      /\ \A i \in Nodes(x) : i > n => i \in Filled(x)
    OBVIOUS
<1>3. /\ k # nil /\ k[1] # "dead" /\ Orig(k) = k
      /\ x.node[n].key = nil /\ x.node[n].next = NULL /\ x.node[n].val = nil
      /\ NULL \notin Nodes(x)
    <2>1. k # nil /\ k[1] # "dead" /\ Orig(k) = k
        BY KeyFacts
    <2>2. NULL \notin Nodes(x)
        BY <1>1, NodeFacts
    <2>3. x.node[n].key = nil /\ x.node[n].next = NULL /\ x.node[n].val = nil
        BY DEF FreeNode
    <2> QED
        BY <2>1, <2>2, <2>3
<1>4. /\ mp \in Filled(x) /\ x.node[mp].key \in Keys /\ Orig(x.node[mp].key) = x.node[mp].key
      /\ x.node[mp].key[1] # "dead" /\ o = Home(x, mp) /\ o \in Nodes(x)
    <2>1. x.node[mp].key # nil /\ x.node[mp].key[1] # "dead"
        BY <1>1 DEF Linked, FreeNode
    <2>2. mp \in Filled(x)
        BY <2>1 DEF Filled
    <2>3. x.node[mp].key \in Keys /\ Orig(x.node[mp].key) = x.node[mp].key /\ Home(x, mp) \in Nodes(x)
        BY <2>1, <2>2, <1>1, OrigFacts
    <2> QED
        BY <2>1, <2>2, <2>3 DEF Home
<1>5. o \in Filled(x) /\ Home(x, o) = o /\ On(x, o, mp)
    BY <1>1, <1>4 DEF Homed
<1>6. n # mp /\ n # o
    BY <1>2, <1>4, <1>5
<1>7. p \in Nodes(x) /\ x.node[p].next = mp
    OBVIOUS
<1>8. p # n /\ p # mp
    <2>1. p # n
        BY <1>3, <1>7
    <2>2. PICK r : IsRank(x, r)
        BY <1>1 DEF Ranked
    <2>3. r[x.node[p].next] < r[p] /\ r[p] \in Nat /\ r[mp] \in Nat
        BY <2>2, <1>3, <1>7 DEF IsRank
    <2>4. p # mp
        BY <2>3, <1>7
    <2> QED
        BY <2>1, <2>4
<1>9. /\ y.node[p].next = n /\ y.node[p].key = x.node[p].key /\ y.node[p].val = x.node[p].val
      /\ y.node[n] = x.node[mp]
      /\ y.node[mp] = [key |-> k, val |-> nil, next |-> NULL]
      /\ \A j \in Nodes(x) \ {p, n, mp} : y.node[j] = x.node[j]
    BY DEF Moved
<1>11. /\ y \in Tables /\ y.array = x.array /\ y.dummy = x.dummy
       /\ y.lastfree = n /\ y.ok /\ Nodes(y) = Nodes(x)
    BY DEF Moved
<1> DEFINE phi(j) == IF j = mp THEN n ELSE j
<1>12. Filled(y) = Filled(x) \cup {n}
    BY <1>9, <1>11, <1>3, <1>4 DEF Filled
<1>13. ASSUME NEW a, NEW b, On(x, a, b), a # n
       PROVE  On(y, phi(a), phi(b))
    <2> SUFFICES ASSUME NEW T \in SUBSET Nodes(y), phi(a) \in T, Closed(y, T)
                 PROVE  phi(b) \in T
        BY DEF On
    <2> DEFINE U == {j \in Nodes(x) \ {n} : phi(j) \in T}
    <2>1. a \in Nodes(x)
        BY <1>11, <1>2, <1>6
    <2>2. Closed(x, U)
        <3> SUFFICES ASSUME NEW j \in U, x.node[j].next # NULL
                     PROVE  x.node[j].next \in U
            BY DEF Closed
        <3>1. x.node[j].next \in Filled(x) /\ x.node[j].next \in Nodes(x)
            BY <1>1 DEF Linked, Filled
        <3>2. x.node[j].next # n
            BY <3>1, <1>2
        <3>3. \A l \in T : y.node[l].next \in T \cup {NULL}
            BY <1>11 DEF Closed
        <3>4. CASE j = mp
            <4>1. n \in T /\ y.node[n].next = x.node[mp].next
                BY <3>4, <1>9
            <4>2. x.node[mp].next # mp
                BY <1>8, <1>7, <1>1, <1>3 DEF Linked
            <4> QED
                BY <3>1, <3>2, <3>3, <3>4, <4>1, <4>2
        <3>5. CASE j = p
            <4>1. p \in T /\ y.node[p].next = n /\ n # NULL
                BY <3>5, <1>2, <1>3, <1>8, <1>9
            <4>2. n \in T
                BY <3>3, <4>1
            <4> QED
                BY <4>2, <3>2, <3>5, <1>7
        <3>6. CASE j # mp /\ j # p
            <4>1. j \in T /\ y.node[j] = x.node[j]
                BY <3>6, <1>9
            <4>2. x.node[j].next # mp
                BY <3>6, <1>1, <1>7, <1>3 DEF Linked
            <4> QED
                BY <4>1, <4>2, <3>1, <3>2, <3>3
        <3> QED
            BY <3>4, <3>5, <3>6
    <2>3. a \in U /\ U \in SUBSET Nodes(x)
        BY <2>1, <1>13
    <2>4. b \in U
        BY <2>2, <2>3, <1>13 DEF On
    <2> QED
        BY <2>4
<1>14. \A l : mainposition(y, l) = mainposition(x, l)
    BY <1>11, SameHome
<1>15. /\ Home(y, mp) = mp /\ Home(y, n) = o
       /\ \A j \in Nodes(x) \ {mp, n} : Home(y, j) = Home(x, j)
    <2>1. y.node[mp].key = k /\ y.node[n].key = x.node[mp].key
        BY <1>9, <1>11
    <2>2. \A j \in Nodes(x) \ {mp, n} : y.node[j].key = x.node[j].key
        BY <1>9, <1>11
    <2> QED
        BY <2>1, <2>2, <1>3, <1>4, <1>14 DEF Home
<1>16. Homed(y)
    <2> SUFFICES ASSUME NEW j \in Filled(y)
                 PROVE  /\ Home(y, j) \in Filled(y) /\ Home(y, Home(y, j)) = Home(y, j)
                        /\ On(y, Home(y, j), j)
        BY DEF Homed
    <2>1. CASE j = mp
        <3>1. On(y, mp, mp)
            BY <1>11, OnFacts
        <3> QED
            BY <3>1, <2>1, <1>12, <1>15, <1>4
    <2>2. CASE j = n
        <3>1. On(y, o, n)
            BY <1>13, <1>5, <1>6
        <3> QED
            BY <3>1, <2>2, <1>4, <1>5, <1>6, <1>12, <1>15
    <2>3. CASE j # mp /\ j # n
        <3>1. j \in Filled(x) /\ j \in Nodes(x)
            BY <2>3, <1>12 DEF Filled
        <3>2. Home(x, j) \in Filled(x) /\ Home(x, Home(x, j)) = Home(x, j) /\ On(x, Home(x, j), j)
            BY <3>1, <1>1 DEF Homed
        <3>3. Home(x, j) # mp /\ Home(x, j) # n /\ Home(x, j) \in Nodes(x)
            BY <3>2, <1>2, <1>4 DEF Filled
        <3>4. On(y, Home(x, j), j)
            BY <1>13, <3>2, <3>3, <2>3
        <3> QED
            BY <2>3, <3>1, <3>2, <3>3, <3>4, <1>12, <1>15
    <2> QED
        BY <2>1, <2>2, <2>3
<1>17. Linked(y)
    <2>1. ASSUME NEW i \in Nodes(x)
          PROVE  /\ y.node[i].next = IF i = p THEN n ELSE IF i = n THEN x.node[mp].next
                                 ELSE IF i = mp THEN NULL ELSE x.node[i].next
                 /\ y.node[i].next # NULL => y.node[i].next \in Filled(y)
        <3>1. y.node[i].next = IF i = p THEN n ELSE IF i = n THEN x.node[mp].next
                           ELSE IF i = mp THEN NULL ELSE x.node[i].next
            BY <1>8, <1>6, <1>9
        <3> QED
            BY <3>1, <1>1, <1>12 DEF Linked
    <2>2. ASSUME NEW i \in Nodes(x), NEW j \in Nodes(x), y.node[i].next = y.node[j].next, y.node[i].next # NULL
          PROVE  i = j
        <3>1. \A l \in Nodes(x) : x.node[l].next # n
            BY <1>1, <1>2, <1>3 DEF Linked
        <3>2. \A l, m \in Nodes(x) : x.node[l].next = x.node[m].next /\ x.node[l].next # NULL => l = m
            BY <1>1 DEF Linked
        <3> QED
            BY <2>1, <2>2, <3>1, <3>2
    <2>3. \A i \in Nodes(x) : y.node[i].key = nil => y.node[i] = FreeNode
        <3>1. y.node[p].key # nil
            <4>1. x.node[p] # FreeNode
                BY <1>7, <1>3 DEF FreeNode
            <4> QED
                BY <4>1, <1>1, <1>7, <1>9 DEF Linked
        <3>2. y.node[n].key # nil /\ y.node[mp].key # nil
            BY <1>9, <1>3, <1>4 DEF Filled
        <3> QED
            BY <3>1, <3>2, <1>9, <1>1 DEF Linked
    <2>4. \A i \in Nodes(x) : y.node[i].key[1] = "dead" => y.node[i].val = nil
        <3>1. \A i \in Nodes(x) : x.node[i].key[1] = "dead" => x.node[i].val = nil
            BY <1>1 DEF Linked
        <3> QED
            BY <3>1, <1>9, <1>3, <1>4, <1>7
    <2> QED
        BY <2>1, <2>2, <2>3, <2>4, <1>11 DEF Linked
<1>18. Ranked(y)
    <2>1. PICK r : IsRank(x, r)
        BY <1>1 DEF Ranked
    <2> DEFINE q == [j \in Nodes(x) |-> IF j = n THEN r[mp] ELSE IF j = mp THEN 0 ELSE r[j]]
    <2>2. q \in [Nodes(x) -> Nat]
        BY <2>1 DEF IsRank
    <2>3. ASSUME NEW i \in Nodes(x), y.node[i].next # NULL
          PROVE  q[y.node[i].next] < q[i]
        <3>0. \A l \in Nodes(x) : x.node[l].next # NULL =>
                x.node[l].next \in Nodes(x) /\ r[x.node[l].next] < r[l] /\ x.node[l].next # n
            BY <2>1, <1>1, <1>2 DEF IsRank, Linked, Filled
        <3>1. CASE i = p
            BY <3>1, <3>0, <1>9, <1>7, <1>8, <1>3, <1>2
        <3>2. CASE i = n
            <4>1. y.node[i].next = x.node[mp].next
                BY <3>2, <1>9
            <4>2. x.node[mp].next # mp
                BY <1>8, <1>7, <1>1, <1>3 DEF Linked
            <4> QED
                BY <4>1, <4>2, <3>0, <3>2, <2>3, <1>2
        <3>3. CASE i = mp
            BY <3>3, <2>3, <1>9
        <3>4. CASE i # p /\ i # n /\ i # mp
            <4>1. y.node[i].next = x.node[i].next
                BY <3>4, <1>9
            <4>2. x.node[i].next # mp
                BY <3>4, <1>7, <1>1, <1>3 DEF Linked
            <4> QED
                BY <4>1, <4>2, <3>0, <3>4, <2>3
        <3> QED
            BY <3>1, <3>2, <3>3, <3>4
    <2>4. ASSUME NEW i \in Nodes(x), NEW j \in Nodes(x), y.node[j].key = <<"dead", y.node[i].key>>
          PROVE  q[j] < q[i]
        <3>0. j # n /\ j # mp /\ y.node[j].key = x.node[j].key
            <4>1. y.node[j].key[1] = "dead"
                BY <2>4
            <4> QED
                BY <4>1, <1>3, <1>4, <1>9
        <3>1. CASE i = mp
            <4>1. x.node[j].key = <<"dead", k>>
                BY <3>0, <3>1, <2>4, <1>9
            <4>2. j \in Filled(x) /\ Home(x, j) = mp
                BY <4>1, KeyFacts DEF Filled, Home
            <4>3. Home(x, mp) = mp
                BY <4>2, <1>1 DEF Homed
            <4> QED
                BY <4>3, <1>4
        <3>2. CASE i = n
            <4>1. x.node[j].key = <<"dead", x.node[mp].key>>
                BY <3>0, <3>2, <2>4, <1>9
            <4>2. r[j] < r[mp]
                BY <4>1, <2>1 DEF IsRank
            <4> QED
                BY <4>2, <3>0, <3>2
        <3>3. CASE i # mp /\ i # n
            <4>1. y.node[i].key = x.node[i].key
                BY <3>3, <1>9
            <4>2. r[j] < r[i]
                BY <4>1, <3>0, <2>4, <2>1 DEF IsRank
            <4> QED
                BY <4>2, <3>0, <3>3
        <3> QED
            BY <3>1, <3>2, <3>3
    <2> HIDE DEF q
    <2>5. IsRank(y, q)
        BY <2>2, <2>3, <2>4, <1>11 DEF IsRank
    <2> QED
        BY <2>5 DEF Ranked
<1>19. Single(y)
    <2>1. \A l : inarray(y, l) = inarray(x, l)
        BY <1>11, SameArray
    <2>2. sizearray(y) = sizearray(x)
        BY <1>11 DEF sizearray
    <2>3. ASSUME NEW i \in Filled(y)
          PROVE  /\ i \in Nodes(x)
                 /\ \/ i = mp /\ y.node[i].key = k
                    \/ i # mp /\ \E l \in Filled(x) : /\ y.node[i].key = x.node[l].key
                                                      /\ l = IF i = n THEN mp ELSE i
        <3>1. i \in Nodes(x) /\ (i = n \/ i \in Filled(x))
            BY <1>12, <1>11 DEF Filled
        <3>2. CASE i = mp
            BY <3>1, <3>2, <1>9
        <3>3. CASE i = n
            BY <3>1, <3>3, <1>9, <1>4, <1>6
        <3>4. CASE i # mp /\ i # n
            BY <3>1, <3>4, <1>9
        <3> QED
            BY <3>2, <3>3, <3>4
    <2>4. \A l, m \in Filled(x) : x.node[l].key \in Keys /\ x.node[l].key = x.node[m].key => l = m
        BY <1>1 DEF Single
    <2>5. \A l \in Filled(x) : x.node[l].key # k /\ ~inarray(x, x.node[l].key) /\ l # n
        BY <1>1, <1>2 DEF Single, Filled
    <2>6. ASSUME NEW i \in Filled(y), NEW j \in Filled(y), y.node[i].key \in Keys, y.node[i].key = y.node[j].key
          PROVE  i = j
        BY <2>3, <2>4, <2>5, <2>6
    <2>7. \A i \in Filled(y) : ~inarray(y, y.node[i].key)
        BY <2>1, <2>3, <2>5
    <2> QED
        BY <2>2, <2>6, <2>7, <1>1, <1>11 DEF Single
<1>20. Freed(y)
    <2>1. sizenode(y) = sizenode(x) /\ Nodes(x) = 0..sizenode(x) - 1 /\ sizenode(x) \in Nat
        BY <1>1, <1>11, TableFacts DEF sizenode, Nodes
    <2>2. n <= sizenode(y)
        BY <2>1, <1>2
    <2>3. \A i \in Nodes(y) : i >= n => i \in Filled(y)
        BY <2>1, <1>2, <1>11, <1>12
    <2> QED
        BY <2>2, <2>3, <1>2, <1>11 DEF Freed
<1>21. Sound(y)
    BY <1>11, <1>16, <1>17, <1>18, <1>19, <1>20 DEF Sound
<1>22. Pairs(y) = Pairs(x)
    <2>1. \A i \in Nodes(x) : y.node[i].val # nil =>
            \E l \in Nodes(x) : y.node[i].key = x.node[l].key /\ y.node[i].val = x.node[l].val
        BY <1>9
    <2>2. \A l \in Nodes(x) : x.node[l].val # nil =>
            \E i \in Nodes(x) : y.node[i].key = x.node[l].key /\ y.node[i].val = x.node[l].val
        <3> SUFFICES ASSUME NEW l \in Nodes(x), x.node[l].val # nil
                     PROVE  \E i \in Nodes(x) : y.node[i].key = x.node[l].key /\ y.node[i].val = x.node[l].val
            OBVIOUS
        <3>1. CASE l = mp
            BY <3>1, <1>2, <1>9
        <3>2. CASE l # mp
            BY <3>2, <1>3, <1>9
        <3> QED
            BY <3>1, <3>2
    <2> QED
        BY <2>1, <2>2, <1>11 DEF Pairs
<1>23. Names(y) \subseteq Names(x) \cup {k}
    <2> SUFFICES ASSUME NEW i \in Filled(y) PROVE y.node[i].key \in Names(x) \cup {k}
        BY <1>11 DEF Names
    <2>1. i \in Nodes(x) /\ (i = n \/ i \in Filled(x))
        BY <1>12, <1>11 DEF Filled
    <2> QED
        BY <2>1, <1>9, <1>4, <1>7 DEF Names
<1>24. has(y, k)
    <2>1. mp \in Nodes(y) /\ y.node[mp].key = k
        BY <1>9, <1>11
    <2> QED
        BY <2>1, <1>21, HasNode
<1> QED
    BY <1>11, <1>21, <1>22, <1>23, <1>24 DEF Inserted

\* What it does to the nodes when the main position is taken by a key of its
\* own: the new key is in the free node n, after it.
Added(x, k, mp, n, y) ==
  /\ y \in Tables /\ y.array = x.array /\ y.dummy = x.dummy /\ Nodes(y) = Nodes(x)
  /\ y.lastfree = n /\ y.ok
  /\ y.node[mp].next = n /\ y.node[mp].key = x.node[mp].key /\ y.node[mp].val = x.node[mp].val
  /\ y.node[n] = [key |-> k, val |-> nil, next |-> x.node[mp].next]
  /\ \A j \in Nodes(x) \ {n, mp} : y.node[j] = x.node[j]

\* So does the addition after the main position.
LEMMA AddedSound ==
    ASSUME NEW x, Sound(x), NEW k \in Keys, ~inarray(x, k),
           \A j \in Nodes(x) : x.node[j].key # k,
           NEW mp \in Nodes(x), mp = mainposition(x, k), x.node[mp].val # nil,
           mp = mainposition(x, x.node[mp].key),
           NEW n, n \in Nodes(x) \ Filled(x), ~x.dummy, x.node[n] = FreeNode,
           \A i \in Nodes(x) : i > n => i \in Filled(x),
           NEW y, Added(x, k, mp, n, y)
    PROVE  Inserted(x, k, y)
<1>1. /\ x \in Tables /\ Homed(x) /\ Linked(x) /\ Ranked(x) /\ Single(x) /\ Freed(x) /\ x.ok
    BY DEF Sound
<1>2. /\ ~x.dummy /\ n \in Nodes(x) /\ n \notin Filled(x) /\ x.node[n] = FreeNode
      /\ \A i \in Nodes(x) : i > n => i \in Filled(x)
    OBVIOUS
<1>3. /\ k # nil /\ k[1] # "dead" /\ Orig(k) = k
      /\ x.node[n].key = nil /\ x.node[n].next = NULL /\ x.node[n].val = nil
      /\ NULL \notin Nodes(x)
    <2>1. k # nil /\ k[1] # "dead" /\ Orig(k) = k
        BY KeyFacts
    <2>2. NULL \notin Nodes(x)
        BY <1>1, NodeFacts
    <2>3. x.node[n].key = nil /\ x.node[n].next = NULL /\ x.node[n].val = nil
        BY DEF FreeNode
    <2> QED
        BY <2>1, <2>2, <2>3
<1>4. /\ mp \in Filled(x) /\ x.node[mp].key \in Keys /\ Orig(x.node[mp].key) = x.node[mp].key
      /\ x.node[mp].key[1] # "dead" /\ mp = Home(x, mp)
    <2>1. x.node[mp].key # nil /\ x.node[mp].key[1] # "dead"
        BY <1>1 DEF Linked, FreeNode
    <2>2. mp \in Filled(x)
        BY <2>1 DEF Filled
    <2>3. x.node[mp].key \in Keys /\ Orig(x.node[mp].key) = x.node[mp].key
        BY <2>1, <2>2, <1>1, OrigFacts
    <2> QED
        BY <2>1, <2>2, <2>3 DEF Home
<1>6. n # mp
    BY <1>2, <1>4
<1>9. /\ y.node[mp].next = n /\ y.node[mp].key = x.node[mp].key /\ y.node[mp].val = x.node[mp].val
      /\ y.node[n] = [key |-> k, val |-> nil, next |-> x.node[mp].next]
      /\ \A j \in Nodes(x) \ {n, mp} : y.node[j] = x.node[j]
    BY DEF Added
<1>11. /\ y \in Tables /\ y.array = x.array /\ y.dummy = x.dummy
       /\ y.lastfree = n /\ y.ok /\ Nodes(y) = Nodes(x)
    BY DEF Added
<1>12. Filled(y) = Filled(x) \cup {n}
    BY <1>9, <1>11, <1>3, <1>4 DEF Filled
<1>13. ASSUME NEW a, NEW b, On(x, a, b), a # n
       PROVE  On(y, a, b)
    <2> SUFFICES ASSUME NEW T \in SUBSET Nodes(y), a \in T, Closed(y, T)
                 PROVE  b \in T
        BY DEF On
    <2> DEFINE U == T \ {n}
    <2>2. Closed(x, U)
        <3> SUFFICES ASSUME NEW j \in U, x.node[j].next # NULL
                     PROVE  x.node[j].next \in U
            BY DEF Closed
        <3>1. x.node[j].next \in Filled(x)
            BY <1>1, <1>11 DEF Linked
        <3>2. x.node[j].next # n
            BY <3>1, <1>2
        <3>3. \A l \in T : y.node[l].next \in T \cup {NULL}
            BY <1>11 DEF Closed
        <3>4. CASE j = mp
            <4>1. n \in T /\ y.node[n].next = x.node[mp].next
                BY <3>3, <3>4, <1>9, <1>2, <1>3
            <4> QED
                BY <3>2, <3>3, <3>4, <4>1
        <3>5. CASE j # mp
            BY <3>2, <3>3, <3>5, <1>9, <1>11
        <3> QED
            BY <3>4, <3>5
    <2>3. a \in U /\ U \in SUBSET Nodes(x)
        BY <1>11, <1>13
    <2>4. b \in U
        BY <2>2, <2>3, <1>13 DEF On
    <2> QED
        BY <2>4
<1>14. \A l : mainposition(y, l) = mainposition(x, l)
    BY <1>11, SameHome
<1>15. Home(y, n) = mp /\ \A j \in Nodes(x) \ {n} : Home(y, j) = Home(x, j)
    <2>1. y.node[n].key = k /\ \A j \in Nodes(x) \ {n} : y.node[j].key = x.node[j].key
        BY <1>9, <1>11
    <2> QED
        BY <2>1, <1>3, <1>14 DEF Home
<1>16. Homed(y)
    <2> SUFFICES ASSUME NEW j \in Filled(y)
                 PROVE  /\ Home(y, j) \in Filled(y) /\ Home(y, Home(y, j)) = Home(y, j)
                        /\ On(y, Home(y, j), j)
        BY DEF Homed
    <2>2. CASE j = n
        <3>1. On(y, mp, n)
            BY <1>9, <1>2, <1>3 DEF On, Closed
        <3> QED
            BY <3>1, <2>2, <1>4, <1>6, <1>12, <1>15
    <2>3. CASE j # n
        <3>1. j \in Filled(x) /\ j \in Nodes(x)
            BY <2>3, <1>12 DEF Filled
        <3>2. Home(x, j) \in Filled(x) /\ Home(x, Home(x, j)) = Home(x, j) /\ On(x, Home(x, j), j)
            BY <3>1, <1>1 DEF Homed
        <3>3. Home(x, j) # n /\ Home(x, j) \in Nodes(x)
            BY <3>2, <1>2 DEF Filled
        <3>4. On(y, Home(x, j), j)
            BY <1>13, <3>2, <3>3
        <3> QED
            BY <2>3, <3>1, <3>2, <3>3, <3>4, <1>12, <1>15
    <2> QED
        BY <2>2, <2>3
<1>17. Linked(y)
    <2>1. ASSUME NEW i \in Nodes(x)
          PROVE  /\ y.node[i].next = IF i = mp THEN n ELSE IF i = n THEN x.node[mp].next
                                     ELSE x.node[i].next
                 /\ y.node[i].next # NULL => y.node[i].next \in Filled(y)
        <3>1. y.node[i].next = IF i = mp THEN n ELSE IF i = n THEN x.node[mp].next
                               ELSE x.node[i].next
            BY <1>6, <1>9
        <3> QED
            BY <3>1, <1>1, <1>12 DEF Linked
    <2>2. ASSUME NEW i \in Nodes(x), NEW j \in Nodes(x), y.node[i].next = y.node[j].next, y.node[i].next # NULL
          PROVE  i = j
        <3>1. \A l \in Nodes(x) : x.node[l].next # n
            BY <1>1, <1>2, <1>3 DEF Linked
        <3>2. \A l, m \in Nodes(x) : x.node[l].next = x.node[m].next /\ x.node[l].next # NULL => l = m
            BY <1>1 DEF Linked
        <3> QED
            BY <2>1, <2>2, <3>1, <3>2
    <2>3. \A i \in Nodes(x) : y.node[i].key = nil => y.node[i] = FreeNode
        <3>2. y.node[n].key # nil /\ y.node[mp].key # nil
            BY <1>9, <1>3, <1>4 DEF Filled
        <3> QED
            BY <3>2, <1>9, <1>1 DEF Linked
    <2>4. \A i \in Nodes(x) : y.node[i].key[1] = "dead" => y.node[i].val = nil
        <3>1. \A i \in Nodes(x) : x.node[i].key[1] = "dead" => x.node[i].val = nil
            BY <1>1 DEF Linked
        <3> QED
            BY <3>1, <1>9, <1>3, <1>4
    <2> QED
        BY <2>1, <2>2, <2>3, <2>4, <1>11 DEF Linked
<1>18. Ranked(y)
    <2>1. PICK r : IsRank(x, r)
        BY <1>1 DEF Ranked
    <2> DEFINE q == [j \in Nodes(x) |-> IF j = n THEN 2 * r[mp] ELSE 2 * r[j] + 1]
    <2>2. q \in [Nodes(x) -> Nat] /\ \A j \in Nodes(x) : r[j] \in Nat
        BY <2>1 DEF IsRank
    <2>3. ASSUME NEW i \in Nodes(x), y.node[i].next # NULL
          PROVE  q[y.node[i].next] < q[i]
        <3>0. \A l \in Nodes(x) : x.node[l].next # NULL =>
                x.node[l].next \in Nodes(x) /\ r[x.node[l].next] < r[l] /\ x.node[l].next # n
            BY <2>1, <1>1, <1>2 DEF IsRank, Linked, Filled
        <3>1. CASE i = mp
            BY <3>1, <1>9, <1>2, <1>6, <2>2
        <3>2. CASE i = n
            <4>1. y.node[i].next = x.node[mp].next
                BY <3>2, <1>9
            <4> QED
                BY <4>1, <3>0, <3>2, <2>3, <2>2
        <3>4. CASE i # n /\ i # mp
            <4>1. y.node[i].next = x.node[i].next
                BY <3>4, <1>9
            <4> QED
                BY <4>1, <3>0, <3>4, <2>3, <2>2
        <3> QED
            BY <3>1, <3>2, <3>4
    <2>4. ASSUME NEW i \in Nodes(x), NEW j \in Nodes(x), y.node[j].key = <<"dead", y.node[i].key>>
          PROVE  q[j] < q[i]
        <3>0. j # n /\ y.node[j].key = x.node[j].key
            <4>1. y.node[j].key[1] = "dead"
                BY <2>4
            <4> QED
                BY <4>1, <1>3, <1>9
        <3>1. CASE i = n
            <4>1. x.node[j].key = <<"dead", k>>
                BY <3>0, <3>1, <2>4, <1>9
            <4>2. j \in Filled(x) /\ Home(x, j) = mp
                BY <4>1, KeyFacts DEF Filled, Home
            <4>3. On(x, mp, j)
                BY <4>2, <1>1 DEF Homed
            <4>4. j # mp
                BY <4>1, <1>4
            <4>5. r[j] < r[mp]
                BY <4>3, <4>4, <2>1, <1>1, OnRank
            <4> QED
                BY <4>5, <3>0, <3>1, <2>2
        <3>3. CASE i # n
            <4>1. y.node[i].key = x.node[i].key
                BY <3>3, <1>9
            <4>2. r[j] < r[i]
                BY <4>1, <3>0, <2>4, <2>1 DEF IsRank
            <4> QED
                BY <4>2, <3>0, <3>3, <2>2
        <3> QED
            BY <3>1, <3>3
    <2> HIDE DEF q
    <2>5. IsRank(y, q)
        BY <2>2, <2>3, <2>4, <1>11 DEF IsRank
    <2> QED
        BY <2>5 DEF Ranked
<1>19. Single(y)
    <2>1. \A l : inarray(y, l) = inarray(x, l)
        BY <1>11, SameArray
    <2>2. sizearray(y) = sizearray(x)
        BY <1>11 DEF sizearray
    <2>3. ASSUME NEW i \in Filled(y)
          PROVE  /\ i \in Nodes(x)
                 /\ \/ i = n /\ y.node[i].key = k
                    \/ i # n /\ i \in Filled(x) /\ y.node[i].key = x.node[i].key
        BY <1>9, <1>11, <1>12 DEF Filled
    <2>4. \A l, m \in Filled(x) : x.node[l].key \in Keys /\ x.node[l].key = x.node[m].key => l = m
        BY <1>1 DEF Single
    <2>5. \A l \in Filled(x) : x.node[l].key # k /\ ~inarray(x, x.node[l].key) /\ l # n
        BY <1>1, <1>2 DEF Single, Filled
    <2>6. ASSUME NEW i \in Filled(y), NEW j \in Filled(y), y.node[i].key \in Keys, y.node[i].key = y.node[j].key
          PROVE  i = j
        BY <2>3, <2>4, <2>5, <2>6
    <2>7. \A i \in Filled(y) : ~inarray(y, y.node[i].key)
        BY <2>1, <2>3, <2>5
    <2> QED
        BY <2>2, <2>6, <2>7, <1>1, <1>11 DEF Single
<1>20. Freed(y)
    <2>1. sizenode(y) = sizenode(x) /\ Nodes(x) = 0..sizenode(x) - 1 /\ sizenode(x) \in Nat
        BY <1>1, <1>11, TableFacts DEF sizenode, Nodes
    <2>2. n <= sizenode(y)
        BY <2>1, <1>2
    <2>3. \A i \in Nodes(y) : i >= n => i \in Filled(y)
        BY <2>1, <1>2, <1>11, <1>12
    <2> QED
        BY <2>2, <2>3, <1>2, <1>11 DEF Freed
<1>21. Sound(y)
    BY <1>11, <1>16, <1>17, <1>18, <1>19, <1>20 DEF Sound
<1>22. Pairs(y) = Pairs(x)
    <2>1. \A i \in Nodes(x) : y.node[i].val # nil => y.node[i].key = x.node[i].key /\ y.node[i].val = x.node[i].val
        BY <1>9
    <2>2. \A i \in Nodes(x) : x.node[i].val # nil => y.node[i].key = x.node[i].key /\ y.node[i].val = x.node[i].val
        BY <1>3, <1>9
    <2> QED
        BY <2>1, <2>2, <1>11 DEF Pairs
<1>23. Names(y) \subseteq Names(x) \cup {k}
    <2> SUFFICES ASSUME NEW i \in Filled(y) PROVE y.node[i].key \in Names(x) \cup {k}
        BY <1>11 DEF Names
    <2>1. i \in Nodes(x) /\ (i = n \/ i \in Filled(x))
        BY <1>12, <1>11 DEF Filled
    <2> QED
        BY <2>1, <1>9 DEF Names
<1>24. has(y, k)
    <2>1. n \in Nodes(y) /\ y.node[n].key = k
        BY <1>9, <1>11
    <2> QED
        BY <2>1, <1>21, HasNode
<1> QED
    BY <1>11, <1>21, <1>22, <1>23, <1>24 DEF Inserted

\* A table with one other field.
Shaped(x) == x = [array |-> x.array, node |-> x.node, dummy |-> x.dummy, lastfree |-> x.lastfree, ok |-> x.ok]

\* What the fields of a changed table are.
LEMMA LastfreeChanged ==
    ASSUME NEW x, Shaped(x), NEW l, NEW y, y = [x EXCEPT !.lastfree = l]
    PROVE  /\ Shaped(y) /\ y.array = x.array /\ y.node = x.node /\ y.dummy = x.dummy
           /\ y.lastfree = l /\ y.ok = x.ok
    BY DEF Shaped
WithNode(x, nd) == [x EXCEPT !.node = nd]

\* WithNode changes the nodes alone.
LEMMA NodeChanged ==
    ASSUME NEW x, Shaped(x), NEW nd
    PROVE  LET y == WithNode(x, nd)
           IN  /\ Shaped(y) /\ y.array = x.array /\ y.node = nd /\ y.dummy = x.dummy
               /\ y.lastfree = x.lastfree /\ y.ok = x.ok
    BY DEF Shaped, WithNode
\* An assertion that holds changes nothing.
LEMMA AssertHolds ==
    ASSUME NEW x, Shaped(x), x.ok = TRUE
    PROVE  lua_assert(x, TRUE) = x
    BY DEF Shaped, lua_assert

\* A table with other nodes of the same number.
Vectors(x) == [Nodes(x) -> NodeType(x)]
Changed(x, l, nd) == [x EXCEPT !.lastfree = l, !.node = nd]
ChangedWell(x, l, nd) ==
  LET y == Changed(x, l, nd)
  IN  /\ y \in Tables /\ y.array = x.array /\ y.dummy = x.dummy /\ Nodes(y) = Nodes(x)
      /\ y.lastfree = l /\ y.ok /\ y.node = nd
      /\ lua_assert(y, TRUE) = y

\* With nodes of its type it stays a table.
LEMMA Replaced ==
    ASSUME NEW x \in Tables, x.ok, NEW l, l \in Nodes(x),
           NEW nd, nd \in Vectors(x)
    PROVE  ChangedWell(x, l, nd)
<1> DEFINE u == [x EXCEPT !.lastfree = l]
           y == WithNode(u, nd)
<1>1. y = Changed(x, l, nd)
    BY DEF Changed, WithNode
<1>2. Shaped(x) /\ x.ok = TRUE
    BY FieldFacts DEF With, Shaped
<1> HIDE DEF u
<1>3. /\ Shaped(u) /\ u.array = x.array /\ u.node = x.node /\ u.dummy = x.dummy
      /\ u.lastfree = l /\ u.ok = x.ok
    BY <1>2, LastfreeChanged DEF u
<1> HIDE DEF y
<1>4. /\ Shaped(y) /\ y.array = x.array /\ y.node = nd /\ y.dummy = x.dummy
      /\ y.lastfree = l /\ y.ok = x.ok
    BY <1>3, NodeChanged DEF y
<1>5. y = With(y, y.node, y.lastfree, y.ok) /\ y.ok = TRUE
    BY <1>2, <1>4 DEF Shaped, With
<1>6. y \in Tables /\ Nodes(y) = Nodes(x)
    <2>1. l \in Nat
        BY TableFacts
    <2>2. y.node \in [Nodes(x) -> NodeType(x)] /\ y.lastfree \in Nat /\ y.ok \in BOOLEAN
        BY <2>1, <1>4, <1>5 DEF Vectors
    <2> QED
        BY <2>2, <1>4, <1>5, Reshaped
<1>7. lua_assert(y, TRUE) = y
    BY <1>4, <1>5, AssertHolds
<1> QED
    BY <1>1, <1>4, <1>5, <1>6, <1>7 DEF ChangedWell

\* There is room for a key when its main position is free or another node is.
Room(x, k) == (x.node[mainposition(x, k)].val = nil /\ ~x.dummy) \/ getfreepos(x) # NULL

\* A new key gets a place, and nothing else changes.
LEMMA InsertSound ==
    ASSUME NEW x, Sound(x), NEW k \in Keys, ~has(x, k), Room(x, k)
    PROVE  Inserted(x, k, insert(x, k))
<1> DEFINE mp == mainposition(x, k)
           n  == getfreepos(x)
           o  == mainposition(x, x.node[mp].key)
           p  == found(x, o, {i \in DOMAIN x.node : x.node[i].next = mp})
<1>1. x \in Tables /\ Homed(x) /\ Linked(x) /\ Ranked(x) /\ Single(x) /\ Freed(x) /\ x.ok
    BY DEF Sound
<1>2. ~inarray(x, k) /\ mp \in Nodes(x) /\ \A j \in Nodes(x) : x.node[j].key # k
    <2>1. k \in Hashable
        BY DEF Hashable
    <2> QED
        BY <2>1, <1>1, GetnodeFacts DEF has
<1>3. CASE x.node[mp].val = nil /\ ~x.dummy
    <2>1. insert(x, k) = [x EXCEPT !.node[mp].key = k]
        BY <1>3 DEF insert
    <2> QED
        BY <2>1, <1>2, <1>3, InsertFree
<1>4. CASE ~(x.node[mp].val = nil /\ ~x.dummy)
    <2>1. n # NULL
        BY <1>4 DEF Room
    <2>2. /\ ~x.dummy /\ n \in Nodes(x) \ Filled(x) /\ x.node[n] = FreeNode
          /\ \A i \in Nodes(x) : i > n => i \in Filled(x)
        BY <1>1, <2>1, GetfreeposFacts
    <2>3. x.node[mp].val # nil /\ x.node[n].val = nil
        BY <1>4, <2>2 DEF FreeNode
    <2>4. mp \in Filled(x) /\ o = Home(x, mp) /\ o \in Nodes(x) /\ On(x, o, mp)
        <3>1. x.node[mp].key # nil /\ x.node[mp].key[1] # "dead"
            BY <1>1, <1>2, <2>3 DEF Linked, FreeNode
        <3>2. mp \in Filled(x) /\ o = Home(x, mp)
            BY <1>2, <3>1 DEF Filled, Home, Orig
        <3> QED
            BY <3>2, <1>1 DEF Homed, Filled
    <2>5. CASE o # mp
        <3> DEFINE nd == [x.node EXCEPT ![p].next = n, ![n] = x.node[mp],
                                        ![mp] = [FreeNode EXCEPT !.key = k]]
                   y == insert(x, k)
        <3>1. p \in Nodes(x) /\ x.node[p].next = mp
            BY <1>2, <2>4, <2>5, PreviousNode
        <3>2. y = lua_assert(Changed(x, n, nd), TRUE)
            <4>1. y = lua_assert(Changed(x, n, nd), ~x.dummy /\ x.node[n].val = nil)
                BY <1>4, <2>1, <2>5 DEF insert, Changed
            <4>2. (~x.dummy /\ x.node[n].val = nil) = TRUE
                BY <2>2, <2>3
            <4> HIDE DEF y, nd
            <4> QED
                BY <4>1, <4>2
        <3>3. p # n /\ p # mp
            <4>1. p # n
                <5> HIDE DEF n, p, mp
                <5>1. x.node[n].next = NULL
                    BY <2>2 DEF FreeNode
                <5>2. mp # NULL
                    BY <1>1, <1>2, NodeFacts
                <5> QED
                    BY <5>1, <5>2, <3>1
            <4>2. PICK r : IsRank(x, r)
                BY <1>1 DEF Ranked
            <4>3. mp \in Nodes(x) /\ mp # NULL
                BY <1>2, <1>1, NodeFacts
            <4>4. r[mp] < r[p] /\ r[mp] \in Nat
                BY <3>1, <4>2, <4>3 DEF IsRank
            <4> QED
                BY <4>1, <4>4
        <3>4. n # mp /\ n \in Nodes(x) /\ n \in Nat
            BY <1>1, <2>2, <2>4, TableFacts
        <3> HIDE DEF mp, n, p
        <3>5. /\ x.node \in [Nodes(x) -> NodeType(x)]
              /\ x.node[p] = [key |-> x.node[p].key, val |-> x.node[p].val, next |-> x.node[p].next]
              /\ x.node[p] \in NodeType(x) /\ x.node[mp] \in NodeType(x)
            BY <1>1, <1>2, <3>1, FieldFacts, NodeFacts DEF NodeType
        <3>6. [FreeNode EXCEPT !.key = k] = [key |-> k, val |-> nil, next |-> NULL]
            BY DEF FreeNode
        <3>7. nd \in [Nodes(x) -> NodeType(x)]
            <4>1. [x.node[p] EXCEPT !.next = n] \in NodeType(x)
                BY <3>4, <3>5 DEF NodeType
            <4>2. [key |-> k, val |-> nil, next |-> NULL] \in NodeType(x)
                BY DEF NodeType, Slots
            <4> QED
                BY <4>1, <4>2, <3>1, <3>4, <3>5, <3>6, <1>2
        <3>8. /\ nd[p].next = n /\ nd[p].key = x.node[p].key /\ nd[p].val = x.node[p].val
              /\ nd[n] = x.node[mp]
              /\ nd[mp] = [key |-> k, val |-> nil, next |-> NULL]
              /\ \A j \in Nodes(x) \ {p, n, mp} : nd[j] = x.node[j]
            BY <1>2, <3>1, <3>3, <3>4, <3>5, <3>6
        <3> HIDE DEF nd, y
        <3>9. /\ y \in Tables /\ y.array = x.array /\ y.dummy = x.dummy /\ Nodes(y) = Nodes(x)
              /\ y.lastfree = n /\ y.ok /\ y.node = nd
            <4>1. ChangedWell(x, n, nd)
                <5>1. nd \in Vectors(x) /\ n \in Nodes(x)
                    BY <3>4, <3>7 DEF Vectors
                <5> QED
                    BY <1>1, <5>1, Replaced
            <4> QED
                BY <3>2, <4>1 DEF ChangedWell
        <3>10. Moved(x, k, mp, n, p, y)
            BY <3>8, <3>9 DEF Moved
        <3>11. Inserted(x, k, y)
            <4> DEFINE oo == mainposition(x, x.node[mp].key)
            <4>1. oo # mp
                BY <2>5
            <4>2. mp = mainposition(x, k)
                BY DEF mp
            <4> HIDE DEF oo
            <4>3. oo = mainposition(x, x.node[mp].key)
                BY DEF oo
            <4> QED
                BY <4>1, <4>2, <4>3, <1>2, <2>2, <2>3, <3>1, <3>10, MovedSound
        <3> QED
            BY <3>11 DEF y
    <2>6. CASE o = mp
        <3> DEFINE nd == [x.node EXCEPT ![n] = [@ EXCEPT !.key = k, !.next = x.node[mp].next],
                                        ![mp].next = n]
                   y == insert(x, k)
        <3>2. y = lua_assert(Changed(x, n, nd), TRUE)
            <4>1. y = lua_assert(Changed(x, n, nd), ~x.dummy /\ x.node[n].val = nil)
                BY <1>4, <2>1, <2>6 DEF insert, Changed
            <4>2. (~x.dummy /\ x.node[n].val = nil) = TRUE
                BY <2>2, <2>3
            <4> HIDE DEF y, nd
            <4> QED
                BY <4>1, <4>2
        <3>4. n # mp /\ n \in Nodes(x) /\ n \in Nat
            BY <1>1, <2>2, <2>4, TableFacts
        <3> HIDE DEF n
        <3> HIDE DEF mp
        <3>6. /\ x.node \in [Nodes(x) -> NodeType(x)]
              /\ x.node[mp] = [key |-> x.node[mp].key, val |-> x.node[mp].val, next |-> x.node[mp].next]
              /\ x.node[mp] \in NodeType(x)
            BY <1>1, <1>2, FieldFacts, NodeFacts DEF NodeType
        <3>7. [x.node[n] EXCEPT !.key = k, !.next = x.node[mp].next]
                = [key |-> k, val |-> nil, next |-> x.node[mp].next]
            <4> DEFINE h == x.node[mp].next
            <4> HIDE DEF h
            <4>1. [FreeNode EXCEPT !.key = k] = [key |-> k, val |-> nil, next |-> NULL]
                BY DEF FreeNode
            <4>2. [[key |-> k, val |-> nil, next |-> NULL] EXCEPT !.next = h] = [key |-> k, val |-> nil, next |-> h]
                OBVIOUS
            <4> QED
                BY <2>2, <4>1, <4>2 DEF h
        <3>8. nd \in [Nodes(x) -> NodeType(x)]
            <4>1. [key |-> k, val |-> nil, next |-> x.node[mp].next] \in NodeType(x)
                BY <3>6 DEF NodeType, Slots
            <4>2. [x.node[mp] EXCEPT !.next = n] \in NodeType(x)
                BY <3>4, <3>6 DEF NodeType
            <4> QED
                BY <4>1, <4>2, <3>4, <3>6, <3>7, <1>2
        <3>9. /\ nd[mp].next = n /\ nd[mp].key = x.node[mp].key /\ nd[mp].val = x.node[mp].val
              /\ nd[n] = [key |-> k, val |-> nil, next |-> x.node[mp].next]
              /\ \A j \in Nodes(x) \ {n, mp} : nd[j] = x.node[j]
            BY <1>2, <3>4, <3>6, <3>7
        <3> HIDE DEF nd, y
        <3>10. /\ y \in Tables /\ y.array = x.array /\ y.dummy = x.dummy /\ Nodes(y) = Nodes(x)
               /\ y.lastfree = n /\ y.ok /\ y.node = nd
            <4>1. ChangedWell(x, n, nd)
                <5>1. nd \in Vectors(x) /\ n \in Nodes(x)
                    BY <3>4, <3>8 DEF Vectors
                <5> QED
                    BY <1>1, <5>1, Replaced
            <4> QED
                BY <3>2, <4>1 DEF ChangedWell
        <3>11. Added(x, k, mp, n, y)
            BY <3>9, <3>10 DEF Added
        <3>12. Inserted(x, k, y)
            <4>1. mp = mainposition(x, k) /\ mp = mainposition(x, x.node[mp].key)
                BY <2>6 DEF mp
            <4> QED
                BY <4>1, <1>2, <2>2, <2>3, <3>11, AddedSound
        <3> QED
            BY <3>12 DEF y
    <2> QED
        BY <2>5, <2>6
<1> QED
    BY <1>3, <1>4

-----------------------------------------------------------------------------
(* Assigning to keys that are there and removing keys *)

\* found depends on the chains alone.
LEMMA SameFound ==
    ASSUME NEW x \in Tables, NEW y \in Tables, Nodes(y) = Nodes(x), NEW r, IsRank(x, r), IsRank(y, r),
           \A i, j : On(y, i, j) <=> On(x, i, j),
           NEW i \in Nodes(x), NEW S \in SUBSET Nodes(x)
    PROVE  found(y, i, S) = found(x, i, S)
<1> DEFINE f == found(x, i, S)
           g == found(y, i, S)
<1>1. /\ f = NULL => \A j \in S : ~On(x, i, j)
      /\ f # NULL => /\ f \in S /\ On(x, i, f)
                     /\ \A j \in S : On(x, i, j) => j = f \/ r[j] < r[f]
    BY FoundFirst
<1>2. /\ g = NULL => \A j \in S : ~On(y, i, j)
      /\ g # NULL => /\ g \in S /\ On(y, i, g)
                     /\ \A j \in S : On(y, i, j) => j = g \/ r[j] < r[g]
    BY FoundFirst
<1>3. \A j \in Nodes(x) : r[j] \in Nat
    BY DEF IsRank
<1> HIDE DEF f, g
<1>4. f = g
    <2>1. CASE f = NULL
        BY <2>1, <1>1, <1>2
    <2>2. CASE g = NULL
        BY <2>2, <1>1, <1>2
    <2>3. CASE f # NULL /\ g # NULL
        <3>1. f \in Nodes(x) /\ g \in Nodes(x) /\ (f = g \/ (r[f] < r[g] /\ r[g] < r[f]))
            BY <2>3, <1>1, <1>2
        <3> QED
            BY <3>1, <1>3
    <2> QED
        BY <2>1, <2>2, <2>3
<1> QED
    BY <1>4 DEF f, g

\* y is x with other values, and with some keys removed.
Rekeyed(x, y) ==
  /\ y \in Tables /\ Nodes(y) = Nodes(x) /\ sizearray(y) = sizearray(x)
  /\ \A i \in 1..sizearray(y) : y.array[i] # nil => i <= MaxKey
  /\ y.dummy = x.dummy /\ y.lastfree = x.lastfree /\ y.ok
  /\ \A j \in Nodes(x) :
       /\ y.node[j].next = x.node[j].next
       /\ \/ y.node[j].key = x.node[j].key /\ (x.node[j].key \notin Keys => y.node[j].val = nil)
          \/ /\ x.node[j].key \in Keys /\ iscollectable(x.node[j].key)
             /\ y.node[j].key = <<"dead", x.node[j].key>> /\ y.node[j].val = nil

\* It is sound, and its keys are where they were.
LEMMA RekeyedSound ==
    ASSUME NEW x, Sound(x), NEW y, Rekeyed(x, y)
    PROVE  /\ Sound(y)
           /\ \A l : inarray(y, l) = inarray(x, l) /\ mainposition(y, l) = mainposition(x, l)
           /\ \A i \in Nodes(x), S \in SUBSET Nodes(x) : found(y, i, S) = found(x, i, S)
<1>1. /\ x \in Tables /\ Homed(x) /\ Linked(x) /\ Ranked(x) /\ Single(x) /\ Freed(x) /\ x.ok
    BY DEF Sound
<1>2. /\ y \in Tables /\ Nodes(y) = Nodes(x) /\ sizearray(y) = sizearray(x)
      /\ \A i \in 1..sizearray(y) : y.array[i] # nil => i <= MaxKey
      /\ y.dummy = x.dummy /\ y.lastfree = x.lastfree /\ y.ok
    BY DEF Rekeyed
<1>3. ASSUME NEW j \in Nodes(x)
      PROVE  /\ y.node[j].next = x.node[j].next
             /\ \/ y.node[j].key = x.node[j].key /\ (x.node[j].key \notin Keys => y.node[j].val = nil)
                \/ /\ x.node[j].key \in Keys /\ iscollectable(x.node[j].key)
                   /\ y.node[j].key = <<"dead", x.node[j].key>> /\ y.node[j].val = nil
    BY DEF Rekeyed
<1>4. ASSUME NEW j \in Nodes(x)
      PROVE  /\ Orig(y.node[j].key) = Orig(x.node[j].key)
             /\ y.node[j].key = nil <=> x.node[j].key = nil
             /\ y.node[j].key \in Keys => x.node[j].key = y.node[j].key
             /\ y.node[j].key[1] = "dead" => y.node[j].val = nil
    <2>1. CASE y.node[j].key = x.node[j].key
        <3>1. y.node[j].key[1] = "dead" => x.node[j].key \notin Keys
            BY <2>1, KeyFacts
        <3>2. y.node[j].key[1] = "dead" => y.node[j].val = nil
            BY <3>1, <2>1, <1>3, KeyFacts
        <3> QED
            BY <2>1, <3>2
    <2>2. CASE /\ x.node[j].key \in Keys /\ y.node[j].key = <<"dead", x.node[j].key>> /\ y.node[j].val = nil
        BY <2>2, KeyFacts
    <2> QED
        BY <2>1, <2>2, <1>3
<1>5. Filled(y) = Filled(x)
    BY <1>2, <1>4 DEF Filled
<1>6. \A i, j : On(y, i, j) <=> On(x, i, j)
    BY <1>2, <1>3 DEF On, Closed
<1>7. \A l : mainposition(y, l) = mainposition(x, l)
    BY <1>2, SameHome
<1>8. \A l : inarray(y, l) = inarray(x, l)
    BY <1>2 DEF inarray
<1>9. \A j \in Nodes(x) : Home(y, j) = Home(x, j)
    BY <1>4, <1>7 DEF Home
<1>10. Homed(y)
    <2> SUFFICES ASSUME NEW j \in Filled(y)
                 PROVE  /\ Home(y, j) \in Filled(y) /\ Home(y, Home(y, j)) = Home(y, j)
                        /\ On(y, Home(y, j), j)
        BY DEF Homed
    <2>1. j \in Filled(x) /\ j \in Nodes(x)
        BY <1>5 DEF Filled
    <2>2. Home(x, j) \in Filled(x) /\ Home(x, Home(x, j)) = Home(x, j) /\ On(x, Home(x, j), j)
        BY <2>1, <1>1 DEF Homed
    <2>3. Home(x, j) \in Nodes(x)
        BY <2>2 DEF Filled
    <2> QED
        BY <2>1, <2>2, <2>3, <1>5, <1>6, <1>9
<1>11. Linked(y)
    <2>1. ASSUME NEW i \in Nodes(y), y.node[i].key = nil
          PROVE  y.node[i] = FreeNode
        <3>1. x.node[i].key = nil /\ x.node[i] = FreeNode /\ x.node[i].key \notin Keys
            BY <2>1, <1>1, <1>2, <1>4, NilFacts DEF Linked
        <3>2. y.node[i].val = nil /\ y.node[i].next = NULL
            BY <3>1, <1>2, <1>3 DEF FreeNode
        <3>3. y.node[i] = [key |-> y.node[i].key, val |-> y.node[i].val, next |-> y.node[i].next]
            BY <1>2, NodeFacts
        <3> QED
            BY <3>2, <3>3, <2>1 DEF FreeNode
    <2>2. \A i \in Nodes(y) : y.node[i].key[1] = "dead" => y.node[i].val = nil
        BY <1>2, <1>4
    <2>3. /\ \A i, j \in Nodes(y) : y.node[i].next = y.node[j].next /\ y.node[i].next # NULL => i = j
          /\ \A i \in Nodes(y) : y.node[i].next # NULL => y.node[i].next \in Filled(y)
        BY <1>1, <1>2, <1>3, <1>5 DEF Linked
    <2> QED
        BY <2>1, <2>2, <2>3 DEF Linked
<1>12. PICK r : IsRank(x, r)
    BY <1>1 DEF Ranked
<1>13. IsRank(y, r)
    <2>1. ASSUME NEW i \in Nodes(y), NEW j \in Nodes(y), y.node[j].key = <<"dead", y.node[i].key>>
          PROVE  r[j] < r[i]
        <3>1. i \in Nodes(x) /\ j \in Nodes(x)
            BY <1>2
        <3>2. CASE y.node[i].key \in Keys
            <4>1. x.node[i].key = y.node[i].key
                BY <3>1, <3>2, <1>4
            <4>2. CASE y.node[j].key = x.node[j].key
                BY <4>1, <4>2, <2>1, <3>1, <1>12 DEF IsRank
            <4>3. CASE x.node[j].key \in Keys /\ y.node[j].key = <<"dead", x.node[j].key>>
                <5>1. x.node[j].key = x.node[i].key
                    BY <4>1, <4>3, <2>1
                <5>2. i \in Filled(x) /\ j \in Filled(x)
                    BY <5>1, <4>3, <3>1, KeyFacts DEF Filled
                <5>3. i = j
                    BY <5>1, <5>2, <4>3, <1>1 DEF Single
                <5>4. y.node[i].key # <<"dead", y.node[i].key>>
                    BY <3>2, KeyFacts
                <5> QED
                    BY <5>3, <5>4, <2>1
            <4> QED
                BY <4>2, <4>3, <1>3, <3>1
        <3>3. CASE y.node[i].key \notin Keys
            <4>1. y.node[j].key \in Slots
                BY <1>2, NodeFacts
            <4>2. y.node[j].key[1] = "dead" /\ y.node[j].key[2] = y.node[i].key
                BY <2>1
            <4>3. PICK l \in Keys : y.node[j].key = <<"dead", l>>
                BY <4>1, <4>2, KeyFacts, NilFacts DEF Slots
            <4> QED
                BY <4>2, <4>3, <3>3
        <3> QED
            BY <3>2, <3>3
    <2> QED
        BY <2>1, <1>2, <1>3, <1>12 DEF IsRank
<1>14. Single(y)
    <2>1. ASSUME NEW i \in Filled(y), NEW j \in Filled(y), y.node[i].key \in Keys, y.node[i].key = y.node[j].key
          PROVE  i = j
        <3>1. i \in Filled(x) /\ j \in Filled(x) /\ i \in Nodes(x) /\ j \in Nodes(x)
            BY <1>5 DEF Filled
        <3>2. x.node[i].key = y.node[i].key /\ x.node[j].key = y.node[j].key
            BY <2>1, <3>1, <1>4
        <3> QED
            BY <3>1, <3>2, <2>1, <1>1 DEF Single
    <2>2. ASSUME NEW i \in Filled(y)
          PROVE  ~inarray(y, y.node[i].key)
        <3>1. i \in Filled(x) /\ i \in Nodes(x)
            BY <1>5 DEF Filled
        <3>2. ~inarray(x, x.node[i].key)
            BY <3>1, <1>1 DEF Single
        <3>3. x.node[i].key \in Keys /\ y.node[i].key = <<"dead", x.node[i].key>> => ~inarray(y, y.node[i].key)
            BY KeyFacts DEF inarray
        <3> QED
            BY <3>1, <3>2, <3>3, <1>3, <1>8
    <2> QED
        BY <2>1, <2>2, <1>2 DEF Single
<1>15. Freed(y)
    <2>1. sizenode(y) = sizenode(x)
        BY <1>2 DEF sizenode, Nodes
    <2>2. CASE x.dummy
        <3>1. x.node = [i \in 0..0 |-> FreeNode] /\ x.lastfree = 0
            BY <2>2, <1>1 DEF Freed
        <3>2. Nodes(x) = 0..0 /\ \A i \in Nodes(x) : x.node[i].key = nil
            BY <3>1 DEF Nodes, FreeNode
        <3>3. \A i \in Nodes(y) : y.node[i] = FreeNode
            BY <3>2, <1>2, <1>4, <1>11 DEF Linked
        <3>4. y.node = [i \in Nodes(y) |-> y.node[i]]
            BY <1>2, FieldFacts
        <3> QED
            BY <3>1, <3>2, <3>3, <3>4, <1>2, <2>2 DEF Freed
    <2>3. CASE ~x.dummy
        BY <2>1, <2>3, <1>1, <1>2, <1>5 DEF Freed
    <2> QED
        BY <2>2, <2>3
<1>16. Sound(y)
    BY <1>2, <1>10, <1>11, <1>13, <1>14, <1>15 DEF Sound, Ranked
<1>17. \A i \in Nodes(x), S \in SUBSET Nodes(x) : found(y, i, S) = found(x, i, S)
    BY <1>1, <1>2, <1>6, <1>12, <1>13, SameFound
<1> QED
    BY <1>7, <1>8, <1>16, <1>17

\* The place of a key stays, also for a traversal when the key was removed.
LEMMA RekeyedIndex ==
    ASSUME NEW x, Sound(x), NEW y, Rekeyed(x, y), NEW k \in Keys \cup {nil}
    PROVE  findindex(y, k) = findindex(x, k)
<1>1. /\ Nodes(y) = Nodes(x) /\ sizearray(y) = sizearray(x) /\ x \in Tables /\ y \in Tables
      /\ DOMAIN x.node = Nodes(x) /\ DOMAIN y.node = Nodes(x)
    BY DEF Rekeyed, Sound, Nodes
<1>2. CASE k = nil
    BY <1>2 DEF findindex
<1>3. CASE k \in Keys
    <2> DEFINE S(z) == {i \in Nodes(x) : \/ z.node[i].key = k
                                         \/ iscollectable(k) /\ z.node[i].key = <<"dead", k>>}
    <2>1. ASSUME NEW i \in Nodes(x)
          PROVE  i \in S(y) <=> i \in S(x)
        <3>1. k # <<"dead", k>> /\ \A l \in Keys : <<"dead", l>> = <<"dead", k>> => l = k
            BY <1>3, KeyFacts
        <3>2. CASE y.node[i].key = x.node[i].key
            BY <3>2
        <3>3. CASE /\ x.node[i].key \in Keys /\ iscollectable(x.node[i].key)
                   /\ y.node[i].key = <<"dead", x.node[i].key>>
            BY <3>1, <3>3, <1>3, KeyFacts
        <3> QED
            BY <3>2, <3>3 DEF Rekeyed
    <2>2. S(y) = S(x) /\ S(x) \in SUBSET Nodes(x)
        BY <2>1
    <2> HIDE DEF S
    <2>3. mainposition(x, k) \in Nodes(x)
        <3>1. k \in Hashable
            BY <1>3 DEF Hashable
        <3> QED
            BY <3>1, <1>1, HomeInNodes, TableFacts
    <2>4. /\ mainposition(y, k) = mainposition(x, k) /\ inarray(y, k) = inarray(x, k)
          /\ found(y, mainposition(x, k), S(x)) = found(x, mainposition(x, k), S(x))
        BY <2>2, <2>3, RekeyedSound
    <2>5. /\ S(x) = {i \in DOMAIN x.node : x.node[i].key = k \/ (iscollectable(k) /\ x.node[i].key = <<"dead", k>>)}
          /\ S(y) = {i \in DOMAIN y.node : y.node[i].key = k \/ (iscollectable(k) /\ y.node[i].key = <<"dead", k>>)}
        BY <1>1 DEF S
    <2>6. findindex(x, k) = LET n == found(x, mainposition(x, k), S(x))
                            IN  IF k = nil THEN 0 ELSE IF inarray(x, k) THEN k[2]
                                ELSE IF n = NULL THEN NULL ELSE sizearray(x) + n + 1
        BY <2>5 DEF findindex
    <2>7. findindex(y, k) = LET n == found(y, mainposition(y, k), S(y))
                            IN  IF k = nil THEN 0 ELSE IF inarray(y, k) THEN k[2]
                                ELSE IF n = NULL THEN NULL ELSE sizearray(y) + n + 1
        BY <2>5 DEF findindex
    <2> QED
        BY <2>2, <2>4, <2>6, <2>7, <1>1
<1> QED
    BY <1>2, <1>3

\* the integer keys
LEMMA IntFacts ==
    /\ \A i : isint(int(i)) /\ int(i)[2] = i
    /\ \A i \in Nat \ {0} : int(i) \in Hashable
    /\ \A i : int(i) \in Keys <=> i \in 1..MaxKey
    /\ \A k \in Hashable : isint(k) => k[2] \in Nat \ {0} /\ k = int(k[2])
    /\ \A k \in Keys : isint(k) => k[2] \in 1..MaxKey
    /\ MaxKey \in Nat
<1>1. \A i : isint(int(i)) /\ int(i)[2] = i
    BY DEF isint, int
<1>2. \A k \in Keys : isint(k) => k[2] \in 1..MaxKey /\ k[2] \in Nat \ {0} /\ k = int(k[2])
    BY KeyFacts
<1>3. \A k \in Hashable : isint(k) => k[2] \in Nat \ {0} /\ k = int(k[2])
    <2> SUFFICES ASSUME NEW k \in Hashable, isint(k) PROVE k[2] \in Nat \ {0} /\ k = int(k[2])
        OBVIOUS
    <2>1. CASE k \in Keys
        BY <2>1, <1>2
    <2>2. CASE k \notin Keys
        <3>1. PICK i \in Nat \ {0} : k = int(i)
            BY <2>2 DEF Hashable
        <3> QED
            BY <3>1, <1>1
    <2> QED
        BY <2>1, <2>2
<1>4. \A i : int(i) \in Keys <=> i \in 1..MaxKey
    <2>1. \A i : i \in 1..MaxKey => int(i) \in Keys
        BY KeysAssumption DEF int
    <2>2. \A i : int(i) \in Keys => i \in 1..MaxKey
        BY <1>1, <1>2
    <2> QED
        BY <2>1, <2>2
<1> QED
    BY <1>1, <1>2, <1>3, <1>4, KeysAssumption DEF Hashable

\* A table with another array.
WithArray(x, a) == [x EXCEPT !.array = a]

\* WithArray changes the array alone.
LEMMA ArrayChanged ==
    ASSUME NEW x, Shaped(x), NEW a
    PROVE  LET y == WithArray(x, a)
           IN  /\ Shaped(y) /\ y.array = a /\ y.node = x.node /\ y.dummy = x.dummy
               /\ y.lastfree = x.lastfree /\ y.ok = x.ok
    BY DEF Shaped, WithArray

\* A table is a record whose fields have their types.
LEMMA TablesByFields ==
    ASSUME NEW x
    PROVE  x \in Tables <=> /\ Shaped(x) /\ x.array \in Seq(Values \cup {nil})
                            /\ x.node \in UNION {Nodevector(n) : n \in Nat \ {0}}
                            /\ x.dummy \in BOOLEAN /\ x.lastfree \in Nat /\ x.ok \in BOOLEAN
    BY DEF Tables, Shaped

\* Of a table whose keys stay, the place of a key and what is there.
LEMMA SameKeys ==
    ASSUME NEW x, Sound(x), NEW y, Rekeyed(x, y), \A j \in Nodes(x) : y.node[j].key = x.node[j].key
    PROVE  /\ \A l \in Hashable : getnode(y, l) = getnode(x, l) /\ has(y, l) = has(x, l)
           /\ Filled(y) = Filled(x) /\ Names(y) = Names(x)
<1>1. Nodes(y) = Nodes(x) /\ x \in Tables
    BY DEF Rekeyed, Sound
<1>2. Filled(y) = Filled(x) /\ \A j \in Filled(x) : j \in Nodes(x)
    BY <1>1 DEF Filled
<1>3. Names(y) = Names(x)
    BY <1>2 DEF Names
<1>4. ASSUME NEW l \in Hashable
      PROVE  getnode(y, l) = getnode(x, l) /\ has(y, l) = has(x, l)
    <2> DEFINE S == {i \in Nodes(x) : x.node[i].key = l}
    <2>1. mainposition(x, l) \in Nodes(x)
        BY <1>1, HomeInNodes, TableFacts
    <2>2. S \in SUBSET Nodes(x) /\ S = {i \in DOMAIN x.node : x.node[i].key = l}
                                /\ S = {i \in DOMAIN y.node : y.node[i].key = l}
        BY <1>1 DEF Nodes
    <2> HIDE DEF S
    <2>3. found(y, mainposition(y, l), S) = found(x, mainposition(x, l), S) /\ inarray(y, l) = inarray(x, l)
        BY <2>1, <2>2, RekeyedSound
    <2>4. getnode(y, l) = getnode(x, l)
        BY <2>2, <2>3 DEF getnode
    <2> QED
        BY <2>3, <2>4 DEF has
<1> QED
    BY <1>2, <1>3, <1>4

\* An assignment to a key that is there changes its value and no other.
Assigned(x, k, v, y) ==
  /\ Sound(y) /\ Rekeyed(x, y) /\ Names(y) = Names(x) /\ Filled(y) = Filled(x)
  /\ \A l \in Hashable : has(y, l) = has(x, l) /\ luaH_get(y, l) = IF l = k THEN v ELSE luaH_get(x, l)

\* assign changes what one key has, and no place.
LEMMA AssignSound ==
    ASSUME NEW x, Sound(x), NEW k \in Keys, has(x, k), NEW v \in Values \cup {nil}
    PROVE  Assigned(x, k, v, assign(x, k, v))
<1> DEFINE y == assign(x, k, v)
           m == getnode(x, k)
<1>1. /\ x \in Tables /\ Homed(x) /\ Ranked(x) /\ Single(x) /\ x.ok /\ Shaped(x) /\ k \in Hashable
      /\ \A i \in 1..sizearray(x) : x.array[i] # nil => i <= MaxKey
    <2>1. x \in Tables /\ Homed(x) /\ Ranked(x) /\ Single(x) /\ x.ok /\ Linked(x)
        BY DEF Sound
    <2> QED
        BY <2>1, TablesByFields DEF Single, Hashable
<1>2. CASE inarray(x, k)
    <2> DEFINE i == k[2]
               a == [x.array EXCEPT ![i] = v]
    <2>1. isint(k) /\ i \in 1..sizearray(x) /\ i <= MaxKey /\ i \in Nat
        <3>1. isint(k) /\ i \in 1..sizearray(x)
            BY <1>2 DEF inarray
        <3>2. i \in 1..MaxKey
            BY <3>1, IntFacts
        <3> QED
            BY <3>1, <3>2, IntFacts
    <2>2. x.array \in Seq(Values \cup {nil}) /\ DOMAIN x.array = 1..sizearray(x) /\ sizearray(x) \in Nat
        BY <1>1, TableFacts, FieldFacts
    <2>3. a \in Seq(Values \cup {nil}) /\ Len(a) = sizearray(x) /\ DOMAIN a = 1..sizearray(x)
        BY <2>1, <2>2 DEF sizearray
    <2>4. a[i] = v /\ \A j \in 1..sizearray(x) : j # i => a[j] = x.array[j]
        BY <2>1, <2>2
    <2>5. y = WithArray(x, a)
        BY <1>2 DEF assign, WithArray
    <2> HIDE DEF a, y
    <2>6. /\ Shaped(y) /\ y.array = a /\ y.node = x.node /\ y.dummy = x.dummy
          /\ y.lastfree = x.lastfree /\ y.ok = x.ok
        BY <1>1, <2>5, ArrayChanged
    <2>7. y \in Tables /\ Nodes(y) = Nodes(x) /\ sizearray(y) = sizearray(x)
        BY <1>1, <2>3, <2>6, TablesByFields DEF Nodes, sizearray
    <2>8. \A j \in Nodes(x) : x.node[j].key \notin Keys => x.node[j].val = nil
        <3> SUFFICES ASSUME NEW j \in Nodes(x), x.node[j].key \notin Keys
                     PROVE  x.node[j].val = nil
            OBVIOUS
        <3>1. x.node[j].key = nil \/ x.node[j].key[1] = "dead"
            BY <1>1, OrigFacts DEF Filled
        <3> QED
            BY <3>1 DEF Sound, Linked, FreeNode
    <2>9. Rekeyed(x, y)
        BY <1>1, <2>1, <2>3, <2>4, <2>6, <2>7, <2>8 DEF Rekeyed
    <2>10. ASSUME NEW l \in Hashable
           PROVE  has(y, l) = has(x, l) /\ luaH_get(y, l) = IF l = k THEN v ELSE luaH_get(x, l)
        <3>1. getnode(y, l) = getnode(x, l) /\ has(y, l) = has(x, l)
            BY <2>6, <2>9, SameKeys
        <3>2. inarray(y, l) = inarray(x, l)
            BY <2>9, RekeyedSound
        <3>3. CASE inarray(x, l)
            <4>1. luaH_get(y, l) = y.array[l[2]] /\ luaH_get(x, l) = x.array[l[2]]
                BY <3>2, <3>3 DEF luaH_get
            <4>2. l[2] \in 1..sizearray(x) /\ (l[2] = i => l = k)
                <5>1. \A b \in Hashable : isint(b) => b = int(b[2])
                    BY IntFacts
                <5> QED
                    BY <5>1, <3>3, <2>1, <1>1 DEF inarray
            <4> QED
                BY <4>1, <4>2, <2>4, <2>6, <3>1
        <3>4. CASE ~inarray(x, l)
            <4>1. l # k
                BY <3>4, <1>2
            <4> QED
                BY <4>1, <3>1, <3>2, <3>4, <2>6 DEF luaH_get
        <3> QED
            BY <3>3, <3>4
    <2>11. Sound(y) /\ Filled(y) = Filled(x) /\ Names(y) = Names(x)
        BY <2>6, <2>9, RekeyedSound, SameKeys
    <2> QED
        BY <2>9, <2>10, <2>11 DEF Assigned, y
<1>3. CASE ~inarray(x, k)
    <2> DEFINE nd == [x.node EXCEPT ![m].val = v]
    <2>1. m # NULL /\ m \in Nodes(x) /\ x.node[m].key = k
        BY <1>1, <1>3, GetnodeFacts DEF has
    <2>2. y = WithNode(x, nd)
        BY <1>3, <2>1 DEF assign, WithNode
    <2> HIDE DEF m
    <2>3. /\ x.node \in [Nodes(x) -> NodeType(x)] /\ x.node[m] \in NodeType(x)
          /\ x.node[m] = [key |-> x.node[m].key, val |-> x.node[m].val, next |-> x.node[m].next]
        BY <1>1, <2>1, FieldFacts, NodeFacts DEF NodeType
    <2>4. [x.node[m] EXCEPT !.val = v] \in NodeType(x)
        BY <2>3 DEF NodeType
    <2>5. /\ nd \in [Nodes(x) -> NodeType(x)]
          /\ nd[m].key = k /\ nd[m].val = v /\ nd[m].next = x.node[m].next
          /\ \A j \in Nodes(x) \ {m} : nd[j] = x.node[j]
        BY <2>1, <2>3, <2>4
    <2> HIDE DEF nd, y
    <2>6. /\ Shaped(y) /\ y.array = x.array /\ y.node = nd /\ y.dummy = x.dummy
          /\ y.lastfree = x.lastfree /\ y.ok = x.ok
        BY <1>1, <2>2, NodeChanged
    <2>7. y \in Tables /\ Nodes(y) = Nodes(x) /\ sizearray(y) = sizearray(x)
        <3>1. Nodevector(sizenode(x)) = [Nodes(x) -> NodeType(x)] /\ sizenode(x) \in Nat \ {0}
            BY <1>1, TableFacts DEF NodeType, Nodevector
        <3>2. y.node \in UNION {Nodevector(n) : n \in Nat \ {0}} /\ DOMAIN y.node = Nodes(x)
            BY <3>1, <2>5, <2>6
        <3>3. y \in Tables
            BY <3>2, <1>1, <2>6, TablesByFields
        <3> QED
            BY <3>2, <3>3, <2>6 DEF Nodes, sizearray
    <2>8. \A j \in Nodes(x) : x.node[j].key \notin Keys => x.node[j].val = nil
        <3> SUFFICES ASSUME NEW j \in Nodes(x), x.node[j].key \notin Keys
                     PROVE  x.node[j].val = nil
            OBVIOUS
        <3>1. x.node[j].key = nil \/ x.node[j].key[1] = "dead"
            BY <1>1, OrigFacts DEF Filled
        <3> QED
            BY <3>1 DEF Sound, Linked, FreeNode
    <2>8a. \A j \in Nodes(x) : nd[j].key = x.node[j].key /\ nd[j].next = x.node[j].next
        BY <2>1, <2>5
    <2>9. Rekeyed(x, y)
        <3>1. \A j \in Nodes(x) : nd[j].key \notin Keys => nd[j].val = nil
            BY <2>1, <2>5, <2>8
        <3> QED
            BY <3>1, <1>1, <2>5, <2>6, <2>7, <2>8a DEF Rekeyed
    <2>10. ASSUME NEW l \in Hashable
           PROVE  has(y, l) = has(x, l) /\ luaH_get(y, l) = IF l = k THEN v ELSE luaH_get(x, l)
        <3>1. getnode(y, l) = getnode(x, l) /\ has(y, l) = has(x, l)
            BY <2>6, <2>8a, <2>9, SameKeys
        <3>2. inarray(y, l) = inarray(x, l)
            BY <2>9, RekeyedSound
        <3>3. CASE inarray(x, l)
            <4>1. l # k
                BY <3>3, <1>3
            <4> QED
                BY <4>1, <3>1, <3>2, <3>3, <2>6 DEF luaH_get
        <3>4. CASE ~inarray(x, l)
            <4>1. getnode(x, l) # NULL => getnode(x, l) \in Nodes(x) /\ x.node[getnode(x, l)].key = l
                BY <1>1, GetnodeFacts
            <4>2. l = k => getnode(x, l) = m
                BY DEF m
            <4>3. luaH_get(y, l) = IF getnode(x, l) = NULL THEN nil ELSE nd[getnode(x, l)].val
                BY <3>1, <3>2, <3>4, <2>6 DEF luaH_get
            <4>4. luaH_get(x, l) = IF getnode(x, l) = NULL THEN nil ELSE x.node[getnode(x, l)].val
                BY <3>4 DEF luaH_get
            <4> QED
                BY <4>1, <4>2, <4>3, <4>4, <3>1, <2>1, <2>5
        <3> QED
            BY <3>3, <3>4
    <2>11. Sound(y) /\ Filled(y) = Filled(x) /\ Names(y) = Names(x)
        BY <2>6, <2>8a, <2>9, RekeyedSound, SameKeys
    <2> QED
        BY <2>9, <2>10, <2>11 DEF Assigned, y
<1> QED
    BY <1>2, <1>3

\* The collector removes keys.
LEMMA RemovedSound ==
    ASSUME NEW x, Sound(x), NEW y, Shaped(y), y.array = x.array, y.dummy = x.dummy,
           y.lastfree = x.lastfree, y.ok = x.ok,
           \A j \in Nodes(x) : \/ y.node[j] = x.node[j]
                               \/ /\ x.node[j].key \in Keys /\ iscollectable(x.node[j].key)
                                  /\ y.node[j] = [key |-> <<"dead", x.node[j].key>>, val |-> nil, next |-> x.node[j].next],
           y.node = [j \in Nodes(x) |-> y.node[j]]
    PROVE  /\ Rekeyed(x, y)
           /\ \A l, v : <<l, v>> \in Pairs(y) <=> \E j \in Nodes(x) : x.node[j] = y.node[j] /\ v # nil
                                                    /\ x.node[j].key = l /\ x.node[j].val = v
<1>1. x \in Tables /\ Linked(x) /\ Single(x) /\ x.ok /\ Shaped(x)
    BY TablesByFields DEF Sound
<1>2. /\ Shaped(y) /\ y.array = x.array /\ y.dummy = x.dummy
      /\ y.lastfree = x.lastfree /\ y.ok = x.ok
    OBVIOUS
<1>3. \A j \in Nodes(x) : y.node[j] \in NodeType(x)
    <2> SUFFICES ASSUME NEW j \in Nodes(x) PROVE y.node[j] \in NodeType(x)
        OBVIOUS
    <2>1. x.node[j] \in NodeType(x) /\ x.node[j].next \in {NULL} \cup Nodes(x)
        BY <1>1, NodeFacts DEF NodeType
    <2>2. \A k \in Keys : [key |-> <<"dead", k>>, val |-> nil, next |-> x.node[j].next] \in NodeType(x)
        BY <2>1 DEF NodeType, Slots
    <2> QED
        BY <2>1, <2>2
<1>4. y \in Tables /\ Nodes(y) = Nodes(x) /\ sizearray(y) = sizearray(x)
    <2>1. Nodevector(sizenode(x)) = [Nodes(x) -> NodeType(x)] /\ sizenode(x) \in Nat \ {0}
        BY <1>1, TableFacts DEF NodeType, Nodevector
    <2>2. y.node \in [Nodes(x) -> NodeType(x)]
        BY <1>3
    <2>3. y.node \in UNION {Nodevector(n) : n \in Nat \ {0}}
        BY <2>1, <2>2, <1>2
    <2>4. y \in Tables
        BY <2>3, <1>1, <1>2, TablesByFields
    <2> QED
        BY <2>4, <1>2 DEF Nodes, sizearray
<1>5. \A j \in Nodes(x) : x.node[j].key \notin Keys => x.node[j].val = nil
    <2> SUFFICES ASSUME NEW j \in Nodes(x), x.node[j].key \notin Keys
                 PROVE  x.node[j].val = nil
        OBVIOUS
    <2>1. x.node[j].key = nil \/ x.node[j].key[1] = "dead"
        BY <1>1, OrigFacts DEF Filled
    <2> QED
        BY <2>1, <1>1 DEF Linked, FreeNode
<1>6. ASSUME NEW j \in Nodes(x)
      PROVE  /\ y.node[j].next = x.node[j].next
             /\ \/ y.node[j].key = x.node[j].key /\ (x.node[j].key \notin Keys => y.node[j].val = nil)
                \/ /\ x.node[j].key \in Keys /\ iscollectable(x.node[j].key)
                   /\ y.node[j].key = <<"dead", x.node[j].key>> /\ y.node[j].val = nil
    <2>1. CASE y.node[j] = x.node[j]
        BY <2>1, <1>5
    <2>2. CASE /\ x.node[j].key \in Keys /\ iscollectable(x.node[j].key)
               /\ y.node[j] = [key |-> <<"dead", x.node[j].key>>, val |-> nil, next |-> x.node[j].next]
        BY <2>2
    <2> QED
        BY <2>1, <2>2
<1>7. Rekeyed(x, y)
    <2>1. \A i \in 1..sizearray(y) : y.array[i] # nil => i <= MaxKey
        BY <1>1, <1>2, <1>4 DEF Single
    <2> QED
        BY <2>1, <1>1, <1>2, <1>4, <1>6 DEF Rekeyed
<1>8. ASSUME NEW l, NEW v
      PROVE  <<l, v>> \in Pairs(y) <=> \E j \in Nodes(x) : x.node[j] = y.node[j] /\ v # nil
                                                    /\ x.node[j].key = l /\ x.node[j].val = v
    <2>1. ASSUME NEW j \in Nodes(x)
          PROVE  y.node[j] = x.node[j] \/ y.node[j].val = nil
        <3>1. CASE y.node[j] = [key |-> <<"dead", x.node[j].key>>, val |-> nil, next |-> x.node[j].next]
            BY <3>1
        <3> QED
            BY <3>1
    <2>2. <<l, v>> \in Pairs(y) <=> \E j \in Nodes(x) : y.node[j].val # nil /\ y.node[j].key = l /\ y.node[j].val = v
        BY <1>4 DEF Pairs
    <2> QED
        BY <2>1, <2>2
<1> QED
    BY <1>2, <1>7, <1>8

-----------------------------------------------------------------------------
(* New tables *)

\* A table with other nodes and all of them free.
WithVector(x, nd, b, l) == [x EXCEPT !.node = nd, !.dummy = b, !.lastfree = l]

\* WithVector changes the nodes alone.
LEMMA VectorChanged ==
    ASSUME NEW x, Shaped(x), NEW nd, NEW b \in BOOLEAN, NEW l
    PROVE  LET y == WithVector(x, nd, b, l)
           IN  /\ Shaped(y) /\ y.array = x.array /\ y.node = nd /\ y.dummy = b
               /\ y.lastfree = l /\ y.ok = x.ok
<1> DEFINE u == WithNode(x, nd)
           w == [u EXCEPT !.dummy = b]
           y == [w EXCEPT !.lastfree = l]
<1>1. y = WithVector(x, nd, b, l)
    BY DEF WithVector, WithNode
<1> HIDE DEF u
<1>2. /\ Shaped(u) /\ u.array = x.array /\ u.node = nd /\ u.dummy = x.dummy
      /\ u.lastfree = x.lastfree /\ u.ok = x.ok
    BY NodeChanged DEF u
<1>3. /\ Shaped(w) /\ w.array = x.array /\ w.node = nd /\ w.dummy = b
      /\ w.lastfree = x.lastfree /\ w.ok = x.ok
    BY <1>2 DEF Shaped
<1> HIDE DEF w
<1>4. /\ Shaped(y) /\ y.array = x.array /\ y.node = nd /\ y.dummy = b
      /\ y.lastfree = l /\ y.ok = x.ok
    BY <1>3, LastfreeChanged
<1> QED
    BY <1>1, <1>4

\* A table of free nodes has no key in them.
Fresh(x, size, y) ==
  /\ Sound(y) /\ y.array = x.array /\ y.dummy = (size = 0)
  /\ Pairs(y) = {} /\ Names(y) = {} /\ Filled(y) = {}
  /\ size <= sizenode(y)

\* setnodevector makes such a table.
LEMMA FreshSound ==
    ASSUME NEW x, Shaped(x), x.ok = TRUE, x.array \in Seq(Values \cup {nil}),
           \A i \in 1..sizearray(x) : x.array[i] # nil => i <= MaxKey,
           NEW size \in Nat
    PROVE  Fresh(x, size, setnodevector(x, size))
<1> DEFINE n == IF size = 0 THEN 1 ELSE twoto(ceillog2(size))
           nd == [i \in 0..n - 1 |-> FreeNode]
           l == IF size = 0 THEN 0 ELSE n
           b == (size = 0)
           y == setnodevector(x, size)
<1>1. n \in Nat \ {0} /\ size <= n /\ l \in Nat /\ l <= n /\ b \in BOOLEAN
    <2>1. size # 0 => ceillog2(size) \in Nat /\ size <= twoto(ceillog2(size))
        BY CeilFacts
    <2>2. size # 0 => twoto(ceillog2(size)) \in Nat \ {0}
        BY <2>1, TwotoStep
    <2>3. n \in Nat \ {0} /\ size <= n
        BY <2>1, <2>2
    <2>4. l \in Nat /\ l <= n
        BY <2>3
    <2> QED
        BY <2>3, <2>4
<1>2. y = WithVector(x, nd, b, l)
    BY DEF setnodevector, WithVector
<1>3. b <=> size = 0
    OBVIOUS
<1>4. l = IF b THEN 0 ELSE n
    OBVIOUS
<1>4a. b => n = 1
    OBVIOUS
<1> HIDE DEF n, l, b, y
<1>5. nd \in Nodevector(n) /\ DOMAIN nd = 0..n - 1
    BY DEF Nodevector, FreeNode, Slots
<1> HIDE DEF nd
<1>6. /\ Shaped(y) /\ y.array = x.array /\ y.node = nd /\ y.dummy = b
      /\ y.lastfree = l /\ y.ok = x.ok
    BY <1>1, <1>2, VectorChanged
<1>7. y \in Tables /\ Nodes(y) = 0..n - 1 /\ sizenode(y) = n /\ sizearray(y) = sizearray(x)
    <2>1. y.node \in UNION {Nodevector(m) : m \in Nat \ {0}}
        BY <1>1, <1>5, <1>6
    <2>2. y \in Tables
        BY <2>1, <1>1, <1>6, TablesByFields
    <2>3. Nodes(y) = 0..n - 1
        BY <1>5, <1>6 DEF Nodes
    <2>4. Cardinality(0..n - 1) = n
        BY <1>1, FS_Interval
    <2> QED
        BY <2>2, <2>3, <2>4, <1>6 DEF sizenode, Nodes, sizearray
<1>8. \A j \in Nodes(y) : /\ y.node[j] = FreeNode /\ y.node[j].key = nil /\ y.node[j].val = nil
                          /\ y.node[j].next = NULL
    BY <1>6, <1>7 DEF nd, FreeNode
<1>9. Filled(y) = {} /\ Pairs(y) = {} /\ Names(y) = {}
    BY <1>8 DEF Filled, Pairs, Names
<1>10. Homed(y)
    BY <1>9 DEF Homed
<1>11. Linked(y)
    BY <1>8 DEF Linked
<1>12. Ranked(y)
    <2> DEFINE r == [j \in Nodes(y) |-> 0]
    <2>1. \A k : nil # <<"dead", k>>
        BY DEF nil
    <2>2. IsRank(y, r)
        BY <2>1, <1>8 DEF IsRank
    <2> QED
        BY <2>2 DEF Ranked
<1>13. Single(y)
    BY <1>6, <1>7, <1>9 DEF Single
<1>14. Freed(y)
    <2>1. b => y.node = [i \in 0..0 |-> FreeNode] /\ y.lastfree = 0
        BY <1>4, <1>4a, <1>6 DEF nd
    <2>2. ~b => y.lastfree <= sizenode(y) /\ \A i \in Nodes(y) : ~(i >= y.lastfree)
        BY <1>1, <1>4, <1>6, <1>7
    <2> QED
        BY <2>1, <2>2, <1>6 DEF Freed
<1>15. Sound(y)
    BY <1>6, <1>7, <1>10, <1>11, <1>12, <1>13, <1>14 DEF Sound
<1> QED
    BY <1>1, <1>3, <1>6, <1>7, <1>9, <1>15 DEF Fresh, y, b

-----------------------------------------------------------------------------
(* Moving what is in a table to one of other sizes *)

\* Where the nodes hold no removed keys and fewer keys than there are nodes
\* there is a free one.
LEMMA RoomFor ==
    ASSUME NEW x, Sound(x), ~x.dummy, NEW H \in SUBSET Keys, IsFiniteSet(H),
           Cardinality(H) <= sizenode(x), Names(x) \subseteq H, NEW k \in H, k \notin Names(x)
    PROVE  getfreepos(x) # NULL
<1> SUFFICES ASSUME getfreepos(x) = NULL PROVE FALSE
    OBVIOUS
<1>1. x \in Tables /\ Freed(x) /\ Linked(x) /\ Single(x)
    BY DEF Sound
<1>2. Nodes(x) \subseteq Filled(x) /\ sizenode(x) \in Nat \ {0} /\ Nodes(x) = 0..sizenode(x) - 1
    BY <1>1, GetfreeposFacts, TableFacts
<1> DEFINE A == Nodes(x)
           B == H \ {k}
           f == [i \in A |-> x.node[i].key]
<1>3. IsFiniteSet(A) /\ Cardinality(A) = sizenode(x)
    BY <1>2, FS_Interval DEF sizenode, Nodes
<1>4. IsFiniteSet(B) /\ Cardinality(B) = Cardinality(H) - 1 /\ Cardinality(H) \in Nat
    BY FS_RemoveElement, FS_CardinalityType
<1>5. Cardinality(B) < Cardinality(A)
    BY <1>2, <1>3, <1>4
<1>6. \A i \in A : x.node[i].key \in B
    BY <1>2 DEF Names
<1>7. f \in [A -> B]
    BY <1>6
<1>8. \E i, j \in A : i # j /\ f[i] = f[j]
    <2> HIDE DEF A, B, f
    <2> QED BY <1>3, <1>4, <1>5, <1>7, FS_PigeonHole
<1>9. \A i, j \in A : x.node[i].key = x.node[j].key => i = j
    BY <1>1, <1>2, <1>6 DEF Single
<1> QED
    BY <1>8, <1>9

\* y has the shape of x, and only keys of H in its nodes.
Kept(x, H, y) ==
  /\ Sound(y) /\ sizearray(y) = sizearray(x) /\ Nodes(y) = Nodes(x) /\ y.dummy = x.dummy
  /\ Names(y) \subseteq H

\* The nodes suffice for the keys of H.
Roomy(x, H) == /\ H \in SUBSET Keys /\ IsFiniteSet(H) /\ Cardinality(H) <= sizenode(x)
               /\ x.dummy => H = {}

\* One of these keys gets a place.
LEMMA PlaceFor ==
    ASSUME NEW x, NEW H, Roomy(x, H), NEW y, Kept(x, H, y), NEW k \in Keys, inarray(x, k) \/ k \in H
    PROVE  LET z == add(y, k)
           IN  /\ Kept(x, H, z) /\ has(z, k)
               /\ \A l \in Hashable : luaH_get(z, l) = luaH_get(y, l)
<1> DEFINE z == add(y, k)
<1>1. CASE has(y, k)
    BY <1>1 DEF add
<1>2. CASE ~has(y, k)
    <2>1. sizearray(y) = sizearray(x) /\ Sound(y) /\ Nodes(y) = Nodes(x)
        BY DEF Kept
    <2>2. ~inarray(x, k) /\ k \in H /\ ~inarray(y, k)
        BY <1>2, <2>1 DEF has, inarray
    <2>3. k \notin Names(y)
        <3>1. \A j \in Nodes(y) : y.node[j].key # k
            BY <1>2, <2>1, HasNode
        <3> QED
            BY <3>1 DEF Names, Filled
    <2>4. sizenode(y) = sizenode(x)
        BY <2>1 DEF sizenode, Nodes
    <2>5. getfreepos(y) # NULL
        BY <2>1, <2>2, <2>3, <2>4, RoomFor DEF Kept, Roomy
    <2>6. Inserted(y, k, insert(y, k))
        BY <1>2, <2>1, <2>5, InsertSound DEF Room
    <2> DEFINE w == insert(y, k)
    <2> HIDE DEF w
    <2>7. /\ Sound(w) /\ has(w, k) /\ w.array = y.array /\ Nodes(w) = Nodes(y) /\ w.dummy = y.dummy
          /\ Pairs(w) = Pairs(y) /\ Names(w) \subseteq Names(y) \cup {k}
        BY <2>6 DEF Inserted, w
    <2>8. \A l \in Hashable : luaH_get(w, l) = luaH_get(y, l)
        BY <2>1, <2>7, SameGet
    <2>9. Kept(x, H, w)
        BY <2>2, <2>7 DEF Kept, sizearray
    <2>10. z = w
        BY <1>2 DEF w, add
    <2> QED
        BY <2>7, <2>8, <2>9, <2>10
<1> QED
    BY <1>1, <1>2

\* what reinsert does with one pair
putpair(y, k, v) == IF v = nil THEN y ELSE assign(add(y, k), k, v)

\* It keeps the shape and gives the key the value.
LEMMA PutStep ==
    ASSUME NEW x, NEW H, Roomy(x, H), NEW y, Kept(x, H, y), NEW k, NEW v,
           v # nil => k \in Keys /\ v \in Values /\ (inarray(x, k) \/ k \in H)
    PROVE  /\ Kept(x, H, putpair(y, k, v))
           /\ \A l \in Hashable : luaH_get(putpair(y, k, v), l) = IF l = k /\ v # nil THEN v ELSE luaH_get(y, l)
<1>1. CASE v = nil
    BY <1>1 DEF putpair
<1>2. CASE v # nil
    <2> DEFINE z == add(y, k)
               w == assign(z, k, v)
    <2>1. k \in Keys /\ v \in Values \cup {nil} /\ (inarray(x, k) \/ k \in H)
        BY <1>2
    <2>2. /\ Kept(x, H, z) /\ has(z, k)
          /\ \A l \in Hashable : luaH_get(z, l) = luaH_get(y, l)
        BY <2>1, PlaceFor
    <2>3. putpair(y, k, v) = w
        BY <1>2 DEF putpair
    <2> HIDE DEF z
    <2>4. Assigned(z, k, v, w)
        BY <2>1, <2>2, AssignSound DEF Kept
    <2> HIDE DEF w
    <2>5. /\ Sound(w) /\ sizearray(w) = sizearray(z) /\ Nodes(w) = Nodes(z) /\ w.dummy = z.dummy
          /\ Names(w) = Names(z)
          /\ \A l \in Hashable : luaH_get(w, l) = IF l = k THEN v ELSE luaH_get(z, l)
        BY <2>4 DEF Assigned, Rekeyed
    <2>6. Kept(x, H, w)
        BY <2>2, <2>5 DEF Kept
    <2> QED
        BY <1>2, <2>2, <2>3, <2>5, <2>6
<1> QED
    BY <1>1, <1>2

\* All pairs of s with a value get their places.
LEMMA ReinsertSound ==
    ASSUME NEW x, NEW H, Roomy(x, H), Kept(x, H, x), NEW s, Len(s) \in Nat,
           \A i \in 1..Len(s) : s[i][2] # nil => /\ s[i][1] \in Keys /\ s[i][2] \in Values
                                                 /\ inarray(x, s[i][1]) \/ s[i][1] \in H,
           \A i, j \in 1..Len(s) : s[i][2] # nil /\ s[j][2] # nil /\ s[i][1] = s[j][1] => i = j
    PROVE  /\ Kept(x, H, reinsert(x, s))
           /\ \A i \in 1..Len(s) : s[i][2] # nil => luaH_get(reinsert(x, s), s[i][1]) = s[i][2]
           /\ \A l \in Hashable : (\A i \in 1..Len(s) : s[i][2] # nil => s[i][1] # l)
                                    => luaH_get(reinsert(x, s), l) = luaH_get(x, l)
<1> DEFINE N == Len(s)
           X == {y \in Tables : Kept(x, H, y)}
           Loop(h) == h = [n \in 0..N |-> IF n = 0 THEN x ELSE putpair(h[n - 1], s[n][1], s[n][2])]
           at == CHOOSE h : Loop(h)
<1>1. x \in X /\ \A y : Kept(x, H, y) => y \in X
    BY DEF Kept, Sound
<1>2. \A n \in 1..N, y \in X : putpair(y, s[n][1], s[n][2]) \in X
    BY <1>1, PutStep
<1>3. Loop(at) /\ \A n \in 0..N : at[n] \in X
    <2> DEFINE F == [n \in 1..N |-> [y \in X |-> putpair(y, s[n][1], s[n][2])]]
    <2>1. \A n \in 1..N, y \in X : F[n][y] \in X
        BY <1>2
    <2>2. \A n \in 1..N : \A y \in X : F[n][y] = putpair(y, s[n][1], s[n][2])
        OBVIOUS
    <2> HIDE DEF F, X, N
    <2>3. PICK h : IsLoop(h, N, x, F) /\ \A n \in 0..N : h[n] \in X
        BY <1>1, <2>1, Iterate DEF N
    <2>4. \A n \in 0..N : (IF n = 0 THEN x ELSE F[n][h[n - 1]]) = IF n = 0 THEN x ELSE putpair(h[n - 1], s[n][1], s[n][2])
        <3>1. \A n \in 0..N : n # 0 => n \in 1..N /\ n - 1 \in 0..N
            BY DEF N
        <3> QED
            BY <3>1, <2>2, <2>3
    <2>5. Loop(h)
        BY <2>3, <2>4 DEF IsLoop
    <2>6. Loop(at)
        BY <2>5
    <2> HIDE DEF at
    <2>7. at[0] = x /\ \A n \in 1..N : at[n] = putpair(at[n - 1], s[n][1], s[n][2])
        BY <2>6 DEF N
    <2> DEFINE Good == {n \in 0..N : at[n] \in X}
    <2>8. 0 \in Good /\ \A n \in 1..N : n - 1 \in Good => n \in Good
        BY <2>7, <1>1, <1>2 DEF N
    <2>9. \A n \in 0..N : n \in Good
        <3>1. N \in Nat
            BY DEF N
        <3> HIDE DEF Good
        <3> QED BY <2>8, <3>1, UpTo
    <2> QED
        BY <2>6, <2>9
<1>4. reinsert(x, s) = at[N]
    BY DEF reinsert, putpair
<1> HIDE DEF at
<1>5. at[0] = x /\ \A n \in 1..N : at[n] = putpair(at[n - 1], s[n][1], s[n][2])
    BY <1>3
<1>6. \A n \in 0..N : Kept(x, H, at[n])
    BY <1>3
<1>7. ASSUME NEW n \in 1..N
      PROVE  \A l \in Hashable : luaH_get(at[n], l) = IF l = s[n][1] /\ s[n][2] # nil THEN s[n][2]
                                                      ELSE luaH_get(at[n - 1], l)
    <2>1. n - 1 \in 0..N
        OBVIOUS
    <2>2. Kept(x, H, at[n - 1]) /\ at[n] = putpair(at[n - 1], s[n][1], s[n][2])
        BY <1>5, <1>6, <2>1
    <2> DEFINE y == at[n - 1]
               k == s[n][1]
               v == s[n][2]
    <2>3. v # nil => k \in Keys /\ v \in Values /\ (inarray(x, k) \/ k \in H)
        OBVIOUS
    <2> HIDE DEF y, k, v
    <2>4. \A l \in Hashable : luaH_get(putpair(y, k, v), l) = IF l = k /\ v # nil THEN v ELSE luaH_get(y, l)
        BY <2>2, <2>3, PutStep DEF y
    <2> QED
        BY <2>2, <2>4 DEF y, k, v
<1> DEFINE Good == {n \in 0..N :
             /\ \A i \in 1..n : s[i][2] # nil => luaH_get(at[n], s[i][1]) = s[i][2]
             /\ \A l \in Hashable : (\A i \in 1..n : s[i][2] # nil => s[i][1] # l)
                                      => luaH_get(at[n], l) = luaH_get(x, l)}
<1>8. 0 \in Good
    BY <1>5
<1>9. ASSUME NEW n \in 1..N, n - 1 \in Good
      PROVE  n \in Good
    <2>1. \A i \in 1..n : i = n \/ i \in 1..n - 1
        OBVIOUS
    <2>2. \A i \in 1..n - 1 : i \in 1..N /\ i # n /\ i \in 1..n
        OBVIOUS
    <2>3. ASSUME NEW i \in 1..n, s[i][2] # nil
          PROVE  luaH_get(at[n], s[i][1]) = s[i][2]
        <3>1. s[i][1] \in Hashable /\ i \in 1..N
            BY <2>3 DEF Hashable
        <3>2. CASE i = n
            BY <3>1, <3>2, <2>3, <1>7
        <3>3. CASE i # n
            <4>1. i \in 1..n - 1
                BY <3>3
            <4>2. luaH_get(at[n - 1], s[i][1]) = s[i][2]
                BY <4>1, <2>3, <1>9
            <4>3. s[n][2] # nil => s[i][1] # s[n][1]
                BY <3>1, <3>3, <2>3
            <4> QED
                BY <4>2, <4>3, <3>1, <1>7
        <3> QED
            BY <3>2, <3>3
    <2>4. ASSUME NEW l \in Hashable, \A i \in 1..n : s[i][2] # nil => s[i][1] # l
          PROVE  luaH_get(at[n], l) = luaH_get(x, l)
        <3>1. luaH_get(at[n - 1], l) = luaH_get(x, l)
            BY <2>2, <2>4, <1>9
        <3>2. s[n][2] # nil => s[n][1] # l
            BY <2>4
        <3> QED
            BY <3>1, <3>2, <1>7
    <2> QED
        BY <2>3, <2>4
<1>10. \A n \in 0..N : n \in Good
    <2>1. N \in Nat
        OBVIOUS
    <2> HIDE DEF Good, N
    <2> QED
        BY <1>8, <1>9, <2>1, UpTo
<1>11. N \in Good
    BY <1>10
<1> QED
    BY <1>4, <1>6, <1>11

\* The array keeps what fits.
LEMMA ArrayVector ==
    ASSUME NEW x, Sound(x), NEW n \in Nat
    PROVE  LET y == setarrayvector(x, n)
           IN  /\ Shaped(y) /\ y.ok = TRUE /\ y.array \in Seq(Values \cup {nil}) /\ sizearray(y) = n
               /\ \A i \in 1..n : y.array[i] = IF i <= sizearray(x) THEN x.array[i] ELSE nil
               /\ \A i \in 1..sizearray(y) : y.array[i] # nil => i <= MaxKey
<1> DEFINE a == [i \in 1..n |-> IF i <= Len(x.array) THEN x.array[i] ELSE nil]
           y == setarrayvector(x, n)
<1>1. Shaped(x) /\ x.ok = TRUE /\ x \in Tables /\ Single(x)
    BY TablesByFields DEF Sound
<1>2. y = WithArray(x, a)
    BY DEF setarrayvector, WithArray
<1>3. \A i \in 1..sizearray(x) : x.array[i] \in Values \cup {nil}
    BY <1>1, TableFacts
<1>4. a \in [1..n -> Values \cup {nil}]
    BY <1>3 DEF sizearray
<1>5. a \in Seq(Values \cup {nil}) /\ Len(a) = n
    BY <1>4
<1>6. \A i \in 1..n : a[i] = IF i <= sizearray(x) THEN x.array[i] ELSE nil
    BY DEF sizearray
<1> HIDE DEF a, y
<1>7. /\ Shaped(y) /\ y.array = a /\ y.ok = x.ok
    BY <1>1, <1>2, ArrayChanged
<1>8. \A i \in 1..n : a[i] # nil => i <= MaxKey
    <2>1. sizearray(x) \in Nat
        BY <1>1, TableFacts
    <2> QED
        BY <2>1, <1>1, <1>6 DEF Single
<1> QED
    BY <1>1, <1>5, <1>6, <1>7, <1>8 DEF y, sizearray

\* Resizing keeps what every key has, when the new sizes suffice for the keys.
Resized(x, nasize, nhsize, H, y) ==
  /\ Sound(y) /\ sizearray(y) = nasize /\ Names(y) \subseteq H
  /\ y.dummy = (nhsize = 0) /\ nhsize <= sizenode(y)
  /\ \A l \in Hashable : luaH_get(y, l) = luaH_get(x, l)

\* resize is such a resizing.
LEMMA ResizeSound ==
    ASSUME NEW x, Sound(x), NEW nasize \in Nat, NEW nhsize \in Nat,
           NEW H \in SUBSET Keys, IsFiniteSet(H), Cardinality(H) <= nhsize,
           \A l \in Keys : luaH_get(x, l) # nil => (isint(l) /\ l[2] <= nasize) \/ l \in H
    PROVE  Resized(x, nasize, nhsize, H, resize(x, nasize, nhsize))
<1> DEFINE arr == setarrayvector(x, nasize)
           big == setnodevector(arr, nhsize)
           slice == [i \in 1..sizearray(x) - nasize |-> <<int(nasize + i), x.array[nasize + i]>>]
           mid == IF nasize < sizearray(x) THEN reinsert(big, slice) ELSE big
           nodes == [i \in 1..sizenode(x) |-> <<x.node[sizenode(x) - i].key, x.node[sizenode(x) - i].val>>]
           y == reinsert(mid, nodes)
<1>1. y = resize(x, nasize, nhsize)
    BY DEF resize
<1>2. /\ x \in Tables /\ Single(x) /\ Linked(x)
      /\ sizearray(x) \in Nat /\ sizenode(x) \in Nat \ {0} /\ Nodes(x) = 0..sizenode(x) - 1
      /\ \A i \in 1..sizearray(x) : x.array[i] \in Values \cup {nil} /\ (x.array[i] # nil => i <= MaxKey)
    <2>1. x \in Tables /\ Single(x) /\ Linked(x)
        BY DEF Sound
    <2> QED
        BY <2>1, TableFacts DEF Single
<1>3. /\ Shaped(arr) /\ arr.ok = TRUE /\ arr.array \in Seq(Values \cup {nil}) /\ sizearray(arr) = nasize
      /\ \A i \in 1..nasize : arr.array[i] = IF i <= sizearray(x) THEN x.array[i] ELSE nil
      /\ \A i \in 1..sizearray(arr) : arr.array[i] # nil => i <= MaxKey
    BY ArrayVector
<1> HIDE DEF arr
<1>4. Fresh(arr, nhsize, big)
    BY <1>3, FreshSound
<1> HIDE DEF big
<1>5. /\ Sound(big) /\ sizearray(big) = nasize /\ big.dummy = (nhsize = 0) /\ Names(big) = {} /\ Pairs(big) = {}
      /\ nhsize <= sizenode(big) /\ sizenode(big) \in Nat /\ big.array = arr.array
    <2>1. Sound(big) => sizenode(big) \in Nat
        BY TableFacts DEF Sound
    <2> QED
        BY <2>1, <1>3, <1>4 DEF Fresh, sizearray
<1>6. Roomy(big, H) /\ Kept(big, H, big)
    <2>1. Cardinality(H) \in Nat /\ (Cardinality(H) = 0 => H = {})
        BY FS_CardinalityType, FS_EmptySet
    <2>2. Cardinality(H) <= sizenode(big) /\ (nhsize = 0 => H = {})
        BY <2>1, <1>5
    <2> QED
        BY <2>2, <1>5 DEF Roomy, Kept
<1>7. \A l \in Hashable : luaH_get(big, l) = IF inarray(x, l) /\ l[2] <= nasize THEN x.array[l[2]] ELSE nil
    <2> SUFFICES ASSUME NEW l \in Hashable
                 PROVE  luaH_get(big, l) = IF inarray(x, l) /\ l[2] <= nasize THEN x.array[l[2]] ELSE nil
        OBVIOUS
    <2>1. CASE inarray(big, l)
        <3>1. isint(l) /\ l[2] \in 1..nasize
            BY <2>1, <1>5 DEF inarray
        <3>2. luaH_get(big, l) = IF l[2] <= sizearray(x) THEN x.array[l[2]] ELSE nil
            BY <2>1, <3>1, <1>3, <1>5, GetFacts
        <3>3. inarray(x, l) <=> l[2] <= sizearray(x)
            BY <3>1, <1>2 DEF inarray
        <3> QED
            BY <3>1, <3>2, <3>3
    <2>2. CASE ~inarray(big, l)
        <3>1. luaH_get(big, l) = nil
            BY <2>2, <1>5, GetFacts
        <3>2. ~(inarray(x, l) /\ l[2] <= nasize)
            BY <2>2, <1>2, <1>5 DEF inarray
        <3> QED
            BY <3>1, <3>2
    <2> QED
        BY <2>1, <2>2
<1>8. /\ Kept(big, H, mid)
      /\ \A l \in Hashable : luaH_get(mid, l) = IF inarray(x, l) THEN x.array[l[2]] ELSE nil
    <2>1. CASE ~(nasize < sizearray(x))
        <3>1. \A l : inarray(x, l) => l[2] <= nasize
            BY <2>1, <1>2 DEF inarray
        <3>2. mid = big
            BY <2>1
        <3> QED
            BY <3>1, <3>2, <1>6, <1>7
    <2>2. CASE nasize < sizearray(x)
        <3> DEFINE n == sizearray(x) - nasize
        <3>1. Len(slice) = n /\ n \in Nat
            BY <2>2, <1>2
        <3>2. \A i \in 1..n : slice[i][1] = int(nasize + i) /\ slice[i][2] = x.array[nasize + i]
            BY <3>1
        <3>3. \A i \in 1..n : nasize + i \in 1..sizearray(x) /\ nasize + i \in Nat \ {0}
            BY <1>2
        <3> HIDE DEF n, slice
        <3>4. ASSUME NEW i \in 1..n, slice[i][2] # nil
              PROVE  slice[i][1] \in Keys /\ slice[i][2] \in Values /\ slice[i][1] \in H
            <4> DEFINE j == nasize + i
            <4>1. j \in 1..sizearray(x) /\ j \in Nat \ {0} /\ slice[i][1] = int(j) /\ slice[i][2] = x.array[j]
                BY <3>2, <3>3
            <4>2. ~(j <= nasize)
                BY <3>1
            <4> HIDE DEF j
            <4>3. x.array[j] \in Values /\ j \in 1..MaxKey
                BY <4>1, <3>4, <1>2, IntFacts
            <4>4. int(j) \in Keys /\ int(j) \in Hashable /\ isint(int(j)) /\ int(j)[2] = j
                BY <4>1, <4>3, IntFacts
            <4>5. inarray(x, int(j))
                BY <4>1, <4>4 DEF inarray
            <4>6. luaH_get(x, int(j)) = x.array[j]
                BY <4>4, <4>5 DEF luaH_get
            <4> QED
                BY <4>1, <4>2, <4>3, <4>4, <4>6, <3>4
        <3>5. ASSUME NEW i \in 1..n, NEW j \in 1..n, slice[i][1] = slice[j][1]
              PROVE  i = j
            <4>1. int(nasize + i)[2] = int(nasize + j)[2]
                BY <3>2, <3>5
            <4>2. nasize + i = nasize + j
                BY <4>1, IntFacts
            <4> QED
                BY <4>2
        <3> DEFINE r == reinsert(big, slice)
        <3>6. /\ Kept(big, H, r)
              /\ \A i \in 1..n : slice[i][2] # nil => luaH_get(r, slice[i][1]) = slice[i][2]
              /\ \A l \in Hashable : (\A i \in 1..n : slice[i][2] # nil => slice[i][1] # l)
                                        => luaH_get(r, l) = luaH_get(big, l)
            BY <3>1, <3>4, <3>5, <1>6, ReinsertSound
        <3> HIDE DEF r
        <3>7. ASSUME NEW l \in Hashable
              PROVE  luaH_get(r, l) = IF inarray(x, l) THEN x.array[l[2]] ELSE nil
            <4>1. CASE \E i \in 1..n : slice[i][2] # nil /\ slice[i][1] = l
                <5>1. PICK i \in 1..n : slice[i][2] # nil /\ slice[i][1] = l
                    BY <4>1
                <5>2. luaH_get(r, l) = x.array[nasize + i] /\ l = int(nasize + i)
                    BY <5>1, <3>2, <3>6
                <5>3. isint(l) /\ l[2] = nasize + i /\ nasize + i \in 1..sizearray(x)
                    BY <5>2, <3>3, IntFacts
                <5> QED
                    BY <5>2, <5>3 DEF inarray
            <4>2. CASE ~\E i \in 1..n : slice[i][2] # nil /\ slice[i][1] = l
                <5>1. luaH_get(r, l) = luaH_get(big, l)
                    BY <4>2, <3>6
                <5>2. ASSUME inarray(x, l), ~(l[2] <= nasize)
                      PROVE  x.array[l[2]] = nil
                    <6> DEFINE i == l[2] - nasize
                    <6>1. isint(l) /\ l[2] \in 1..sizearray(x) /\ l = int(l[2])
                        BY <5>2, IntFacts DEF inarray
                    <6>2. i \in 1..n /\ nasize + i = l[2]
                        BY <6>1, <5>2, <1>2 DEF n
                    <6>3. slice[i][1] = l /\ slice[i][2] = x.array[l[2]]
                        BY <6>1, <6>2, <3>2
                    <6> QED
                        BY <6>2, <6>3, <4>2
                <5> QED
                    BY <5>1, <5>2, <1>7
            <4> QED
                BY <4>1, <4>2
        <3>8. mid = r
            BY <2>2 DEF r
        <3> QED
            BY <3>6, <3>7, <3>8
    <2> QED
        BY <2>1, <2>2
<1> HIDE DEF mid
<1>9. /\ Sound(mid) /\ sizearray(mid) = nasize /\ sizenode(mid) = sizenode(big) /\ mid.dummy = big.dummy
      /\ Roomy(mid, H) /\ Kept(mid, H, mid)
    <2>1. sizenode(mid) = sizenode(big)
        BY <1>8 DEF Kept, sizenode, Nodes
    <2> QED
        BY <2>1, <1>5, <1>6, <1>8 DEF Roomy, Kept
<1> DEFINE N == sizenode(x)
<1>10. Len(nodes) = N /\ N \in Nat
    BY <1>2
<1>11. \A i \in 1..N : /\ N - i \in Nodes(x) /\ nodes[i][1] = x.node[N - i].key
                       /\ nodes[i][2] = x.node[N - i].val
    BY <1>2
<1>12. \A j \in Nodes(x) : N - j \in 1..N /\ N - (N - j) = j
    BY <1>2
<1> HIDE DEF nodes, N
<1>13. ASSUME NEW j \in Nodes(x), x.node[j].val # nil
       PROVE  /\ x.node[j].key \in Keys /\ x.node[j].val \in Values /\ j \in Filled(x)
              /\ ~inarray(x, x.node[j].key) /\ luaH_get(x, x.node[j].key) = x.node[j].val
              /\ x.node[j].key \in Hashable
    <2>1. x.node[j].key # nil /\ x.node[j].key[1] # "dead" /\ x.node[j].val \in Values
        <3>1. x.node[j].val \in Values \cup {nil}
            BY <1>2, NodeFacts
        <3>2. x.node[j].key # nil /\ x.node[j].key[1] # "dead"
            BY <1>2, <1>13 DEF Linked, FreeNode
        <3> QED
            BY <3>1, <3>2, <1>13
    <2>2. j \in Filled(x)
        BY <2>1 DEF Filled
    <2>3. x.node[j].key \in Keys /\ ~inarray(x, x.node[j].key) /\ x.node[j].key \in Hashable
        BY <2>1, <2>2, <1>2, OrigFacts DEF Single, Hashable
    <2>4. <<x.node[j].key, x.node[j].val>> \in Pairs(x)
        BY <1>13 DEF Pairs
    <2>5. luaH_get(x, x.node[j].key) = x.node[j].val
        BY <2>3, <2>4, <1>13, GetFacts
    <2> QED
        BY <2>1, <2>2, <2>3, <2>5
<1>14. ASSUME NEW i \in 1..N, nodes[i][2] # nil
       PROVE  nodes[i][1] \in Keys /\ nodes[i][2] \in Values /\ (inarray(mid, nodes[i][1]) \/ nodes[i][1] \in H)
    <2> DEFINE l == nodes[i][1]
    <2>1. l \in Keys /\ nodes[i][2] \in Values /\ luaH_get(x, l) # nil
        BY <1>11, <1>13, <1>14
    <2> HIDE DEF l
    <2>2. (isint(l) /\ l[2] <= nasize) \/ l \in H
        BY <2>1
    <2>3. isint(l) => l[2] \in 1..MaxKey
        BY <2>1, IntFacts
    <2>4. isint(l) /\ l[2] <= nasize => inarray(mid, l)
        BY <2>3, <1>9, IntFacts DEF inarray
    <2>5. inarray(mid, l) \/ l \in H
        BY <2>2, <2>4
    <2> QED
        BY <2>1, <2>5 DEF l
<1>15. ASSUME NEW i \in 1..N, NEW j \in 1..N, nodes[i][2] # nil, nodes[j][2] # nil, nodes[i][1] = nodes[j][1]
       PROVE  i = j
    <2>1. N - i = N - j
        BY <1>2, <1>11, <1>13, <1>15 DEF Single
    <2> QED
        BY <2>1, <1>10
<1>16. /\ Kept(mid, H, y)
       /\ \A i \in 1..N : nodes[i][2] # nil => luaH_get(y, nodes[i][1]) = nodes[i][2]
       /\ \A l \in Hashable : (\A i \in 1..N : nodes[i][2] # nil => nodes[i][1] # l)
                                => luaH_get(y, l) = luaH_get(mid, l)
    BY <1>9, <1>10, <1>14, <1>15, ReinsertSound
<1> HIDE DEF y
<1>17. ASSUME NEW l \in Hashable
       PROVE  luaH_get(y, l) = luaH_get(x, l)
    <2>1. CASE \E i \in 1..N : nodes[i][2] # nil /\ nodes[i][1] = l
        <3>1. PICK i \in 1..N : nodes[i][2] # nil /\ nodes[i][1] = l
            BY <2>1
        <3>2. luaH_get(x, l) = nodes[i][2]
            BY <3>1, <1>11, <1>13
        <3> QED
            BY <3>1, <3>2, <1>16
    <2>2. CASE ~\E i \in 1..N : nodes[i][2] # nil /\ nodes[i][1] = l
        <3>1. luaH_get(y, l) = IF inarray(x, l) THEN x.array[l[2]] ELSE nil
            BY <2>2, <1>8, <1>16
        <3>2. ASSUME ~inarray(x, l)
              PROVE  luaH_get(x, l) = nil
            <4> SUFFICES ASSUME luaH_get(x, l) # nil PROVE FALSE
                OBVIOUS
            <4>1. <<l, luaH_get(x, l)>> \in Pairs(x)
                BY <3>2, GetFacts
            <4>2. PICK j \in Nodes(x) : x.node[j].key = l /\ x.node[j].val # nil
                BY <4>1 DEF Pairs
            <4> QED
                BY <4>2, <2>2, <1>11, <1>12
        <3> QED
            BY <3>1, <3>2, GetFacts
    <2> QED
        BY <2>1, <2>2
<1>18. /\ Sound(y) /\ sizearray(y) = nasize /\ Names(y) \subseteq H
       /\ y.dummy = (nhsize = 0) /\ nhsize <= sizenode(y)
    <2>1. sizenode(y) = sizenode(mid)
        BY <1>16 DEF Kept, sizenode, Nodes
    <2> QED
        BY <2>1, <1>5, <1>9, <1>16 DEF Kept
<1> QED
    BY <1>1, <1>17, <1>18 DEF Resized

-----------------------------------------------------------------------------
(* Rehashing, and assigning to any key *)

\* A set of numbers up to N has a greatest one.
LEMMA NatGreatest ==
    ASSUME NEW N \in Nat, NEW T \in SUBSET (0..N), T # {}
    PROVE  \E n \in T : \A k \in T : k <= n
<1> DEFINE U == {N - i : i \in T}
<1>1. U \in SUBSET Nat /\ U # {}
    <2>1. \A i \in T : N - i \in Nat
        OBVIOUS
    <2>2. PICK i \in T : TRUE
        OBVIOUS
    <2>3. N - i \in U
        OBVIOUS
    <2> QED
        BY <2>1, <2>3
<1>2. \E m \in U : \A k \in U : m <= k
    <2> HIDE DEF U
    <2> QED BY <1>1, NatLess
<1>3. PICK m \in U : \A k \in U : m <= k
    BY <1>2
<1>4. PICK i \in T : m = N - i
    BY <1>3
<1>5. ASSUME NEW j \in T
      PROVE  j <= i
    <2>1. N - j \in U
        OBVIOUS
    <2>2. m <= N - j
        BY <1>3, <2>1
    <2> QED
        BY <1>4, <2>2
<1> HIDE DEF U
<1> QED
    BY <1>5

\* More than half of an array of the size that computesizes finds is in use.
LEMMA SizesFacts ==
    ASSUME NEW ks \in SUBSET (Nat \ {0}), IsFiniteSet(ks)
    PROVE  LET c == computesizes(ks)
           IN  /\ c.n \in Nat /\ c.na = Cardinality({k \in ks : k <= c.n}) /\ c.na \in Nat
               /\ c.n \div 2 <= c.na /\ c.na <= c.n
               /\ c.n # 0 => 2 * c.na > c.n
<1> DEFINE upto(n) == Cardinality({k \in ks : k <= n})
           fit == {e \in 0..MaxKey : /\ twoto(e) \div 2 < Cardinality(ks)
                                     /\ \E k \in ks : ceillog2(k) = e
                                     /\ upto(twoto(e)) > twoto(e) \div 2}
           best == CHOOSE e \in fit : \A g \in fit : g <= e
           n == IF fit = {} THEN 0 ELSE twoto(best)
           c == computesizes(ks)
<1>1. c = [n |-> n, na |-> upto(n)]
    BY DEF computesizes
<1>2. fit # {} => best \in fit
    <2> SUFFICES ASSUME fit # {} PROVE best \in fit
        OBVIOUS
    <2>1. fit \in SUBSET (0..MaxKey) /\ MaxKey \in Nat
        BY KeysAssumption
    <2>2. \E e \in fit : \A g \in fit : g <= e
        <3> HIDE DEF fit
        <3> QED BY <2>1, NatGreatest
    <2> HIDE DEF fit
    <2> QED
        BY <2>2
<1>3. fit # {} => /\ n = twoto(best) /\ n \in Nat \ {0} /\ upto(n) > n \div 2
    <2> SUFFICES ASSUME fit # {} PROVE n = twoto(best) /\ n \in Nat \ {0} /\ upto(n) > n \div 2
        OBVIOUS
    <2>1. best \in 0..MaxKey /\ upto(twoto(best)) > twoto(best) \div 2
        BY <1>2
    <2> HIDE DEF best, fit
    <2>2. best \in Nat
        BY <2>1, IntFacts
    <2>3. twoto(best) \in Nat \ {0}
        BY <2>2, TwotoStep
    <2>4. n = twoto(best)
        OBVIOUS
    <2> HIDE DEF n
    <2> QED
        BY <2>1, <2>3, <2>4
<1>4. fit = {} => n = 0
    OBVIOUS
<1> HIDE DEF fit, best, n
<1>5. n \in Nat
    BY <1>3, <1>4
<1> DEFINE A == {k \in ks : k <= n}
<1>6. IsFiniteSet(A) /\ Cardinality(A) \in Nat
    BY FS_Subset, FS_CardinalityType
<1>7. Cardinality(A) <= n
    <2> DEFINE B == 1..n
    <2>1. IsFiniteSet(B) /\ Cardinality(B) = n
        BY <1>5, FS_Interval
    <2>2. A \in SUBSET B
        <3>1. ASSUME NEW k \in ks, k <= n
              PROVE  k \in 1..n
            <4>1. k \in Nat /\ k # 0
                OBVIOUS
            <4> QED
                BY <4>1, <3>1, <1>5
        <3> QED
            BY <3>1
    <2>3. Cardinality(A) <= Cardinality(B)
        <3> HIDE DEF A, B
        <3> QED BY <2>1, <2>2, FS_Subset
    <2> QED
        BY <2>1, <2>3
<1>8. upto(n) = Cardinality(A)
    OBVIOUS
<1>9. n # 0 => Cardinality(A) > n \div 2
    BY <1>3, <1>4, <1>8
<1> HIDE DEF A
<1>10. n \div 2 <= Cardinality(A) /\ (n # 0 => 2 * Cardinality(A) > n)
    <2>1. CASE n = 0
        BY <2>1, <1>6
    <2>2. CASE n # 0
        BY <2>2, <1>5, <1>6, <1>9
    <2> QED
        BY <2>1, <2>2
<1>11. c.n = n /\ c.na = Cardinality(A)
    BY <1>1, <1>8
<1>12. A = {k \in ks : k <= n}
    BY DEF A
<1> HIDE DEF c
<1>13. /\ c.n \in Nat /\ c.na = Cardinality({k \in ks : k <= c.n}) /\ c.na \in Nat
       /\ c.n \div 2 <= c.na /\ c.na <= c.n
       /\ c.n # 0 => 2 * c.na > c.n
    BY <1>5, <1>6, <1>7, <1>10, <1>11, <1>12
<1> QED
    BY <1>13 DEF c

\* A set of numbers and the set of their integer keys are of one size.
LEMMA IntsCardinality ==
    ASSUME NEW S \in SUBSET Nat, IsFiniteSet(S)
    PROVE  LET T == {int(i) : i \in S} IN IsFiniteSet(T) /\ Cardinality(T) = Cardinality(S)
<1> DEFINE T == {int(i) : i \in S}
           f == [i \in S |-> int(i)]
<1>1. f \in [S -> T]
    OBVIOUS
<1>2. \A i, j \in S : f[i] = f[j] => i = j
    BY DEF int
<1>3. \A l \in T : \E i \in S : f[i] = l
    OBVIOUS
<1>4. f \in Bijection(S, T)
    <2> HIDE DEF f, T
    <2> QED BY <1>1, <1>2, <1>3 DEF Bijection, Injection, Surjection, IsInjective
<1>5. ExistsBijection(S, T)
    <2> HIDE DEF f, T
    <2> QED BY <1>4 DEF ExistsBijection
<1> HIDE DEF T
<1>6. IsFiniteSet(T) /\ Cardinality(T) = Cardinality(S)
    BY <1>5, FS_Bijection
<1> QED
    BY <1>6 DEF T

\* More than half of the integers up to n are keys of x, or k.
Halffor(x, k, n) == n = 0 \/ 2 * Cardinality({i \in 1..n : luaH_get(x, int(i)) # nil \/ int(i) = k}) > n

\* A rehash makes a table of what x has, with nodes for the new key.
Rehashed(x, k, y) ==
  /\ Halffor(x, k, sizearray(y))
  /\ Sound(y) /\ \A l \in Hashable : luaH_get(y, l) = luaH_get(x, l)
  /\ ~has(y, k) => getfreepos(y) # NULL

\* rehash is such a rehash.
LEMMA RehashSound ==
    ASSUME NEW x, Sound(x), NEW k \in Keys, ~has(x, k)
    PROVE  Rehashed(x, k, rehash(x, k))
<1> DEFINE a == {i \in 1..sizearray(x) : x.array[i] # nil}
           live == {j \in Nodes(x) : x.node[j].val # nil}
           h == {x.node[j].key : j \in live}
           ints == a \cup {l[2] : l \in {l \in h \cup {k} : isint(l) /\ l[2] > 0}}
           c == computesizes(ints)
           total == Cardinality(a) + Cardinality(h) + 1
           r == rehash(x, k)
<1>1. r = resize(lua_assert(x, c.n \div 2 <= c.na /\ c.na <= c.n), c.n, total - c.na)
    BY DEF rehash, Used, Nodes
<1>2. /\ x \in Tables /\ Single(x) /\ Linked(x) /\ x.ok = TRUE /\ Shaped(x)
      /\ sizearray(x) \in Nat /\ sizenode(x) \in Nat /\ Nodes(x) = 0..sizenode(x) - 1
    <2>1. x \in Tables /\ Single(x) /\ Linked(x) /\ x.ok = TRUE
        BY TablesByFields DEF Sound
    <2> QED
        BY <2>1, TableFacts, TablesByFields
<1>3. h \in SUBSET Keys
    <2> SUFFICES ASSUME NEW j \in Nodes(x), x.node[j].val # nil
                 PROVE  x.node[j].key \in Keys
        OBVIOUS
    <2>1. x.node[j].key # nil /\ x.node[j].key[1] # "dead"
        BY <1>2 DEF Linked, FreeNode
    <2> QED
        BY <2>1, <1>2, OrigFacts DEF Filled
<1>4. IsFiniteSet(a) /\ a \in SUBSET (Nat \ {0}) /\ \A i \in a : i \in 1..MaxKey
    <2>1. IsFiniteSet(1..sizearray(x))
        BY <1>2, FS_Interval
    <2>2. a \in SUBSET (1..sizearray(x))
        OBVIOUS
    <2>3. IsFiniteSet(a)
        <3> HIDE DEF a
        <3> QED BY <2>1, <2>2, FS_Subset
    <2>4. \A i \in a : i \in Nat /\ i # 0 /\ i \in 1..MaxKey
        BY <1>2, IntFacts DEF Single
    <2> QED
        BY <2>3, <2>4
<1>5. IsFiniteSet(h)
    <2> DEFINE f == [j \in live |-> x.node[j].key]
    <2>1. IsFiniteSet(Nodes(x))
        BY <1>2, FS_Interval
    <2>2. live \in SUBSET Nodes(x)
        OBVIOUS
    <2>3. f \in [live -> h] /\ \A l \in h : \E j \in live : f[j] = l
        OBVIOUS
    <2> HIDE DEF live, h, f
    <2>4. IsFiniteSet(live)
        BY <2>1, <2>2, FS_Subset
    <2>5. f \in Surjection(live, h)
        BY <2>3 DEF Surjection
    <2> QED
        BY <2>4, <2>5, FS_Surjection
<1>6. ints \in SUBSET (1..MaxKey) /\ ints \in SUBSET (Nat \ {0}) /\ IsFiniteSet(ints) /\ ints \in SUBSET Nat
    <2>1. ints \in SUBSET (1..MaxKey)
        <3> SUFFICES ASSUME NEW i \in ints PROVE i \in 1..MaxKey
            OBVIOUS
        <3>1. CASE i \in a
            BY <3>1, <1>4
        <3>2. CASE i \notin a
            <4>1. PICK l \in h \cup {k} : isint(l) /\ i = l[2]
                BY <3>2
            <4> HIDE DEF h
            <4>2. l \in Keys
                BY <1>3
            <4> QED
                BY <4>1, <4>2, IntFacts
        <3> QED
            BY <3>1, <3>2
    <2> HIDE DEF ints
    <2>2. \A i \in ints : i \in Nat /\ i # 0
        BY <2>1, IntFacts
    <2>3. IsFiniteSet(1..MaxKey)
        BY IntFacts, FS_Interval
    <2> QED
        BY <2>1, <2>2, <2>3, FS_Subset
<1> DEFINE ia == {int(i) : i \in a}
           K == (ia \cup h) \cup {k}
<1>7. /\ \A i \in ints : int(i) \in K
      /\ \A i \in a : i \in ints
      /\ \A l \in h \cup {k} : isint(l) => l[2] \in ints
    <2>1. ASSUME NEW i \in ints
          PROVE  int(i) \in K
        <3>1. CASE i \in a
            BY <3>1
        <3>2. CASE i \notin a
            <4>1. PICK l \in h \cup {k} : isint(l) /\ i = l[2]
                BY <3>2
            <4> HIDE DEF h
            <4>2. l \in Keys /\ l \in Hashable
                BY <1>3 DEF Hashable
            <4>3. l = int(i)
                BY <4>1, <4>2, IntFacts
            <4> QED
                BY <4>3
        <3> QED
            BY <3>1, <3>2
    <2>2. ASSUME NEW l \in h \cup {k}, isint(l)
          PROVE  l[2] \in ints
        <3>1. l \in Keys
            <4> HIDE DEF h
            <4> QED BY <1>3
        <3>2. l[2] > 0
            BY <3>1, <2>2, IntFacts
        <3> QED
            BY <3>2, <2>2
    <2> QED
        BY <2>1, <2>2
<1>8. K \in SUBSET Keys
    <2>1. \A i \in a : int(i) \in Keys
        BY <1>4, IntFacts
    <2> QED
        BY <2>1, <1>3
<1> HIDE DEF a, h, ints
<1>9. IsFiniteSet(ia) /\ Cardinality(ia) = Cardinality(a)
    <2>1. a \in SUBSET Nat
        BY <1>4
    <2> QED
        BY <2>1, <1>4, IntsCardinality
<1> HIDE DEF ia
<1>10. IsFiniteSet(K) /\ Cardinality(K) \in Nat /\ Cardinality(K) <= total
       /\ total \in Nat
    <2>1. /\ IsFiniteSet(ia \cup h) /\ Cardinality(ia \cup h) = Cardinality(ia) + Cardinality(h) - Cardinality(ia \cap h)
        BY <1>5, <1>9, FS_Union
    <2>2. Cardinality(ia \cap h) \in Nat /\ Cardinality(ia) \in Nat /\ Cardinality(h) \in Nat
        BY <1>5, <1>9, FS_Intersection, FS_CardinalityType
    <2>3. /\ IsFiniteSet(K) /\ Cardinality(K) = IF k \in ia \cup h THEN Cardinality(ia \cup h) ELSE Cardinality(ia \cup h) + 1
        BY <2>1, FS_AddElement
    <2>4. Cardinality(ia \cup h) \in Nat
        BY <2>1, FS_CardinalityType
    <2> HIDE DEF K
    <2> QED
        BY <2>1, <2>2, <2>3, <2>4, <1>9
<1>11. /\ c.n \in Nat /\ c.na = Cardinality({i \in ints : i <= c.n}) /\ c.na \in Nat
       /\ c.n \div 2 <= c.na /\ c.na <= c.n
       /\ c.n # 0 => 2 * c.na > c.n
    BY <1>6, SizesFacts
<1> DEFINE n == c.n
           na == c.na
           low == {i \in ints : i <= n}
           il == {int(i) : i \in low}
           H == K \ il
<1>12. r = resize(x, n, total - na)
    <2>1. (c.n \div 2 <= c.na /\ c.na <= c.n) = TRUE
        <3> HIDE DEF c
        <3> QED BY <1>11
    <2> HIDE DEF c, r, total
    <2>2. lua_assert(x, c.n \div 2 <= c.na /\ c.na <= c.n) = x
        BY <2>1, <1>2, AssertHolds
    <2> QED
        BY <2>2, <1>1
<1> HIDE DEF c, K, total, r
<1>13. IsFiniteSet(il) /\ Cardinality(il) = na /\ il \in SUBSET K
    <2>1. low \in SUBSET ints
        OBVIOUS
    <2>2. IsFiniteSet(low) /\ low \in SUBSET Nat
        BY <2>1, <1>6, FS_Subset
    <2>3. na = Cardinality(low)
        BY <1>11
    <2>4. il \in SUBSET K
        BY <1>7
    <2>5. IsFiniteSet(il) /\ Cardinality(il) = Cardinality(low)
        <3> HIDE DEF low
        <3> QED BY <2>2, IntsCardinality
    <2> QED
        BY <2>3, <2>4, <2>5
<1>14. low = {i \in ints : i <= n} /\ il = {int(i) : i \in low}
    OBVIOUS
<1> HIDE DEF n, na, low, il
<1>15. /\ n \in Nat /\ na \in Nat
       /\ IsFiniteSet(H) /\ Cardinality(H) = Cardinality(K) - na /\ Cardinality(H) \in Nat
    <2>1. IsFiniteSet(H) /\ Cardinality(H) = Cardinality(K) - Cardinality(K \cap il)
        BY <1>10, FS_Difference
    <2>2. K \cap il = il
        BY <1>13
    <2>3. Cardinality(H) \in Nat
        BY <2>1, FS_CardinalityType
    <2> QED
        BY <2>1, <2>2, <2>3, <1>11, <1>13 DEF n, na
<1> DEFINE m == total - na
<1>16. m \in Nat /\ Cardinality(H) <= m /\ H \in SUBSET Keys
    <2>1. H \in SUBSET Keys
        BY <1>8 DEF K
    <2> HIDE DEF H
    <2> QED
        BY <2>1, <1>10, <1>15
<1>17. \A l \in K : (isint(l) /\ l[2] <= n) \/ l \in H
    <2> SUFFICES ASSUME NEW l \in K, l \in il PROVE isint(l) /\ l[2] <= n
        OBVIOUS
    <2>1. PICK i \in low : l = int(i)
        BY <1>14
    <2> QED
        BY <2>1, <1>14, IntFacts
<1> HIDE DEF H, m
<1>18. ASSUME NEW l \in Keys, luaH_get(x, l) # nil
       PROVE  l \in K
    <2>0. l \in Hashable
        BY DEF Hashable
    <2>1. CASE inarray(x, l)
        <3>1. isint(l) /\ l[2] \in 1..sizearray(x) /\ x.array[l[2]] # nil
            BY <2>1, <1>18 DEF inarray, luaH_get
        <3>2. l = int(l[2]) /\ l[2] \in a
            BY <3>1, <2>0, IntFacts DEF a
        <3> QED
            BY <3>2 DEF K, ia
    <2>2. CASE ~inarray(x, l)
        <3>1. <<l, luaH_get(x, l)>> \in Pairs(x)
            BY <2>0, <2>2, <1>18, GetFacts
        <3>2. l \in h
            BY <3>1 DEF Pairs, h
        <3> QED
            BY <3>2 DEF K
    <2> QED
        BY <2>1, <2>2
<1>19. Resized(x, n, m, H, r)
    <2>1. \A l \in Keys : luaH_get(x, l) # nil => (isint(l) /\ l[2] <= n) \/ l \in H
        BY <1>17, <1>18
    <2>2. r = resize(x, n, m)
        BY <1>12 DEF n, na, m
    <2>3. Resized(x, n, m, H, resize(x, n, m))
        BY <2>1, <1>15, <1>16, ResizeSound
    <2> QED
        BY <2>2, <2>3
<1>20. ~has(r, k) => getfreepos(r) # NULL
    <2> SUFFICES ASSUME ~has(r, k) PROVE getfreepos(r) # NULL
        OBVIOUS
    <2>1. Sound(r) /\ sizearray(r) = n /\ Names(r) \subseteq H /\ r.dummy = (m = 0) /\ m <= sizenode(r)
        BY <1>19 DEF Resized
    <2>2. k \notin Names(r)
        <3>1. \A j \in Nodes(r) : r.node[j].key # k
            BY <2>1, HasNode
        <3> QED
            BY <3>1 DEF Names, Filled
    <2>3. k \in H
        <3>1. k \in K
            BY DEF K
        <3>2. isint(k) /\ k[2] <= n => inarray(r, k)
            BY <2>1, <1>15, IntFacts DEF inarray
        <3> QED
            BY <3>1, <3>2, <1>17 DEF has
    <2>4. ~r.dummy /\ Cardinality(H) <= sizenode(r)
        <3>1. Cardinality(H) # 0
            BY <2>3, <1>15, FS_EmptySet
        <3>2. sizenode(r) \in Nat
            BY <2>1, TableFacts DEF Sound
        <3>3. Cardinality(H) <= sizenode(r)
            <4>1. m <= sizenode(r)
                BY <2>1
            <4> QED
                BY <4>1, <3>2, <1>15, <1>16
        <3>4. ~(m = 0)
            BY <3>1, <1>15, <1>16
        <3>5. ~r.dummy
            <4>1. r.dummy = (m = 0)
                BY <2>1
            <4> QED
                BY <3>4, <4>1
        <3> QED
            BY <3>3, <3>5
    <2> QED
        BY <2>1, <2>2, <2>3, <2>4, <1>15, <1>16, RoomFor
<1>21. ASSUME NEW i \in Nat \ {0}
       PROVE  i \in ints <=> luaH_get(x, int(i)) # nil \/ int(i) = k
    <2>0. int(i) \in Hashable /\ isint(int(i)) /\ int(i)[2] = i
        BY IntFacts
    <2>1. CASE int(i) = k
        BY <2>0, <2>1, <1>7
    <2>2. ASSUME luaH_get(x, int(i)) # nil
          PROVE  i \in ints
        <3>1. int(i) \in K
            BY <2>0, <2>2, <1>18, GetFacts
        <3>2. int(i) \in ia => i \in a
            BY IntFacts DEF ia
        <3> QED
            BY <2>0, <3>1, <3>2, <1>7 DEF K
    <2>3. ASSUME i \in ints, int(i) # k
          PROVE  luaH_get(x, int(i)) # nil
        <3>1. int(i) \in ia \/ int(i) \in h
            BY <2>3, <1>7 DEF K
        <3>2. CASE int(i) \in ia
            <4>1. i \in 1..sizearray(x) /\ x.array[i] # nil
                BY <3>2, IntFacts DEF ia, a
            <4> QED
                BY <2>0, <4>1, GetFacts DEF inarray
        <3>3. CASE int(i) \in h
            <4>1. PICK j \in Nodes(x) : x.node[j].val # nil /\ x.node[j].key = int(i)
                BY <3>3 DEF h
            <4> DEFINE v == x.node[j].val
            <4>2. j \in Filled(x) /\ <<int(i), v>> \in Pairs(x) /\ v # nil
                BY <2>0, <4>1, NilFacts DEF Filled, Pairs
            <4>3. ~inarray(x, int(i))
                BY <4>1, <4>2, <1>2 DEF Single
            <4> HIDE DEF v
            <4>4. luaH_get(x, int(i)) = v
                BY <2>0, <4>2, <4>3, GetFacts
            <4> QED
                BY <4>2, <4>4
        <3> QED
            BY <3>1, <3>2, <3>3
    <2> QED
        BY <2>1, <2>2, <2>3
<1>22. Halffor(x, k, n)
    <2>1. low = {i \in 1..n : luaH_get(x, int(i)) # nil \/ int(i) = k}
        <3>1. \A i : i \in low <=> i \in ints /\ i <= n
            BY <1>14
        <3>2. \A i \in ints : i \in Nat \ {0}
            BY <1>6
        <3>3. \A i \in ints : i <= n => i \in 1..n
            BY <3>2, <1>15
        <3>4. \A i \in 1..n : i \in Nat \ {0} /\ i <= n
            BY <1>15
        <3>5. \A i : i \in low <=> i \in 1..n /\ (luaH_get(x, int(i)) # nil \/ int(i) = k)
            BY <3>1, <3>2, <3>3, <3>4, <1>21
        <3> QED
            BY <3>5
    <2>2. n = 0 \/ 2 * Cardinality(low) > n
        BY <1>11 DEF n, na, low
    <2> QED
        BY <2>1, <2>2 DEF Halffor
<1>23. Rehashed(x, k, r)
    BY <1>19, <1>20, <1>22 DEF Rehashed, Resized
<1> QED
    BY <1>23 DEF r

\* luaH_set gives a key a place, and changes what no key has.
LEMMA SetSound ==
    ASSUME NEW x, Sound(x), NEW k \in Keys
    PROVE  LET y == luaH_set(x, k)
           IN  /\ Sound(y) /\ has(y, k) /\ \A l \in Hashable : luaH_get(y, l) = luaH_get(x, l)
               /\ sizearray(y) = sizearray(x) \/ Halffor(x, k, sizearray(y))
<1>1. ASSUME NEW z, Sound(z), ~has(z, k), Room(z, k)
      PROVE  /\ Sound(insert(z, k)) /\ has(insert(z, k), k)
             /\ \A l \in Hashable : luaH_get(insert(z, k), l) = luaH_get(z, l)
             /\ sizearray(insert(z, k)) = sizearray(z)
    <2> DEFINE w == insert(z, k)
    <2>1. Inserted(z, k, w)
        BY <1>1, InsertSound
    <2> HIDE DEF w
    <2>2. Sound(w) /\ has(w, k) /\ w.array = z.array /\ Pairs(w) = Pairs(z)
        BY <2>1 DEF Inserted
    <2>3. \A l \in Hashable : luaH_get(w, l) = luaH_get(z, l)
        BY <2>2, <1>1, SameGet
    <2> QED
        BY <2>2, <2>3 DEF w, sizearray
<1>2. CASE has(x, k)
    BY <1>2 DEF luaH_set
<1>3. CASE ~has(x, k)
    <2>1. luaH_set(x, k) = newkey(x, k)
        BY <1>3 DEF luaH_set
    <2>2. CASE Room(x, k)
        <3>1. newkey(x, k) = insert(x, k)
            BY <2>2 DEF newkey, Room
        <3> QED
            BY <3>1, <2>1, <2>2, <1>1, <1>3
    <2>3. CASE ~Room(x, k)
        <3> DEFINE r == rehash(x, k)
        <3>1. newkey(x, k) = IF has(r, k) THEN r ELSE insert(r, k)
            BY <2>3 DEF newkey, Room, add
        <3>2. Rehashed(x, k, r)
            BY <1>3, RehashSound
        <3> HIDE DEF r
        <3>3. CASE has(r, k)
            BY <3>1, <3>2, <3>3, <2>1 DEF Rehashed
        <3>4. CASE ~has(r, k)
            <4>1. /\ Sound(r) /\ Room(r, k) /\ \A l \in Hashable : luaH_get(r, l) = luaH_get(x, l)
                  /\ Halffor(x, k, sizearray(r))
                BY <3>2, <3>4 DEF Rehashed, Room
            <4>2. newkey(x, k) = insert(r, k)
                BY <3>1, <3>4
            <4> QED
                BY <4>1, <4>2, <3>4, <2>1, <1>1
        <3> QED
            BY <3>3, <3>4
    <2> QED
        BY <2>2, <2>3
<1> QED
    BY <1>2, <1>3

\* An assignment to any key.
Gave(x, k, v, y) == Sound(y) /\ \A l \in Hashable : luaH_get(y, l) = IF l = k THEN v ELSE luaH_get(x, l)

\* Put is such an assignment.
LEMMA PutSound ==
    ASSUME NEW x, Sound(x), NEW k \in Keys, NEW v \in Values \cup {nil}
    PROVE  Gave(x, k, v, Put(x, k, v))
<1> DEFINE z == luaH_set(x, k)
<1>1. Sound(z) /\ has(z, k) /\ \A l \in Hashable : luaH_get(z, l) = luaH_get(x, l)
    BY SetSound
<1>2. Put(x, k, v) = assign(z, k, v)
    BY DEF Put
<1> HIDE DEF z
<1>3. Assigned(z, k, v, assign(z, k, v))
    BY <1>1, AssignSound
<1> QED
    BY <1>1, <1>2, <1>3 DEF Assigned, Gave

\* More than half of the array is in use; when the array of x gets another size
\* or when it is so already, it is so in y.
Half(y)     == sizearray(y) = 0 \/ 2 * Cardinality({i \in 1..sizearray(y) : y.array[i] # nil}) > sizearray(y)
Grown(x, y) == (sizearray(y) = sizearray(x) \/ Half(y)) /\ (Half(x) => Half(y))

\* An assignment of a value does this.
LEMMA PutGrown ==
    ASSUME NEW x, Sound(x), NEW k \in Keys, NEW v \in Values
    PROVE  Grown(x, Put(x, k, v))
<1> DEFINE y == Put(x, k, v)
           z == luaH_set(x, k)
           a == {i \in 1..sizearray(x) : x.array[i] # nil}
           b == {i \in 1..sizearray(y) : y.array[i] # nil}
<1>1. v # nil /\ Gave(x, k, v, y) /\ Sound(y) /\ x \in Tables /\ sizearray(x) \in Nat /\ sizearray(y) \in Nat
    <2>1. v # nil /\ Gave(x, k, v, y)
        BY NilFacts, PutSound
    <2>2. Sound(y)
        BY <2>1 DEF Gave
    <2> HIDE DEF y
    <2> QED
        BY <2>1, <2>2, TableFacts DEF Sound
<1>2. /\ sizearray(z) = sizearray(x) \/ Halffor(x, k, sizearray(z))
      /\ sizearray(y) = sizearray(z)
    <2>1. /\ sizearray(z) = sizearray(x) \/ Halffor(x, k, sizearray(z))
          /\ Sound(z) /\ has(z, k)
        BY SetSound
    <2>2. y = assign(z, k, v)
        BY DEF Put
    <2> HIDE DEF y, z
    <2>3. Assigned(z, k, v, y)
        BY <2>1, <2>2, AssignSound
    <2> QED
        BY <2>1, <2>3 DEF Assigned, Rekeyed
<1> HIDE DEF y, z
<1>3. ASSUME NEW i \in 1..sizearray(y)
      PROVE  y.array[i] # nil <=> luaH_get(x, int(i)) # nil \/ int(i) = k
    <2>1. i \in Nat \ {0}
        BY <1>1
    <2>2. int(i) \in Hashable /\ inarray(y, int(i)) /\ int(i)[2] = i
        BY <2>1, IntFacts DEF inarray
    <2>3. y.array[i] = luaH_get(y, int(i))
        BY <2>2, <1>1, GetFacts
    <2> QED
        BY <2>2, <2>3, <1>1 DEF Gave
<1>4. Halffor(x, k, sizearray(y)) => Half(y)
    <2>1. {i \in 1..sizearray(y) : luaH_get(x, int(i)) # nil \/ int(i) = k} = b
        BY <1>3
    <2> QED
        BY <2>1 DEF Halffor, Half
<1>5. ASSUME sizearray(y) = sizearray(x), Half(x)
      PROVE  Half(y)
    <2>1. a \subseteq b
        <3> SUFFICES ASSUME NEW i \in a PROVE i \in b
            OBVIOUS
        <3>1. i \in 1..sizearray(x) /\ x.array[i] # nil /\ i \in Nat \ {0}
            BY <1>1
        <3>2. int(i) \in Hashable /\ inarray(x, int(i)) /\ int(i)[2] = i
            BY <3>1, IntFacts DEF inarray
        <3>3. x.array[i] = luaH_get(x, int(i))
            BY <3>2, GetFacts
        <3> QED
            BY <3>1, <3>3, <1>3, <1>5
    <2>2. IsFiniteSet(b)
        <3>1. IsFiniteSet(1..sizearray(y)) /\ b \in SUBSET (1..sizearray(y))
            BY <1>1, FS_Interval
        <3> HIDE DEF b
        <3> QED
            BY <3>1, FS_Subset
    <2>3. Cardinality(a) <= Cardinality(b) /\ Cardinality(a) \in Nat /\ Cardinality(b) \in Nat
        <3> HIDE DEF a, b
        <3> QED
            BY <2>1, <2>2, FS_Subset, FS_CardinalityType
    <2>4. sizearray(x) = 0 \/ 2 * Cardinality(a) > sizearray(x)
        BY <1>5 DEF Half
    <2> HIDE DEF a, b
    <2>5. sizearray(y) = 0 \/ 2 * Cardinality(b) > sizearray(y)
        BY <2>3, <2>4, <1>1, <1>5
    <2> QED
        BY <2>5 DEF Half, b
<1>6. Grown(x, y)
    BY <1>2, <1>4, <1>5 DEF Grown
<1> QED
    BY <1>6 DEF y

-----------------------------------------------------------------------------
(* The length *)

\* n is a border: there is no element after it, and one at it unless it is 0.
IsBorder(x, n) == n \in Nat /\ (n = 0 \/ getnum(x, n) # nil) /\ getnum(x, n + 1) = nil

\* Elements have indexes up to MaxKey.
LEMMA NumFacts ==
    ASSUME NEW x, Sound(x)
    PROVE  /\ \A n \in Nat \ {0} : getnum(x, n) \in Values \cup {nil} /\ (getnum(x, n) # nil => n \in 1..MaxKey)
           /\ \A n \in 1..sizearray(x) : getnum(x, n) = x.array[n]
<1>1. ASSUME NEW n \in Nat \ {0}
      PROVE  getnum(x, n) \in Values \cup {nil} /\ (getnum(x, n) # nil => n \in 1..MaxKey)
    <2>1. int(n) \in Hashable
        BY IntFacts
    <2>2. /\ luaH_get(x, int(n)) \in Values \cup {nil}
          /\ luaH_get(x, int(n)) # nil => int(n) \in Keys
        BY <2>1, GetFacts
    <2> QED
        BY <2>2, IntFacts DEF getnum
<1>2. \A n \in 1..sizearray(x) : getnum(x, n) = x.array[n]
    BY IntFacts DEF getnum, luaH_get, inarray
<1> QED
    BY <1>1, <1>2

\* The binary search ends at a border.
LEMMA BetweenFacts ==
    ASSUME NEW x, NEW i \in Nat, NEW j \in Nat, i < j, i = 0 \/ getnum(x, i) # nil, getnum(x, j) = nil
    PROVE  IsBorder(x, between(x, i, j))
<1> DEFINE Step(p) == LET m == (p[1] + p[2]) \div 2
                      IN  IF p[2] - p[1] <= 1 THEN p
                          ELSE IF getnum(x, m) = nil THEN <<p[1], m>> ELSE <<m, p[2]>>
           Loop(h) == h = [n \in 0..j |-> IF n = 0 THEN <<i, j>> ELSE Step(h[n - 1])]
           at == CHOOSE h : Loop(h)
           Fine(a, b) == a < b /\ (a = 0 \/ getnum(x, a) # nil) /\ getnum(x, b) = nil
           X == {p \in Nat \X Nat : Fine(p[1], p[2])}
<1>0. j \in Nat
    OBVIOUS
<1>1. ASSUME NEW p \in X
      PROVE  /\ Step(p) \in X
             /\ p[2] - p[1] <= 1 \/ Step(p)[2] - Step(p)[1] < p[2] - p[1]
             /\ p[2] - p[1] <= 1 => Step(p) = p
    <2> DEFINE a == p[1]
               b == p[2]
               m == (a + b) \div 2
    <2>1. a \in Nat /\ b \in Nat /\ Fine(a, b) /\ p = <<a, b>>
        OBVIOUS
    <2> HIDE DEF a, b
    <2>2. b - a > 1 => m \in Nat /\ a < m /\ m < b /\ m # 0
        BY <2>1
    <2> HIDE DEF m
    <2>3. b - a > 1 => (IF getnum(x, m) = nil THEN Fine(a, m) ELSE Fine(m, b))
        BY <2>1, <2>2
    <2>4. Step(p) = IF b - a <= 1 THEN p ELSE IF getnum(x, m) = nil THEN <<a, m>> ELSE <<m, b>>
        BY DEF a, b, m
    <2> HIDE DEF Step, Fine
    <2>5. CASE b - a <= 1
        BY <2>1, <2>4, <2>5 DEF a, b
    <2>6. CASE ~(b - a <= 1) /\ getnum(x, m) = nil
        <3>1. Step(p) = <<a, m>> /\ Fine(a, m) /\ m \in Nat /\ m - a < b - a
            BY <2>1, <2>2, <2>3, <2>4, <2>6
        <3>2. Step(p)[1] = a /\ Step(p)[2] = m /\ Step(p) \in X
            BY <2>1, <3>1
        <3> QED
            BY <3>1, <3>2, <2>6 DEF a, b
    <2>7. CASE ~(b - a <= 1) /\ getnum(x, m) # nil
        <3>1. Step(p) = <<m, b>> /\ Fine(m, b) /\ m \in Nat /\ b - m < b - a
            BY <2>1, <2>2, <2>3, <2>4, <2>7
        <3>2. Step(p)[1] = m /\ Step(p)[2] = b /\ Step(p) \in X
            BY <2>1, <3>1
        <3> QED
            BY <3>1, <3>2, <2>7 DEF a, b
    <2> QED
        BY <2>5, <2>6, <2>7
<1>2. <<i, j>> \in X
    OBVIOUS
<1>3. /\ Loop(at) /\ \A n \in 0..j : at[n] \in X
      /\ at[0] = <<i, j>> /\ \A n \in 1..j : at[n] = Step(at[n - 1])
    <2> DEFINE F == [n \in 1..j |-> [p \in X |-> Step(p)]]
    <2>1. \A n \in 1..j, p \in X : F[n][p] \in X
        BY <1>1
    <2>2. \A n \in 1..j : \A p \in X : F[n][p] = Step(p)
        OBVIOUS
    <2> HIDE DEF F, X, Step
    <2>3. PICK h : IsLoop(h, j, <<i, j>>, F) /\ \A n \in 0..j : h[n] \in X
        BY <1>2, <2>1, Iterate
    <2>4. \A n \in 0..j : (IF n = 0 THEN <<i, j>> ELSE F[n][h[n - 1]]) = IF n = 0 THEN <<i, j>> ELSE Step(h[n - 1])
        <3>1. \A n \in 0..j : n # 0 => n \in 1..j /\ n - 1 \in 0..j
            OBVIOUS
        <3> QED
            BY <3>1, <2>2, <2>3
    <2>5. Loop(h)
        BY <2>3, <2>4 DEF IsLoop
    <2>6. Loop(at)
        BY <2>5
    <2> HIDE DEF at
    <2> DEFINE start == <<i, j>>
    <2>7. at = [n \in 0..j |-> IF n = 0 THEN start ELSE Step(at[n - 1])] /\ start \in X
        BY <2>6, <1>2
    <2> HIDE DEF start
    <2>8. at[0] = start /\ \A n \in 1..j : at[n] = Step(at[n - 1])
        <3>1. 0 \in 0..j /\ \A n \in 1..j : n \in 0..j /\ n # 0
            BY <1>0
        <3> QED
            BY <2>7, <3>1
    <2> DEFINE Good == {n \in 0..j : at[n] \in X}
    <2>10. 0 \in Good /\ \A n \in 1..j : n - 1 \in Good => n \in Good
        <3>1. 0 \in 0..j /\ \A n \in 1..j : n \in 0..j
            BY <1>0
        <3> QED
            BY <2>7, <2>8, <3>1, <1>1
    <2>9. \A n \in 0..j : n \in Good
        <3> HIDE DEF Good
        <3> QED BY <2>10, UpTo
    <2> QED
        BY <2>6, <2>8, <2>9 DEF start
<1>4. between(x, i, j) = at[j][1]
    BY DEF between
<1> HIDE DEF at
<1> HIDE DEF Step
<1> DEFINE Good == {n \in 0..j : at[n][2] - at[n][1] <= 1 \/ at[n][2] - at[n][1] <= j - n}
<1>6. 0 \in Good
    BY <1>3
<1>7. ASSUME NEW n \in 1..j, n - 1 \in Good
      PROVE  n \in Good
    <2> DEFINE p == at[n - 1]
               q == at[n]
    <2>1. p \in X /\ q = Step(p) /\ (p[2] - p[1] <= 1 \/ p[2] - p[1] <= j - (n - 1))
        BY <1>3, <1>7
    <2> HIDE DEF p, q
    <2>2. /\ q \in X /\ (p[2] - p[1] <= 1 \/ q[2] - q[1] < p[2] - p[1])
          /\ p[2] - p[1] <= 1 => q = p
        BY <2>1, <1>1
    <2>3. p[1] \in Nat /\ p[2] \in Nat /\ q[1] \in Nat /\ q[2] \in Nat
        BY <2>1, <2>2
    <2>4. q[2] - q[1] <= 1 \/ q[2] - q[1] <= j - n
        BY <2>1, <2>2, <2>3
    <2> QED
        BY <2>4 DEF q
<1>8. \A n \in 0..j : n \in Good
    <2> HIDE DEF Good
    <2> QED BY <1>6, <1>7, UpTo
<1> DEFINE a == at[j][1]
           b == at[j][2]
<1>9. a \in Nat /\ b \in Nat /\ Fine(a, b)
    BY <1>3
<1>10. b - a <= 1
    <2>1. j \in Good
        BY <1>8
    <2>2. b - a <= 1 \/ b - a <= j - j
        BY <2>1
    <2> QED
        BY <2>2, <1>9
<1> HIDE DEF a, b
<1>11. b = a + 1
    BY <1>9, <1>10
<1>12. IsBorder(x, a)
    BY <1>9, <1>11 DEF IsBorder
<1> QED
    BY <1>4, <1>12 DEF a

\* So does the search that doubles first.
LEMMA UnboundFacts ==
    ASSUME NEW x, Sound(x), NEW i \in Nat, i = 0 \/ getnum(x, i) # nil
    PROVE  IsBorder(x, unbound_search(x, i))
<1> DEFINE N == MAX_INT
           Step(p) == IF getnum(x, p[2]) = nil \/ 2 * p[2] > MAX_INT THEN p ELSE <<p[2], 2 * p[2]>>
           Loop(h) == h = [n \in 0..N |-> IF n = 0 THEN <<i, i + 1>> ELSE Step(h[n - 1])]
           at == CHOOSE h : Loop(h)
           X == {p \in Nat \X Nat : p[1] < p[2] /\ (p[1] = 0 \/ getnum(x, p[1]) # nil)}
           last == at[N]
<1>0. N \in Nat /\ N >= MaxKey /\ MaxKey \in Nat
    BY BoundsAssumption, IntFacts
<1>1. ASSUME NEW p \in X
      PROVE  Step(p) \in X
    <2>1. CASE Step(p) = p
        BY <2>1
    <2>2. CASE Step(p) # p
        <3> DEFINE b == p[2]
        <3>1. Step(p) = <<b, 2 * b>> /\ getnum(x, b) # nil
            BY <2>2
        <3>2. b \in Nat /\ b # 0
            OBVIOUS
        <3> HIDE DEF b, Step
        <3>3. 2 * b \in Nat /\ b < 2 * b
            BY <3>2
        <3> QED
            BY <3>1, <3>2, <3>3
    <2> QED
        BY <2>1, <2>2
<1>2. <<i, i + 1>> \in X
    OBVIOUS
<1>3. Loop(at) /\ \A n \in 0..N : at[n] \in X
    <2> DEFINE F == [n \in 1..N |-> [p \in X |-> Step(p)]]
    <2>1. \A n \in 1..N, p \in X : F[n][p] \in X
        BY <1>1
    <2>2. \A n \in 1..N : \A p \in X : F[n][p] = Step(p)
        OBVIOUS
    <2> HIDE DEF F, X, Step, N
    <2>3. PICK h : IsLoop(h, N, <<i, i + 1>>, F) /\ \A n \in 0..N : h[n] \in X
        BY <1>0, <1>2, <2>1, Iterate
    <2>4. \A n \in 0..N : (IF n = 0 THEN <<i, i + 1>> ELSE F[n][h[n - 1]]) = IF n = 0 THEN <<i, i + 1>> ELSE Step(h[n - 1])
        <3>1. \A n \in 0..N : n # 0 => n \in 1..N /\ n - 1 \in 0..N
            BY <1>0
        <3> QED
            BY <3>1, <2>2, <2>3
    <2>5. Loop(h)
        BY <2>3, <2>4 DEF IsLoop
    <2>6. Loop(at)
        BY <2>5
    <2> HIDE DEF at
    <2> DEFINE start == <<i, i + 1>>
    <2>7. at = [n \in 0..N |-> IF n = 0 THEN start ELSE Step(at[n - 1])] /\ start \in X
        BY <2>6, <1>2
    <2> HIDE DEF start
    <2>8. at[0] = start /\ \A n \in 1..N : at[n] = Step(at[n - 1])
        <3>1. 0 \in 0..N /\ \A n \in 1..N : n \in 0..N /\ n # 0
            BY <1>0
        <3> QED
            BY <2>7, <3>1
    <2> DEFINE Good == {n \in 0..N : at[n] \in X}
    <2>10. 0 \in Good /\ \A n \in 1..N : n - 1 \in Good => n \in Good
        <3>1. 0 \in 0..N /\ \A n \in 1..N : n \in 0..N
            BY <1>0
        <3> QED
            BY <2>7, <2>8, <3>1, <1>1
    <2>9. \A n \in 0..N : n \in Good
        <3> HIDE DEF Good
        <3> QED BY <1>0, <2>10, UpTo
    <2> QED
        BY <2>6, <2>8, <2>9 DEF start
<1> DEFINE free(n) == /\ \A l \in 1..n : getnum(x, l) # nil
                      /\ getnum(x, n + 1) = nil
<1>4. unbound_search(x, i) = IF getnum(x, last[2]) = nil THEN between(x, last[1], last[2])
                             ELSE CHOOSE n \in 0..MAX_INT : free(n)
    BY DEF unbound_search
<1> HIDE DEF at, Step
<1>5. CASE getnum(x, last[2]) = nil
    <2>1. last \in X
        BY <1>0, <1>3
    <2> DEFINE a == last[1]
               b == last[2]
    <2>2. a \in Nat /\ b \in Nat /\ a < b /\ (a = 0 \/ getnum(x, a) # nil) /\ getnum(x, b) = nil
        BY <2>1, <1>5
    <2>3. unbound_search(x, i) = between(x, a, b)
        BY <1>4, <1>5
    <2> HIDE DEF a, b
    <2> QED
        BY <2>2, <2>3, BetweenFacts
<1>6. CASE getnum(x, last[2]) # nil
    <2> DEFINE T == {n \in Nat : getnum(x, n + 1) = nil}
    <2>1. MaxKey \in T
        <3>1. MaxKey + 1 \in Nat \ {0} /\ MaxKey + 1 \notin 1..MaxKey
            BY <1>0
        <3> QED
            BY <3>1, <1>0, NumFacts
    <2>2. \E n \in T : \A k \in T : n <= k
        <3>1. T \in SUBSET Nat /\ T # {}
            BY <2>1
        <3> HIDE DEF T
        <3> QED
            BY <3>1, NatLess
    <2>3. PICK n \in T : \A k \in T : n <= k
        BY <2>2
    <2>4. n \in 0..MAX_INT
        BY <2>1, <2>3, <1>0
    <2>5. \A l \in 1..n : getnum(x, l) # nil
        <3> SUFFICES ASSUME NEW l \in 1..n, getnum(x, l) = nil PROVE FALSE
            OBVIOUS
        <3>1. l - 1 \in Nat /\ (l - 1) + 1 = l /\ n \in Nat
            BY <2>4
        <3>2. l - 1 \in T
            BY <3>1
        <3>3. n <= l - 1
            BY <2>3, <3>2
        <3> QED
            BY <3>1, <3>3
    <2>6. free(n)
        BY <2>3, <2>5
    <2> DEFINE m == CHOOSE k \in 0..MAX_INT : free(k)
    <2> HIDE DEF free
    <2>7. m \in 0..MAX_INT /\ free(m)
        BY <2>4, <2>6
    <2> HIDE DEF m
    <2>8. m \in Nat /\ (m = 0 \/ m \in 1..m)
        BY <1>0, <2>7
    <2>9. IsBorder(x, m)
        BY <2>7, <2>8 DEF IsBorder, free
    <2> QED
        BY <1>4, <1>6, <2>9 DEF m
<1> QED
    BY <1>5, <1>6

\* The length of a table is a border.
LEMMA LengthFacts ==
    ASSUME NEW x, Sound(x)
    PROVE  IsBorder(x, luaH_getn(x)) /\ luaH_getn(x) \in 0..MaxKey
<1> DEFINE j == sizearray(x)
           n == luaH_getn(x)
<1>1. x \in Tables /\ j \in Nat /\ Freed(x)
    BY TableFacts DEF Sound
<1>2. j \in 1..j => getnum(x, j) = x.array[j]
    BY NumFacts
<1>3. IsBorder(x, n)
    <2>1. CASE j > 0 /\ x.array[j] = nil
        <3>1. n = between(x, 0, j)
            BY <2>1 DEF luaH_getn
        <3>2. getnum(x, j) = nil /\ 0 < j
            BY <2>1, <1>1, <1>2
        <3> HIDE DEF n, j
        <3> QED
            BY <3>1, <3>2, <1>1, BetweenFacts
    <2>2. CASE ~(j > 0 /\ x.array[j] = nil)
        <3>1. j = 0 \/ getnum(x, j) # nil
            BY <2>2, <1>1, <1>2
        <3>2. CASE x.dummy
            <4>1. n = j
                BY <2>2, <3>2 DEF luaH_getn
            <4>2. j + 1 \in Nat \ {0}
                BY <1>1
            <4>3. getnum(x, j + 1) = nil
                <5> DEFINE l == int(j + 1)
                <5>1. l \in Hashable /\ ~inarray(x, l)
                    BY <1>1, <4>2, IntFacts DEF inarray
                <5>2. \A i \in Nodes(x) : x.node[i].val = nil
                    BY <1>1, <3>2 DEF Freed, Nodes, FreeNode
                <5>3. Pairs(x) = {}
                    BY <5>2 DEF Pairs
                <5> HIDE DEF l
                <5>4. luaH_get(x, l) = nil
                    BY <5>1, <5>3, GetFacts
                <5> QED
                    BY <5>4 DEF getnum, l
            <4> QED
                BY <1>1, <3>1, <4>1, <4>3 DEF IsBorder
        <3>3. CASE ~x.dummy
            <4>1. n = unbound_search(x, j)
                BY <2>2, <3>3 DEF luaH_getn
            <4> HIDE DEF n, j
            <4> QED
                BY <4>1, <3>1, <1>1, UnboundFacts
        <3> QED
            BY <3>2, <3>3
    <2> QED
        BY <2>1, <2>2
<1> HIDE DEF n
<1>4. n \in 0..MaxKey
    <2>1. n \in Nat /\ (n = 0 \/ getnum(x, n) # nil)
        BY <1>3 DEF IsBorder
    <2>2. n # 0 => n \in 1..MaxKey
        BY <2>1, NumFacts
    <2> QED
        BY <2>1, <2>2, IntFacts
<1> QED
    BY <1>3, <1>4 DEF n

-----------------------------------------------------------------------------
(* The functions that assign to many integer keys *)

\* lua_rawseti is an assignment.
LEMMA RawsetSound ==
    ASSUME NEW x, Sound(x), NEW i \in 1..MaxKey, NEW v \in Values \cup {nil}
    PROVE  /\ Gave(x, int(i), v, lua_rawseti(x, i, v))
           /\ v # nil => Grown(x, lua_rawseti(x, i, v))
<1>1. int(i) \in Keys
    BY IntFacts
<1> QED
    BY <1>1, PutSound, PutGrown DEF lua_rawseti

\* Grown goes from step to step.
LEMMA GrownTwice ==
    ASSUME NEW x, NEW y, NEW z, Grown(x, y), Grown(y, z)
    PROVE  Grown(x, z)
    BY DEF Grown

\* OP_SETLIST gives the value to the keys up to n.
LEMMA SetallSound ==
    ASSUME NEW x, Sound(x), NEW n \in 0..MaxKey, NEW v \in Values
    PROVE  /\ Sound(setall(x, n, v)) /\ Grown(x, setall(x, n, v))
           /\ \A l \in Hashable : luaH_get(setall(x, n, v), l) =
                IF l \in {int(i) : i \in 1..n} THEN v ELSE luaH_get(x, l)
<1> DEFINE X == {y \in Tables : Sound(y)}
           Loop(h) == h = [i \in 0..n |-> IF i = 0 THEN x ELSE lua_rawseti(h[i - 1], n + 1 - i, v)]
           at == CHOOSE h : Loop(h)
<1>0. n \in Nat /\ MaxKey \in Nat /\ n <= MaxKey
    BY IntFacts
<1>1. x \in X /\ \A y : Sound(y) => y \in X
    BY DEF Sound
<1>2. \A i \in 1..n, y \in X : /\ lua_rawseti(y, n + 1 - i, v) \in X
                               /\ Gave(y, int(n + 1 - i), v, lua_rawseti(y, n + 1 - i, v))
                               /\ Grown(y, lua_rawseti(y, n + 1 - i, v))
    <2> SUFFICES ASSUME NEW i \in 1..n, NEW y \in X
                 PROVE  /\ lua_rawseti(y, n + 1 - i, v) \in X
                        /\ Gave(y, int(n + 1 - i), v, lua_rawseti(y, n + 1 - i, v))
                        /\ Grown(y, lua_rawseti(y, n + 1 - i, v))
        OBVIOUS
    <2> DEFINE m == n + 1 - i
    <2>1. m \in 1..MaxKey /\ Sound(y)
        BY <1>0
    <2> HIDE DEF m, X
    <2>2. Gave(y, int(m), v, lua_rawseti(y, m, v)) /\ Grown(y, lua_rawseti(y, m, v))
        BY <2>1, RawsetSound, NilFacts
    <2> QED
        BY <2>2, <1>1 DEF Gave, m
<1>3. /\ \A i \in 0..n : at[i] \in X
      /\ at[0] = x /\ \A i \in 1..n : at[i] = lua_rawseti(at[i - 1], n + 1 - i, v)
    <2> DEFINE F == [i \in 1..n |-> [y \in X |-> lua_rawseti(y, n + 1 - i, v)]]
    <2>1. \A i \in 1..n, y \in X : F[i][y] \in X
        BY <1>2
    <2>2. \A i \in 1..n : \A y \in X : F[i][y] = lua_rawseti(y, n + 1 - i, v)
        OBVIOUS
    <2> HIDE DEF F, X
    <2>3. PICK h : IsLoop(h, n, x, F) /\ \A i \in 0..n : h[i] \in X
        BY <1>0, <1>1, <2>1, Iterate
    <2>4. \A i \in 0..n : (IF i = 0 THEN x ELSE F[i][h[i - 1]])
                            = IF i = 0 THEN x ELSE lua_rawseti(h[i - 1], n + 1 - i, v)
        <3>1. \A i \in 0..n : i # 0 => i \in 1..n /\ i - 1 \in 0..n
            BY <1>0
        <3> QED
            BY <3>1, <2>2, <2>3
    <2>5. Loop(h)
        BY <2>3, <2>4 DEF IsLoop
    <2>6. Loop(at)
        BY <2>5
    <2> HIDE DEF at
    <2>7. at[0] = x /\ \A i \in 1..n : at[i] = lua_rawseti(at[i - 1], n + 1 - i, v)
        <3>1. 0 \in 0..n /\ \A i \in 1..n : i \in 0..n /\ i # 0
            BY <1>0
        <3> QED
            BY <2>6, <3>1
    <2> DEFINE Good == {i \in 0..n : at[i] \in X}
    <2>8. 0 \in Good /\ \A i \in 1..n : i - 1 \in Good => i \in Good
        <3>1. 0 \in 0..n /\ \A i \in 1..n : i \in 0..n
            BY <1>0
        <3> QED
            BY <2>7, <3>1, <1>1, <1>2
    <2>9. \A i \in 0..n : i \in Good
        <3> HIDE DEF Good
        <3> QED
            BY <1>0, <2>8, UpTo
    <2> QED
        BY <2>7, <2>9
<1>4. setall(x, n, v) = at[n]
    BY DEF setall
<1> HIDE DEF at
<1> DEFINE some(i) == {int(j) : j \in n + 1 - i..n}
           Good == {i \in 0..n :
             /\ \A l \in Hashable : luaH_get(at[i], l) = IF l \in some(i) THEN v ELSE luaH_get(x, l)
             /\ Grown(x, at[i])}
<1>5. 0 \in Good
    <2>1. some(0) = {} /\ 0 \in 0..n
        BY <1>0
    <2>2. Grown(x, x)
        BY DEF Grown
    <2> HIDE DEF some
    <2> QED
        BY <2>1, <2>2, <1>3
<1>6. ASSUME NEW i \in 1..n, i - 1 \in Good
      PROVE  i \in Good
    <2> DEFINE y == at[i - 1]
               m == n + 1 - i
    <2>1. Gave(y, int(m), v, at[i]) /\ Grown(y, at[i])
        <3>1. i - 1 \in 0..n
            BY <1>0
        <3> QED
            BY <3>1, <1>2, <1>3
    <2>2. some(i) = some(i - 1) \cup {int(m)}
        <3>1. \A j : j \in n + 1 - i..n <=> j = m \/ j \in n + 1 - (i - 1)..n
            BY <1>0
        <3> QED
            BY <3>1
    <2> HIDE DEF m, some
    <2>3. \A l \in Hashable : luaH_get(y, l) = IF l \in some(i - 1) THEN v ELSE luaH_get(x, l)
        BY <1>6
    <2> HIDE DEF y
    <2>4. \A l \in Hashable : luaH_get(at[i], l) = IF l \in some(i) THEN v ELSE luaH_get(x, l)
        BY <2>1, <2>2, <2>3 DEF Gave
    <2>5. i \in 0..n
        BY <1>0
    <2>6. Grown(x, at[i])
        BY <2>1, <1>6, GrownTwice DEF y
    <2> QED
        BY <2>4, <2>5, <2>6
<1>7. \A i \in 0..n : i \in Good
    <2> HIDE DEF Good
    <2> QED
        BY <1>0, <1>5, <1>6, UpTo
<1>8. n \in 0..n /\ n + 1 - n = 1
    BY <1>0
<1>9. some(n) = {int(j) : j \in 1..n}
    BY <1>8
<1> HIDE DEF some
<1>10. /\ \A l \in Hashable : luaH_get(at[n], l) = IF l \in some(n) THEN v ELSE luaH_get(x, l)
       /\ Grown(x, at[n])
    BY <1>7, <1>8
<1>11. Sound(at[n])
    BY <1>3, <1>8
<1> QED
    BY <1>4, <1>9, <1>10, <1>11

\* Of a sequence of moves none reads what an earlier one wrote, and no two write
\* to one key.
Apart(s) ==
  /\ Len(s) \in Nat
  /\ \A i \in 1..Len(s) : s[i][1] \in 1..MaxKey /\ s[i][2] \in 1..MaxKey
  /\ \A i, j \in 1..Len(s) : s[i][1] = s[j][1] => i = j
  /\ \A i, j \in 1..Len(s) : i < j => s[j][2] # s[i][1]

\* Every key that is written to gets what its source had.
LEMMA MoveSound ==
    ASSUME NEW x, Sound(x), NEW s, Apart(s)
    PROVE  LET y == move(x, s)
           IN  /\ Sound(y)
               /\ (\A i \in 1..Len(s) : luaH_get(x, int(s[i][2])) # nil) => Grown(x, y)
               /\ \A i \in 1..Len(s) : luaH_get(y, int(s[i][1])) = luaH_get(x, int(s[i][2]))
               /\ \A l \in Hashable : (\A i \in 1..Len(s) : int(s[i][1]) # l) => luaH_get(y, l) = luaH_get(x, l)
<1> DEFINE N == Len(s)
           X == {y \in Tables : Sound(y)}
           step(y, p) == lua_rawseti(y, p[1], getnum(y, p[2]))
           Loop(h) == h = [i \in 0..N |-> IF i = 0 THEN x ELSE step(h[i - 1], s[i])]
           at == CHOOSE h : Loop(h)
<1>0. N \in Nat /\ \A i \in 1..N : s[i][1] \in 1..MaxKey /\ s[i][2] \in 1..MaxKey
    BY DEF Apart
<1>1. x \in X /\ \A y : Sound(y) => y \in X
    BY DEF Sound
<1>2. \A i \in 1..N, y \in X : /\ step(y, s[i]) \in X
                               /\ Gave(y, int(s[i][1]), luaH_get(y, int(s[i][2])), step(y, s[i]))
                               /\ luaH_get(y, int(s[i][2])) # nil => Grown(y, step(y, s[i]))
    <2> SUFFICES ASSUME NEW i \in 1..N, NEW y \in X
                 PROVE  /\ step(y, s[i]) \in X
                        /\ Gave(y, int(s[i][1]), luaH_get(y, int(s[i][2])), step(y, s[i]))
                        /\ luaH_get(y, int(s[i][2])) # nil => Grown(y, step(y, s[i]))
        OBVIOUS
    <2> DEFINE a == s[i][1]
               b == s[i][2]
               w == luaH_get(y, int(b))
    <2>1. a \in 1..MaxKey /\ b \in 1..MaxKey /\ Sound(y)
        BY <1>0
    <2> HIDE DEF a, b, X
    <2>2. int(b) \in Hashable
        BY <2>1, IntFacts
    <2>3. w \in Values \cup {nil}
        BY <2>1, <2>2, GetFacts
    <2>4. step(y, s[i]) = lua_rawseti(y, a, w)
        BY DEF getnum, a, b
    <2> HIDE DEF w, step
    <2>5. Gave(y, int(a), w, lua_rawseti(y, a, w)) /\ (w # nil => Grown(y, lua_rawseti(y, a, w)))
        BY <2>1, <2>3, RawsetSound
    <2>6. Gave(y, int(a), w, step(y, s[i])) /\ (w # nil => Grown(y, step(y, s[i])))
        BY <2>4, <2>5
    <2> QED
        BY <2>6, <1>1 DEF Gave, a, b, w
<1>3. /\ \A i \in 0..N : at[i] \in X
      /\ at[0] = x /\ \A i \in 1..N : at[i] = step(at[i - 1], s[i])
    <2> DEFINE F == [i \in 1..N |-> [y \in X |-> step(y, s[i])]]
    <2>1. \A i \in 1..N, y \in X : F[i][y] \in X
        BY <1>2
    <2>2. \A i \in 1..N : \A y \in X : F[i][y] = step(y, s[i])
        OBVIOUS
    <2> HIDE DEF F, X, N, step
    <2>3. PICK h : IsLoop(h, N, x, F) /\ \A i \in 0..N : h[i] \in X
        BY <1>0, <1>1, <2>1, Iterate
    <2>4. \A i \in 0..N : (IF i = 0 THEN x ELSE F[i][h[i - 1]]) = IF i = 0 THEN x ELSE step(h[i - 1], s[i])
        <3>1. \A i \in 0..N : i # 0 => i \in 1..N /\ i - 1 \in 0..N
            BY <1>0
        <3> QED
            BY <3>1, <2>2, <2>3
    <2>5. Loop(h)
        BY <2>3, <2>4 DEF IsLoop
    <2>6. Loop(at)
        BY <2>5
    <2> HIDE DEF at
    <2>7. at[0] = x /\ \A i \in 1..N : at[i] = step(at[i - 1], s[i])
        <3>1. 0 \in 0..N /\ \A i \in 1..N : i \in 0..N /\ i # 0
            BY <1>0
        <3> QED
            BY <2>6, <3>1
    <2> DEFINE Good == {i \in 0..N : at[i] \in X}
    <2>8. 0 \in Good /\ \A i \in 1..N : i - 1 \in Good => i \in Good
        <3>1. 0 \in 0..N /\ \A i \in 1..N : i \in 0..N
            BY <1>0
        <3> QED
            BY <2>7, <3>1, <1>1, <1>2
    <2>9. \A i \in 0..N : i \in Good
        <3> HIDE DEF Good
        <3> QED
            BY <1>0, <2>8, UpTo
    <2> QED
        BY <2>7, <2>9
<1>4. move(x, s) = at[N]
    BY DEF move
<1> HIDE DEF at, step
<1>5. ASSUME NEW i \in 1..N
      PROVE  /\ \A l \in Hashable : luaH_get(at[i], l) = IF l = int(s[i][1]) THEN luaH_get(at[i - 1], int(s[i][2]))
                                                         ELSE luaH_get(at[i - 1], l)
             /\ luaH_get(at[i - 1], int(s[i][2])) # nil => Grown(at[i - 1], at[i])
    <2>1. i - 1 \in 0..N
        BY <1>0
    <2> QED
        BY <2>1, <1>2, <1>3 DEF Gave
<1> DEFINE Good == {n \in 0..N :
             /\ \A i \in 1..n : luaH_get(at[n], int(s[i][1])) = luaH_get(x, int(s[i][2]))
             /\ \A l \in Hashable : (\A i \in 1..n : int(s[i][1]) # l) => luaH_get(at[n], l) = luaH_get(x, l)
             /\ (\A i \in 1..N : luaH_get(x, int(s[i][2])) # nil) => Grown(x, at[n])}
<1>6. 0 \in Good
    <2>1. Grown(x, x)
        BY DEF Grown
    <2> QED
        BY <2>1, <1>0, <1>3
<1>7. ASSUME NEW n \in 1..N, n - 1 \in Good
      PROVE  n \in Good
    <2>1. /\ \A i \in 1..n : i = n \/ i \in 1..n - 1
          /\ \A i \in 1..n - 1 : i \in 1..N /\ i # n /\ i \in 1..n /\ i < n
          /\ n \in 1..n /\ n \in 0..N /\ \A i \in 1..n : i \in 1..N
        BY <1>0
    <2>2. \A i \in 1..N : int(s[i][1]) \in Hashable /\ int(s[i][2]) \in Hashable
        BY <1>0, IntFacts
    <2>3. /\ \A i, j \in 1..N : int(s[i][1]) = int(s[j][1]) => i = j
          /\ \A i, j \in 1..N : i < j => int(s[j][2]) # int(s[i][1])
        BY DEF Apart, int
    <2>4. /\ \A i \in 1..n - 1 : luaH_get(at[n - 1], int(s[i][1])) = luaH_get(x, int(s[i][2]))
          /\ \A l \in Hashable : (\A i \in 1..n - 1 : int(s[i][1]) # l) => luaH_get(at[n - 1], l) = luaH_get(x, l)
        BY <1>7
    <2>5. luaH_get(at[n - 1], int(s[n][2])) = luaH_get(x, int(s[n][2]))
        BY <2>1, <2>2, <2>3, <2>4
    <2>6. \A i \in 1..n : luaH_get(at[n], int(s[i][1])) = luaH_get(x, int(s[i][2]))
        BY <2>1, <2>2, <2>3, <2>4, <2>5, <1>5
    <2>7. \A l \in Hashable : (\A i \in 1..n : int(s[i][1]) # l) => luaH_get(at[n], l) = luaH_get(x, l)
        BY <2>1, <2>4, <1>5
    <2>8. ASSUME \A i \in 1..N : luaH_get(x, int(s[i][2])) # nil
          PROVE  Grown(x, at[n])
        <3>1. Grown(x, at[n - 1])
            BY <2>8, <1>7
        <3>2. Grown(at[n - 1], at[n])
            BY <2>5, <2>8, <1>5
        <3> QED
            BY <3>1, <3>2, GrownTwice
    <2> QED
        BY <2>1, <2>6, <2>7, <2>8
<1>8. \A n \in 0..N : n \in Good
    <2> HIDE DEF Good, N
    <2> QED
        BY <1>0, <1>6, <1>7, UpTo
<1>9. N \in Good /\ N \in 0..N
    BY <1>0, <1>8
<1> QED
    BY <1>3, <1>4, <1>9

-----------------------------------------------------------------------------
(* What each operation makes of a table *)

\* the keys of the nodes that have a value
Livekeys(x) == {x.node[i].key : i \in {j \in Nodes(x) : x.node[j].val # nil}}

\* They are keys, no more than there are nodes, and all that is not in the array.
LEMMA LiveFacts ==
    ASSUME NEW x, Sound(x)
    PROVE  /\ \A j \in Nodes(x) : x.node[j].val # nil => j \in Filled(x) /\ x.node[j].key \in Keys
           /\ Livekeys(x) \in SUBSET Keys /\ IsFiniteSet(Livekeys(x))
           /\ Cardinality(Livekeys(x)) <= sizenode(x)
           /\ x.dummy => Livekeys(x) = {}
           /\ \A l \in Keys : luaH_get(x, l) # nil => inarray(x, l) \/ l \in Livekeys(x)
<1> DEFINE live == {j \in Nodes(x) : x.node[j].val # nil}
           f == [j \in live |-> x.node[j].key]
<1>1. /\ x \in Tables /\ Linked(x) /\ Freed(x)
      /\ sizenode(x) \in Nat /\ Nodes(x) = 0..sizenode(x) - 1
    BY TableFacts DEF Sound
<1>2. ASSUME NEW j \in Nodes(x), x.node[j].val # nil
      PROVE  j \in Filled(x) /\ x.node[j].key \in Keys
    <2>1. x.node[j].key # nil /\ x.node[j].key[1] # "dead"
        BY <1>1, <1>2 DEF Linked, FreeNode
    <2> QED
        BY <2>1, <1>1, OrigFacts DEF Filled
<1>3. IsFiniteSet(live) /\ Cardinality(live) <= sizenode(x)
    <2>1. IsFiniteSet(Nodes(x)) /\ Cardinality(Nodes(x)) = sizenode(x)
        BY <1>1, FS_Interval
    <2>2. live \in SUBSET Nodes(x)
        OBVIOUS
    <2> HIDE DEF live
    <2> QED
        BY <2>1, <2>2, FS_Subset
<1>4. IsFiniteSet(Livekeys(x)) /\ Cardinality(Livekeys(x)) <= sizenode(x)
    <2>1. f \in [live -> Livekeys(x)] /\ \A l \in Livekeys(x) : \E j \in live : f[j] = l
        BY DEF Livekeys
    <2> HIDE DEF live, f
    <2>2. f \in Surjection(live, Livekeys(x))
        BY <2>1 DEF Surjection
    <2>3. IsFiniteSet(Livekeys(x)) /\ Cardinality(Livekeys(x)) <= Cardinality(live)
        BY <1>3, <2>2, FS_Surjection
    <2>4. Cardinality(live) \in Nat /\ Cardinality(Livekeys(x)) \in Nat
        BY <1>3, <2>3, FS_CardinalityType
    <2> QED
        BY <1>1, <1>3, <2>3, <2>4
<1>5. x.dummy => Livekeys(x) = {}
    BY <1>1 DEF Freed, Nodes, FreeNode, Livekeys
<1>6. ASSUME NEW l \in Keys, luaH_get(x, l) # nil, ~inarray(x, l)
      PROVE  l \in Livekeys(x)
    <2> DEFINE v == luaH_get(x, l)
    <2>1. <<l, v>> \in Pairs(x)
        BY <1>6, GetFacts DEF Hashable
    <2> QED
        BY <2>1 DEF Pairs, Livekeys
<1> QED
    BY <1>2, <1>4, <1>5, <1>6 DEF Livekeys

\* A new table has no fields.
LEMMA NewSound ==
    ASSUME NEW na \in Nat, NEW nh \in Nat
    PROVE  Sound(luaH_new(na, nh)) /\ \A l \in Hashable : luaH_get(luaH_new(na, nh), l) = nil
<1> DEFINE arr == [i \in 1..na |-> nil]
           x == [array |-> arr, node |-> <<>>, dummy |-> TRUE, lastfree |-> 0, ok |-> TRUE]
           y == luaH_new(na, nh)
<1>1. /\ Shaped(x) /\ x.ok = TRUE /\ x.array = arr /\ x.array \in Seq(Values \cup {nil})
      /\ sizearray(x) = na /\ \A i \in 1..na : x.array[i] = nil
    BY DEF Shaped, sizearray
<1>2. y = setnodevector(x, nh)
    BY DEF luaH_new
<1> HIDE DEF x
<1>3. Fresh(x, nh, setnodevector(x, nh))
    BY <1>1, FreshSound
<1>4. Sound(y) /\ y.array = arr /\ Pairs(y) = {}
    BY <1>1, <1>2, <1>3 DEF Fresh
<1> HIDE DEF y
<1>5. ASSUME NEW l \in Hashable
      PROVE  luaH_get(y, l) = nil
    <2>1. CASE inarray(y, l)
        <3>1. l[2] \in 1..na
            BY <2>1, <1>4 DEF inarray, sizearray
        <3> QED
            BY <2>1, <3>1, <1>4, GetFacts
    <2>2. CASE ~inarray(y, l)
        BY <2>2, <1>4, GetFacts
    <2> QED
        BY <2>1, <2>2
<1> QED
    BY <1>4, <1>5 DEF y

\* The constructor's list: the array first gets its size.
LEMMA SetListSound ==
    ASSUME NEW x, Sound(x), NEW n \in 1..MaxKey, NEW v \in Values
    PROVE  LET presized == IF n > sizearray(x) THEN resize(x, n, IF x.dummy THEN 0 ELSE sizenode(x)) ELSE x
               y == setall(presized, n, v)
           IN  /\ Sound(y) /\ (sizearray(y) = sizearray(x) \/ Half(y))
               /\ \A l \in Hashable : luaH_get(y, l) = IF l \in {int(i) : i \in 1..n} THEN v ELSE luaH_get(x, l)
<1> DEFINE nh == IF x.dummy THEN 0 ELSE sizenode(x)
           z == IF n > sizearray(x) THEN resize(x, n, nh) ELSE x
           H == Livekeys(x)
<1>1. n \in Nat /\ n \in 0..MaxKey /\ x \in Tables /\ sizenode(x) \in Nat /\ sizearray(x) \in Nat
    BY IntFacts, TableFacts DEF Sound
<1>2. /\ Sound(z) /\ \A l \in Hashable : luaH_get(z, l) = luaH_get(x, l)
      /\ sizearray(z) = sizearray(x) \/ sizearray(z) = n
    <2>1. CASE n > sizearray(x)
        <3>1. nh \in Nat /\ H \in SUBSET Keys /\ IsFiniteSet(H) /\ Cardinality(H) <= nh
            BY <1>1, LiveFacts, FS_EmptySet
        <3>2. \A l \in Keys : luaH_get(x, l) # nil => (isint(l) /\ l[2] <= n) \/ l \in H
            BY <2>1, <1>1, LiveFacts DEF inarray
        <3> HIDE DEF nh, H
        <3>3. Resized(x, n, nh, H, resize(x, n, nh))
            BY <1>1, <3>1, <3>2, ResizeSound
        <3> QED
            BY <2>1, <3>3 DEF Resized
    <2>2. CASE ~(n > sizearray(x))
        BY <2>2
    <2> QED
        BY <2>1, <2>2
<1> HIDE DEF z
<1>3. /\ Sound(setall(z, n, v)) /\ Grown(z, setall(z, n, v))
      /\ \A l \in Hashable : luaH_get(setall(z, n, v), l) = IF l \in {int(i) : i \in 1..n} THEN v ELSE luaH_get(z, l)
    BY <1>1, <1>2, SetallSound
<1> DEFINE y == setall(z, n, v)
<1> HIDE DEF y
<1>4. /\ Sound(y) /\ (sizearray(y) = sizearray(z) \/ Half(y))
      /\ \A l \in Hashable : luaH_get(y, l) = IF l \in {int(i) : i \in 1..n} THEN v ELSE luaH_get(x, l)
    BY <1>2, <1>3 DEF y, Grown
<1>5. ASSUME sizearray(y) = n
      PROVE  Half(y)
    <2>1. \A i \in 1..n : y.array[i] # nil
        <3> SUFFICES ASSUME NEW i \in 1..n PROVE y.array[i] # nil
            OBVIOUS
        <3>1. int(i) \in Hashable /\ inarray(y, int(i)) /\ int(i)[2] = i
            BY <1>5, IntFacts DEF inarray
        <3>2. luaH_get(y, int(i)) = v
            BY <3>1, <1>4
        <3> QED
            BY <3>1, <3>2, <1>4, GetFacts, NilFacts
    <2>2. {i \in 1..n : y.array[i] # nil} = 1..n
        BY <2>1
    <2>3. Cardinality(1..n) = n
        BY <1>1, FS_Interval
    <2>4. 2 * n > n
        BY <1>1
    <2> QED
        BY <2>2, <2>3, <2>4, <1>5 DEF Half
<1> QED
    BY <1>2, <1>4, <1>5 DEF y, z

\* table.insert moves up what is from pos on.
LEMMA InsertedSound ==
    ASSUME NEW x, Sound(x), NEW pos \in 1..MaxKey, NEW v \in Values, luaH_getn(x) + 1 <= MaxKey
    PROVE  LET e == luaH_getn(x) + 1
               last == IF pos > e THEN pos ELSE e
               up == [i \in 1..last - pos |-> <<last + 1 - i, last - i>>]
               y == lua_rawseti(move(x, up), pos, v)
           IN  /\ Sound(y)
               /\ (\A i \in pos..e - 1 : luaH_get(x, int(i)) # nil) => Grown(x, y)
               /\ \A l \in Hashable : luaH_get(y, l) =
                    IF l = int(pos) THEN v
                    ELSE IF l \in {int(i) : i \in pos + 1..e} THEN luaH_get(x, int(l[2] - 1)) ELSE luaH_get(x, l)
<1> DEFINE e == luaH_getn(x) + 1
           last == IF pos > e THEN pos ELSE e
           up == [i \in 1..last - pos |-> <<last + 1 - i, last - i>>]
           z == move(x, up)
           y == lua_rawseti(z, pos, v)
<1>1. e \in 1..MaxKey /\ MaxKey \in Nat
    BY LengthFacts, IntFacts
<1> HIDE DEF e
<1>2. last \in 1..MaxKey /\ last - pos \in Nat /\ (last = e \/ last = pos) /\ last >= e /\ last >= pos
    BY <1>1
<1>3. /\ pos \in Nat /\ last \in Nat /\ \A i \in pos + 1..e : i \in pos + 1..last
      /\ \A i \in pos + 1..last : i \in pos + 1..e
    BY <1>1, <1>2
<1> HIDE DEF last
<1>4. /\ Len(up) = last - pos
      /\ \A i \in 1..last - pos : up[i][1] = last + 1 - i /\ up[i][2] = last - i
    BY <1>2
<1> HIDE DEF up
<1>5. Apart(up)
    <2>1. \A i \in 1..last - pos : last + 1 - i \in 1..MaxKey /\ last - i \in 1..MaxKey
        BY <1>1, <1>2, <1>3
    <2>2. \A i, j \in 1..last - pos : /\ last + 1 - i = last + 1 - j => i = j
                                      /\ i < j => last - j # last + 1 - i
        BY <1>3
    <2> QED
        BY <2>1, <2>2, <1>2, <1>4 DEF Apart
<1>6. /\ Sound(z)
      /\ (\A i \in 1..last - pos : luaH_get(x, int(last - i)) # nil) => Grown(x, z)
      /\ \A i \in 1..last - pos : luaH_get(z, int(last + 1 - i)) = luaH_get(x, int(last - i))
      /\ \A l \in Hashable : (\A i \in 1..last - pos : int(last + 1 - i) # l) => luaH_get(z, l) = luaH_get(x, l)
    <2>1. /\ Sound(z)
          /\ (\A i \in 1..Len(up) : luaH_get(x, int(up[i][2])) # nil) => Grown(x, z)
          /\ \A i \in 1..Len(up) : luaH_get(z, int(up[i][1])) = luaH_get(x, int(up[i][2]))
          /\ \A l \in Hashable : (\A i \in 1..Len(up) : int(up[i][1]) # l) => luaH_get(z, l) = luaH_get(x, l)
        BY <1>5, MoveSound
    <2> HIDE DEF z
    <2> QED
        BY <1>4, <2>1
<1> HIDE DEF z
<1>7. Gave(z, int(pos), v, y) /\ Grown(z, y)
    BY <1>6, RawsetSound, NilFacts
<1> HIDE DEF y
<1>8. ASSUME NEW l \in Hashable, l # int(pos)
      PROVE  luaH_get(y, l) = IF l \in {int(i) : i \in pos + 1..e} THEN luaH_get(x, int(l[2] - 1)) ELSE luaH_get(x, l)
    <2>1. luaH_get(y, l) = luaH_get(z, l)
        BY <1>7, <1>8 DEF Gave
    <2>2. CASE l \in {int(i) : i \in pos + 1..e}
        <3>1. PICK i \in pos + 1..last : l = int(i)
            BY <2>2, <1>3
        <3>2. l[2] = i
            BY <3>1, IntFacts
        <3> DEFINE m == last + 1 - i
        <3>3. m \in 1..last - pos /\ last + 1 - m = i /\ last - m = i - 1
            BY <1>3
        <3>4. luaH_get(z, int(i)) = luaH_get(x, int(i - 1))
            <4> HIDE DEF m
            <4> QED
                BY <3>3, <1>6
        <3> QED
            BY <2>1, <2>2, <3>1, <3>2, <3>4
    <2>3. CASE l \notin {int(i) : i \in pos + 1..e}
        <3>1. \A i \in 1..last - pos : last + 1 - i \in pos + 1..e
            BY <1>3
        <3>2. \A i \in 1..last - pos : int(last + 1 - i) # l
            BY <2>3, <3>1
        <3> QED
            BY <2>1, <2>3, <3>2, <1>6
    <2> QED
        BY <2>2, <2>3
<1>9. Sound(y) /\ luaH_get(y, int(pos)) = v
    <2>1. int(pos) \in Hashable
        BY IntFacts
    <2> QED
        BY <2>1, <1>7 DEF Gave
<1>10. ASSUME \A i \in pos..e - 1 : luaH_get(x, int(i)) # nil
       PROVE  Grown(x, y)
    <2>1. \A i \in 1..last - pos : last - i \in pos..e - 1
        BY <1>2, <1>3
    <2>2. Grown(x, z)
        BY <2>1, <1>6, <1>10
    <2> QED
        BY <2>2, <1>7, GrownTwice
<1> QED
    BY <1>8, <1>9, <1>10 DEF y, z, up, last, e

\* table.remove moves down what is after pos.
LEMMA DrawnSound ==
    ASSUME NEW x, Sound(x), NEW pos \in 1..MaxKey, pos <= luaH_getn(x)
    PROVE  LET e == luaH_getn(x)
               down == [i \in 1..e - pos |-> <<pos + i - 1, pos + i>>]
               y == lua_rawseti(move(x, down), e, nil)
           IN  /\ Sound(y)
               /\ \A l \in Hashable : luaH_get(y, l) =
                    IF l = int(e) THEN nil
                    ELSE IF l \in {int(i) : i \in pos..e - 1} THEN luaH_get(x, int(l[2] + 1)) ELSE luaH_get(x, l)
<1> DEFINE e == luaH_getn(x)
           down == [i \in 1..e - pos |-> <<pos + i - 1, pos + i>>]
           z == move(x, down)
           y == lua_rawseti(z, e, nil)
<1>1. e \in 1..MaxKey /\ MaxKey \in Nat /\ pos \in Nat /\ e \in Nat /\ pos <= e
    BY LengthFacts, IntFacts
<1> HIDE DEF e
<1>4. /\ Len(down) = e - pos
      /\ \A i \in 1..e - pos : down[i][1] = pos + i - 1 /\ down[i][2] = pos + i
    BY <1>1
<1> HIDE DEF down
<1>5. Apart(down)
    <2>1. \A i \in 1..e - pos : pos + i - 1 \in 1..MaxKey /\ pos + i \in 1..MaxKey
        BY <1>1
    <2>2. \A i, j \in 1..e - pos : /\ pos + i - 1 = pos + j - 1 => i = j
                                   /\ i < j => pos + j # pos + i - 1
        BY <1>1
    <2>3. e - pos \in Nat
        BY <1>1
    <2> QED
        BY <2>1, <2>2, <2>3, <1>4 DEF Apart
<1>6. /\ Sound(z)
      /\ \A i \in 1..e - pos : luaH_get(z, int(pos + i - 1)) = luaH_get(x, int(pos + i))
      /\ \A l \in Hashable : (\A i \in 1..e - pos : int(pos + i - 1) # l) => luaH_get(z, l) = luaH_get(x, l)
    <2>1. /\ Sound(z)
          /\ \A i \in 1..Len(down) : luaH_get(z, int(down[i][1])) = luaH_get(x, int(down[i][2]))
          /\ \A l \in Hashable : (\A i \in 1..Len(down) : int(down[i][1]) # l) => luaH_get(z, l) = luaH_get(x, l)
        BY <1>5, MoveSound
    <2> HIDE DEF z
    <2> QED
        BY <1>4, <2>1
<1> HIDE DEF z
<1>7. Gave(z, int(e), nil, y)
    BY <1>1, <1>6, RawsetSound
<1> HIDE DEF y
<1>8. ASSUME NEW l \in Hashable, l # int(e)
      PROVE  luaH_get(y, l) = IF l \in {int(i) : i \in pos..e - 1} THEN luaH_get(x, int(l[2] + 1)) ELSE luaH_get(x, l)
    <2>1. luaH_get(y, l) = luaH_get(z, l)
        BY <1>7, <1>8 DEF Gave
    <2>2. CASE l \in {int(i) : i \in pos..e - 1}
        <3>1. PICK i \in pos..e - 1 : l = int(i)
            BY <2>2
        <3>2. l[2] = i
            BY <3>1, IntFacts
        <3> DEFINE m == i - pos + 1
        <3>3. m \in 1..e - pos /\ pos + m - 1 = i /\ pos + m = i + 1
            BY <1>1
        <3>4. luaH_get(z, int(i)) = luaH_get(x, int(i + 1))
            <4> HIDE DEF m
            <4> QED
                BY <3>3, <1>6
        <3> QED
            BY <2>1, <2>2, <3>1, <3>2, <3>4
    <2>3. CASE l \notin {int(i) : i \in pos..e - 1}
        <3>1. \A i \in 1..e - pos : pos + i - 1 \in pos..e - 1
            BY <1>1
        <3>2. \A i \in 1..e - pos : int(pos + i - 1) # l
            BY <2>3, <3>1
        <3> QED
            BY <2>1, <2>3, <3>2, <1>6
    <2> QED
        BY <2>2, <2>3
<1>9. Sound(y) /\ luaH_get(y, int(e)) = nil
    <2>1. int(e) \in Hashable
        BY <1>1, IntFacts
    <2> QED
        BY <2>1, <1>7 DEF Gave
<1> QED
    BY <1>8, <1>9 DEF y, z, down, e

\* The collector changes what no key has, or removes one key.
LEMMA TraversedSound ==
    ASSUME NEW x, Sound(x)
    PROVE  LET y == [x EXCEPT !.node = [i \in DOMAIN @ |-> IF @[i].val = nil THEN removeentry(@[i]) ELSE @[i]]]
           IN  Rekeyed(x, y) /\ Sound(y) /\ \A l \in Hashable : luaH_get(y, l) = luaH_get(x, l)
<1> DEFINE nd == [i \in Nodes(x) |-> IF x.node[i].val = nil THEN removeentry(x.node[i]) ELSE x.node[i]]
           y == WithNode(x, nd)
<1>1. x \in Tables /\ Shaped(x)
    BY TablesByFields DEF Sound
<1>2. [x EXCEPT !.node = [i \in DOMAIN @ |-> IF @[i].val = nil THEN removeentry(@[i]) ELSE @[i]]] = y
    BY DEF WithNode, Nodes
<1>3. /\ Shaped(y) /\ y.array = x.array /\ y.node = nd /\ y.dummy = x.dummy
      /\ y.lastfree = x.lastfree /\ y.ok = x.ok
    BY <1>1, NodeChanged
<1> HIDE DEF y
<1>4. ASSUME NEW j \in Nodes(x)
      PROVE  \/ nd[j] = x.node[j]
             \/ /\ x.node[j].key \in Keys /\ iscollectable(x.node[j].key) /\ x.node[j].val = nil
                /\ nd[j] = [key |-> <<"dead", x.node[j].key>>, val |-> nil, next |-> x.node[j].next]
    <2> DEFINE n == x.node[j]
    <2>1. n = [key |-> n.key, val |-> n.val, next |-> n.next] /\ n.key \in Slots
        BY <1>1, NodeFacts
    <2>2. nd[j] = IF n.val = nil THEN removeentry(n) ELSE n
        OBVIOUS
    <2> HIDE DEF n, nd
    <2>3. CASE n.val = nil /\ iscollectable(n.key)
        <3>1. n.key \in Keys
            BY <2>1, <2>3, KeyFacts, NilFacts DEF Slots
        <3>2. nd[j] = [n EXCEPT !.key = <<"dead", @>>]
            BY <2>2, <2>3 DEF removeentry
        <3>3. nd[j] = [key |-> <<"dead", n.key>>, val |-> nil, next |-> n.next]
            BY <3>2, <2>1, <2>3
        <3> QED
            BY <3>1, <3>3, <2>3 DEF n
    <2>4. CASE ~(n.val = nil /\ iscollectable(n.key))
        BY <2>2, <2>4 DEF removeentry, n
    <2> QED
        BY <2>3, <2>4
<1>5. /\ \A j \in Nodes(x) : y.node[j] = nd[j]
      /\ y.node = [j \in Nodes(x) |-> y.node[j]]
    BY <1>3
<1> HIDE DEF nd
<1>6. \A j \in Nodes(x) : \/ y.node[j] = x.node[j]
                          \/ /\ x.node[j].key \in Keys /\ iscollectable(x.node[j].key)
                             /\ y.node[j] = [key |-> <<"dead", x.node[j].key>>, val |-> nil, next |-> x.node[j].next]
    BY <1>4, <1>5
<1>7. /\ Rekeyed(x, y)
      /\ \A l, v : <<l, v>> \in Pairs(y) <=> \E j \in Nodes(x) : x.node[j] = y.node[j] /\ v # nil
                                               /\ x.node[j].key = l /\ x.node[j].val = v
    BY <1>3, <1>5, <1>6, RemovedSound
<1>8. \A j \in Nodes(x) : x.node[j].val # nil => y.node[j] = x.node[j]
    BY <1>4, <1>5
<1>9. Pairs(y) = Pairs(x)
    <2>1. ASSUME NEW l, NEW v
          PROVE  <<l, v>> \in Pairs(y) <=> <<l, v>> \in Pairs(x)
        <3>1. <<l, v>> \in Pairs(x) <=> \E j \in Nodes(x) : x.node[j].val # nil /\ x.node[j].key = l /\ x.node[j].val = v
            BY DEF Pairs
        <3>2. <<l, v>> \in Pairs(y) <=> \E j \in Nodes(x) : x.node[j] = y.node[j] /\ v # nil
                                                        /\ x.node[j].key = l /\ x.node[j].val = v
            BY <1>7
        <3>3. ASSUME NEW j \in Nodes(x)
              PROVE  (x.node[j].val # nil /\ x.node[j].key = l /\ x.node[j].val = v)
                       <=> (x.node[j] = y.node[j] /\ v # nil /\ x.node[j].key = l /\ x.node[j].val = v)
            BY <1>8
        <3> QED
            BY <3>1, <3>2, <3>3
    <2>2. \A p \in Pairs(y) \cup Pairs(x) : p = <<p[1], p[2]>>
        BY DEF Pairs
    <2> QED
        BY <2>1, <2>2
<1>10. Sound(y)
    BY <1>7, RekeyedSound
<1> QED
    BY <1>2, <1>3, <1>7, <1>9, <1>10, SameGet

\* cleartable removes an entry.
LEMMA ClearedSound ==
    ASSUME NEW x, Sound(x), NEW i \in Nodes(x), x.node[i].key[1] = "object"
    PROVE  LET k == x.node[i].key
               y == [x EXCEPT !.node[i] = removeentry([@ EXCEPT !.val = nil])]
           IN  /\ k \in Keys /\ Rekeyed(x, y) /\ Sound(y)
               /\ \A l \in Hashable : luaH_get(y, l) = IF l = k THEN nil ELSE luaH_get(x, l)
<1> DEFINE k == x.node[i].key
           entry == [key |-> <<"dead", k>>, val |-> nil, next |-> x.node[i].next]
           nd == [x.node EXCEPT ![i] = entry]
           y == WithNode(x, nd)
<1>1. x \in Tables /\ Shaped(x) /\ Single(x)
    BY TablesByFields DEF Sound
<1>2. k \in Keys /\ iscollectable(k) /\ ~isint(k) /\ k # nil /\ k \in Hashable
    <2>1. k \in Slots
        BY <1>1, NodeFacts
    <2>2. k \in Keys
        BY <2>1, KeyFacts DEF Slots, nil
    <2> QED
        BY <2>2, KeyFacts DEF iscollectable, isint, Hashable
<1>3. removeentry([x.node[i] EXCEPT !.val = nil]) = entry
    <2> DEFINE n == x.node[i]
    <2>1. n = [key |-> n.key, val |-> n.val, next |-> n.next]
        BY <1>1, NodeFacts
    <2> HIDE DEF n
    <2>2. [n EXCEPT !.val = nil] = [key |-> n.key, val |-> nil, next |-> n.next]
        BY <2>1
    <2> QED
        BY <2>2, <1>2 DEF removeentry, n
<1>4. [x EXCEPT !.node[i] = removeentry([@ EXCEPT !.val = nil])] = y
    BY <1>3 DEF WithNode
<1>5. /\ Shaped(y) /\ y.array = x.array /\ y.node = nd /\ y.dummy = x.dummy
      /\ y.lastfree = x.lastfree /\ y.ok = x.ok
    BY <1>1, NodeChanged
<1> HIDE DEF y
<1>6. /\ \A j \in Nodes(x) : y.node[j] = IF j = i THEN entry ELSE x.node[j]
      /\ y.node = [j \in Nodes(x) |-> y.node[j]]
    <2>1. x.node = [j \in Nodes(x) |-> x.node[j]]
        BY <1>1, TableFacts DEF Nodevector
    <2>2. nd = [j \in Nodes(x) |-> IF j = i THEN entry ELSE x.node[j]]
        BY <2>1
    <2> HIDE DEF nd, entry
    <2> QED
        BY <2>2, <1>5
<1> HIDE DEF nd
<1>7. /\ Rekeyed(x, y)
      /\ \A l, v : <<l, v>> \in Pairs(y) <=> \E j \in Nodes(x) : x.node[j] = y.node[j] /\ v # nil
                                               /\ x.node[j].key = l /\ x.node[j].val = v
    BY <1>1, <1>2, <1>5, <1>6, RemovedSound
<1>8. Sound(y)
    BY <1>7, RekeyedSound
<1>9. ASSUME NEW l \in Hashable
      PROVE  luaH_get(y, l) = IF l = k THEN nil ELSE luaH_get(x, l)
    <2>1. inarray(y, l) = inarray(x, l)
        BY <1>5, SameArray
    <2>2. CASE l = k
        <3>1. ~inarray(y, k)
            BY <1>2 DEF inarray
        <3>2. \A j \in Nodes(x) : x.node[j].key = k /\ x.node[j] = y.node[j] => x.node[j].val = nil
            <4> SUFFICES ASSUME NEW j \in Nodes(x), x.node[j].key = k, x.node[j] = y.node[j] PROVE FALSE
                OBVIOUS
            <4>1. i \in Filled(x) /\ j \in Filled(x)
                BY <1>2 DEF Filled
            <4>2. j = i
                BY <4>1, <1>1, <1>2 DEF Single
            <4>3. y.node[i].key = <<"dead", k>>
                BY <1>6
            <4> QED
                BY <4>2, <4>3, <1>2, KeyFacts
        <3>3. \A v : v # nil => <<k, v>> \notin Pairs(y)
            BY <3>2, <1>7
        <3> QED
            BY <2>2, <3>1, <3>3, <1>2, <1>8, GetFacts
    <2>3. CASE l # k
        <3>1. CASE inarray(x, l)
            BY <2>1, <2>3, <3>1, <1>5, <1>8, GetFacts
        <3>2. CASE ~inarray(x, l)
            <4>1. \A v : v # nil => (<<l, v>> \in Pairs(y) <=> <<l, v>> \in Pairs(x))
                <5>1. \A v : <<l, v>> \in Pairs(x) <=> \E j \in Nodes(x) : x.node[j].val # nil /\ x.node[j].key = l /\ x.node[j].val = v
                    BY DEF Pairs
                <5>2. \A j \in Nodes(x) : x.node[j].key = l => x.node[j] = y.node[j]
                    BY <2>3, <1>6
                <5> QED
                    BY <5>1, <5>2, <1>7
            <4> DEFINE a == luaH_get(x, l)
                       b == luaH_get(y, l)
            <4>2. \A v : v # nil => (a = v <=> <<l, v>> \in Pairs(x)) /\ (b = v <=> <<l, v>> \in Pairs(y))
                BY <2>1, <3>2, <1>8, GetFacts
            <4> HIDE DEF a, b
            <4>3. a = b
                <5>1. CASE a # nil
                    BY <5>1, <4>1, <4>2
                <5>2. CASE b # nil
                    BY <5>2, <4>1, <4>2
                <5> QED
                    BY <5>1, <5>2
            <4> QED
                BY <2>3, <4>3 DEF a, b
        <3> QED
            BY <3>1, <3>2
    <2> QED
        BY <2>2, <2>3
<1> QED
    BY <1>2, <1>4, <1>7, <1>8, <1>9

-----------------------------------------------------------------------------
(* Traversals *)

\* the indexes that have a value
Usedindexes(x) == {i \in 1..sizearray(x) : x.array[i] # nil}
                  \cup {sizearray(x) + i + 1 : i \in {j \in Nodes(x) : x.node[j].val # nil}}

\* what one key at a time has
Has(x, k) == k \in Keys /\ luaH_get(x, k) # nil

\* A key with a value is at the index of its value, also when a removed copy of
\* it is in its chain.
LEMMA IndexOfKey ==
    ASSUME NEW x, Sound(x), NEW k, Has(x, k)
    PROVE  /\ findindex(x, k) \in Usedindexes(x)
           /\ inarray(x, k) => findindex(x, k) = k[2]
           /\ ~inarray(x, k) => \A m \in Nodes(x) : x.node[m].key = k => findindex(x, k) = sizearray(x) + m + 1
<1>1. /\ x \in Tables /\ Homed(x) /\ Ranked(x) /\ Single(x) /\ sizearray(x) \in Nat
      /\ k \in Keys /\ k # nil /\ k \in Hashable /\ luaH_get(x, k) # nil
    BY TableFacts, NilFacts DEF Sound, Has, Hashable
<1>2. CASE inarray(x, k)
    <2>1. findindex(x, k) = k[2] /\ k[2] \in 1..sizearray(x)
        BY <1>1, <1>2 DEF findindex, inarray
    <2>2. x.array[k[2]] # nil
        BY <1>1, <1>2, GetFacts
    <2> QED
        BY <2>1, <2>2, <1>2 DEF Usedindexes
<1>3. CASE ~inarray(x, k)
    <2> DEFINE same == {i \in Nodes(x) : \/ x.node[i].key = k
                                         \/ iscollectable(k) /\ x.node[i].key = <<"dead", k>>}
               i == mainposition(x, k)
               f == found(x, i, same)
    <2>1. findindex(x, k) = IF f = NULL THEN NULL ELSE sizearray(x) + f + 1
        BY <1>1, <1>3 DEF findindex, Nodes
    <2>2. PICK r : IsRank(x, r)
        BY <1>1 DEF Ranked
    <2>3. PICK m \in Nodes(x) : x.node[m].key = k /\ x.node[m].val # nil
        <3> DEFINE v == luaH_get(x, k)
        <3>1. <<k, v>> \in Pairs(x)
            BY <1>1, <1>3, GetFacts
        <3> QED
            BY <3>1 DEF Pairs
    <2>4. m \in Filled(x) /\ Home(x, m) = i /\ i \in Nodes(x)
        <3>1. m \in Filled(x)
            BY <2>3, <1>1 DEF Filled
        <3>2. Orig(x.node[m].key) = k
            BY <2>3, <1>1, KeyFacts
        <3> QED
            BY <3>1, <3>2, <1>1, OrigFacts DEF Home
    <2>5. On(x, i, m) /\ m \in same
        BY <2>3, <2>4, <1>1 DEF Homed
    <2>6. same \in SUBSET Nodes(x)
        OBVIOUS
    <2>7. /\ f = NULL => \A j \in same : ~On(x, i, j)
          /\ f # NULL => /\ f \in same /\ On(x, i, f)
                         /\ \A j \in same : On(x, i, j) => j = f \/ r[j] < r[f]
        <3> HIDE DEF same, i
        <3> QED
            BY <2>2, <2>4, <2>6, <1>1, FoundFirst
    <2>8. f = m
        <3>1. f \in same /\ (m = f \/ r[m] < r[f])
            <4> HIDE DEF same, i, f
            <4> QED
                BY <2>5, <2>7
        <3>2. x.node[f].key = k => f = m
            BY <2>3, <2>4, <3>1, <1>1 DEF Single, Filled
        <3>3. x.node[f].key = <<"dead", k>> => r[f] < r[m]
            BY <2>2, <2>3, <3>1 DEF IsRank
        <3>4. r[f] \in Nat /\ r[m] \in Nat
            BY <2>2, <3>1 DEF IsRank
        <3> HIDE DEF f
        <3> QED
            BY <3>1, <3>2, <3>3, <3>4
    <2>9. m # NULL
        BY <1>1, <2>3, NodeFacts
    <2> HIDE DEF f
    <2>10. findindex(x, k) = sizearray(x) + m + 1
        BY <2>1, <2>8, <2>9
    <2>11. findindex(x, k) \in Usedindexes(x)
        BY <2>3, <2>10 DEF Usedindexes
    <2>12. \A j \in Nodes(x) : x.node[j].key = k => j = m
        BY <2>3, <1>1 DEF Single, Filled
    <2> QED
        BY <1>3, <2>10, <2>11, <2>12
<1> QED
    BY <1>2, <1>3

\* the key at an index
Keyat(x, i) == IF i <= sizearray(x) THEN int(i) ELSE x.node[i - sizearray(x) - 1].key

\* An index that has a value is that of one key.
LEMMA KeyOfIndex ==
    ASSUME NEW x, Sound(x), NEW i \in Usedindexes(x)
    PROVE  /\ i \in Nat \ {0} /\ Has(x, Keyat(x, i))
           /\ \A k : Has(x, k) => (findindex(x, k) = i <=> k = Keyat(x, i))
<1> DEFINE na == sizearray(x)
           l == Keyat(x, i)
<1>1. /\ x \in Tables /\ Single(x) /\ na \in Nat /\ sizenode(x) \in Nat /\ Nodes(x) = 0..sizenode(x) - 1
      /\ MaxKey \in Nat
    BY TableFacts, IntFacts DEF Sound
<1>2. i \in Nat \ {0} /\ Has(x, l) /\ findindex(x, l) = i
    <2>1. CASE i \in 1..na /\ x.array[i] # nil
        <3>1. i \in 1..MaxKey /\ i \in Nat \ {0}
            BY <2>1, <1>1 DEF Single
        <3>2. l = int(i) /\ inarray(x, l) /\ l[2] = i
            BY <2>1, <1>1, IntFacts DEF Keyat, inarray
        <3>3. l \in Keys /\ l \in Hashable
            BY <3>1, <3>2, IntFacts DEF Hashable
        <3> HIDE DEF l
        <3>4. luaH_get(x, l) = x.array[i]
            BY <3>2, <3>3, GetFacts
        <3>5. Has(x, l)
            BY <2>1, <3>3, <3>4 DEF Has
        <3> QED
            BY <3>1, <3>2, <3>5, IndexOfKey
    <2>2. CASE i \in {na + j + 1 : j \in {j \in Nodes(x) : x.node[j].val # nil}}
        <3>1. PICK j \in Nodes(x) : x.node[j].val # nil /\ i = na + j + 1
            BY <2>2
        <3>2. j \in Nat /\ i \in Nat \ {0} /\ ~(i <= na) /\ i - na - 1 = j
            BY <3>1, <1>1
        <3>3. l = x.node[j].key
            BY <3>2 DEF Keyat
        <3>4. j \in Filled(x) /\ l \in Keys /\ l \in Hashable
            BY <3>1, <3>3, LiveFacts DEF Hashable
        <3> HIDE DEF l
        <3>5. ~inarray(x, l)
            BY <3>3, <3>4, <1>1 DEF Single
        <3>6. luaH_get(x, l) = x.node[j].val
            <4> DEFINE v == x.node[j].val
            <4>1. <<l, v>> \in Pairs(x)
                BY <3>1, <3>3 DEF Pairs
            <4>2. v # nil
                BY <3>1
            <4> HIDE DEF v
            <4>3. luaH_get(x, l) = v
                BY <3>4, <3>5, <4>1, <4>2, GetFacts
            <4> QED
                BY <4>3 DEF v
        <3>7. Has(x, l)
            BY <3>1, <3>4, <3>6 DEF Has
        <3> QED
            BY <3>1, <3>2, <3>3, <3>5, <3>7, IndexOfKey
    <2> QED
        BY <2>1, <2>2 DEF Usedindexes
<1>3. ASSUME NEW k, Has(x, k), findindex(x, k) = i
      PROVE  k = l
    <2>1. k \in Keys /\ k \in Hashable
        BY <1>3 DEF Has, Hashable
    <2>2. CASE inarray(x, k)
        <3>1. k[2] = i /\ i <= na /\ k = int(i)
            BY <2>1, <2>2, <1>1, <1>3, IndexOfKey, IntFacts DEF inarray
        <3> QED
            BY <3>1 DEF Keyat
    <2>3. CASE ~inarray(x, k)
        <3>1. k \in Livekeys(x)
            BY <2>1, <2>3, <1>3, LiveFacts DEF Has
        <3>2. PICK j \in Nodes(x) : x.node[j].key = k
            BY <3>1 DEF Livekeys
        <3>3. i = na + j + 1
            BY <2>3, <3>2, <1>3, IndexOfKey
        <3>4. ~(i <= na) /\ i - na - 1 = j
            BY <3>2, <3>3, <1>1
        <3> QED
            BY <3>2, <3>4 DEF Keyat
    <2> QED
        BY <2>2, <2>3
<1> QED
    BY <1>2, <1>3

\* luaH_next finds the next key in the order of the indexes, or the end.
LEMMA NextFacts ==
    ASSUME NEW x, Sound(x), NEW k, NEW from, findindex(x, k) = from, from # NULL, from \in Int
    PROVE  LET nx == luaH_next(x, k)
           IN  /\ nx = nil => \A l : Has(x, l) => findindex(x, l) <= from
               /\ nx # nil => /\ Has(x, nx) /\ findindex(x, nx) > from
                              /\ \A l : Has(x, l) => \/ findindex(x, l) <= from
                                                     \/ l = nx \/ findindex(x, l) > findindex(x, nx)
<1> DEFINE used == {i \in 1..sizearray(x) : x.array[i] # nil}
                   \cup {sizearray(x) + i + 1 : i \in {j \in DOMAIN x.node : x.node[j].val # nil}}
           after == {i \in used : i > from}
           first == CHOOSE l \in after : \A j \in after : l <= j
           nx == luaH_next(x, k)
<1>1. used = Usedindexes(x)
    BY DEF Usedindexes, Nodes
<1>2. nx = IF after = {} THEN nil ELSE Keyat(x, first)
    BY DEF luaH_next, Keyat
<1> HIDE DEF used, nx
<1>3. \A l : Has(x, l) => findindex(x, l) \in used /\ findindex(x, l) \in Nat
    BY <1>1, IndexOfKey, KeyOfIndex
<1>4. CASE after = {}
    <2>1. nx = nil
        BY <1>2, <1>4
    <2>2. ASSUME NEW l, Has(x, l) PROVE findindex(x, l) <= from
        <3>1. findindex(x, l) \in used /\ findindex(x, l) \in Nat /\ ~(findindex(x, l) > from)
            BY <2>2, <1>3, <1>4
        <3> QED
            BY <3>1
    <2> QED
        BY <2>1, <2>2 DEF nx
<1>5. CASE after # {}
    <2>1. after \in SUBSET Nat
        BY <1>1, KeyOfIndex
    <2>2. \E n \in after : \A j \in after : n <= j
        <3> HIDE DEF after
        <3> QED
            BY <2>1, <1>5, NatLess
    <2>3. first \in after /\ \A j \in after : first <= j
        <3> HIDE DEF after
        <3> QED
            BY <2>2
    <2> HIDE DEF first
    <2>4. first \in used /\ first > from /\ nx = Keyat(x, first)
        BY <2>3, <1>2, <1>5
    <2>5. /\ first \in Nat /\ Has(x, nx)
          /\ \A l : Has(x, l) => (findindex(x, l) = first <=> l = nx)
        BY <2>4, <1>1, KeyOfIndex
    <2>6. nx # nil /\ findindex(x, nx) = first
        BY <2>5, NilFacts DEF Has
    <2>7. ASSUME NEW l, Has(x, l), ~(findindex(x, l) <= from), l # nx
          PROVE  findindex(x, l) > first
        <3> DEFINE i == findindex(x, l)
        <3>1. i \in used /\ i \in Nat /\ i # first
            BY <2>5, <2>7, <1>3
        <3>2. ~(i <= from)
            BY <2>7
        <3> HIDE DEF i
        <3>3. first <= i
            BY <2>3, <3>1, <3>2
        <3>4. i > first
            BY <3>1, <3>3, <2>5
        <3> QED
            BY <3>4 DEF i
    <2> QED
        BY <2>4, <2>5, <2>6, <2>7 DEF nx
<1> QED
    BY <1>4, <1>5

-----------------------------------------------------------------------------
(* The invariant and its steps *)

\* A traversal has seen the fields up to the index of its key, and no other.
Traversed(x, k, S) ==
  \/ k = nil /\ S = {nil}
  \/ /\ k \in Keys \cup {nil} /\ S \in SUBSET Keys /\ findindex(x, k) \in Nat
     /\ \A l : Has(x, l) => (l \in S <=> findindex(x, l) <= findindex(x, k))

TableInv == Sound(t) /\ d = Given(t) /\ Traversed(t, key, seen)

\* A traversal goes on when the keys keep their indexes and no field is new.
LEMMA TraversedStays ==
    ASSUME NEW x, Sound(x), NEW y, Rekeyed(x, y), \A l : Has(y, l) => Has(x, l),
           NEW k, NEW S, Traversed(x, k, S)
    PROVE  Traversed(y, k, S)
<1>1. CASE k = nil /\ S = {nil}
    BY <1>1 DEF Traversed
<1>2. CASE ~(k = nil /\ S = {nil})
    <2>1. /\ k \in Keys \cup {nil} /\ S \in SUBSET Keys /\ findindex(x, k) \in Nat
          /\ \A l : Has(x, l) => (l \in S <=> findindex(x, l) <= findindex(x, k))
        BY <1>2 DEF Traversed
    <2>2. \A l \in Keys \cup {nil} : findindex(y, l) = findindex(x, l)
        BY RekeyedIndex
    <2>3. \A l : Has(y, l) => (l \in S <=> findindex(y, l) <= findindex(y, k))
        BY <2>1, <2>2 DEF Has
    <2> QED
        BY <2>1, <2>2, <2>3 DEF Traversed
<1> QED
    BY <1>1, <1>2

\* The state in the words of LuaDictionary.
LEMMA DictionaryFacts ==
    ASSUME TableInv
    PROVE  /\ D!nil = nil /\ \A i : D!int(i) = int(i)
           /\ d = [l \in Keys |-> luaH_get(t, l)] /\ \A l \in Keys : d[l] = luaH_get(t, l)
           /\ D!Present = {l \in Keys : Has(t, l)} /\ (D!Walking <=> Walking)
           /\ ~Walking => key = nil /\ seen = {nil}
           /\ Walking => /\ key \in Keys \cup {nil} /\ seen \in SUBSET Keys /\ findindex(t, key) \in Nat
                         /\ \A l : Has(t, l) => (l \in seen <=> findindex(t, l) <= findindex(t, key))
           /\ \A l \in Keys : l \in Hashable
<1>1. D!nil = nil /\ \A i : D!int(i) = int(i)
    BY DEF D!nil, nil, D!int, int
<1>2. d = [l \in Keys |-> luaH_get(t, l)] /\ Traversed(t, key, seen)
    BY DEF TableInv, Given
<1>3. D!Present = {l \in Keys : Has(t, l)} /\ (D!Walking <=> Walking)
    BY <1>1, <1>2 DEF D!Present, D!Walking, Walking, Has
<1>4. \A l \in Keys : l \in Hashable
    BY DEF Hashable
<1>5. \A l \in Keys : d[l] = luaH_get(t, l)
    BY <1>2
<1>6. seen = {nil} => ~(seen \in SUBSET Keys)
    BY NilFacts
<1>7. ~Walking => key = nil /\ seen = {nil}
    BY <1>2, <1>6 DEF Traversed, Walking
<1>8. Walking => /\ key \in Keys \cup {nil} /\ seen \in SUBSET Keys /\ findindex(t, key) \in Nat
                 /\ \A l : Has(t, l) => (l \in seen <=> findindex(t, l) <= findindex(t, key))
    BY <1>2 DEF Traversed, Walking
<1> QED
    BY <1>1, <1>2, <1>3, <1>4, <1>5, <1>7, <1>8

\* The table becomes y outside of a traversal.
LEMMA BecomesInv ==
    ASSUME TableInv, ~Walking, NEW y, Sound(y), Becomes(y)
    PROVE  TableInv' /\ d' = [l \in Keys |-> luaH_get(y, l)] /\ UNCHANGED seen
<1>1. t' = y /\ d' = Given(y) /\ key' = key /\ seen' = seen
    BY DEF Becomes
<1>2. key = nil /\ seen = {nil}
    BY DictionaryFacts
<1> QED
    BY <1>1, <1>2 DEF TableInv, Traversed, Given

\* The table becomes y, at any time.
LEMMA RekeyedInv ==
    ASSUME TableInv, NEW y, Sound(y), Rekeyed(t, y), \A l : Has(y, l) => Has(t, l), Becomes(y)
    PROVE  TableInv' /\ d' = [l \in Keys |-> luaH_get(y, l)] /\ UNCHANGED seen
<1>1. t' = y /\ d' = Given(y) /\ key' = key /\ seen' = seen
    BY DEF Becomes
<1>2. Traversed(y, key, seen)
    BY TraversedStays DEF TableInv
<1> QED
    BY <1>1, <1>2 DEF TableInv, Given

\* OP_SETTABLE and lua_rawset
LEMMA SetStep ==
    ASSUME TableInv, NEW k \in Keys, NEW v \in Values \cup {nil}, Set(k, v)
    PROVE  TableInv' /\ D!Next
<1> DEFINE y == Put(t, k, v)
<1>1. Sound(t) /\ Becomes(y) /\ (Walking => d[k] # nil)
    BY DEF TableInv, Set
<1>2. Gave(t, k, v, y)
    BY <1>1, PutSound
<1>3. Sound(y) /\ \A l \in Keys : luaH_get(y, l) = IF l = k THEN v ELSE luaH_get(t, l)
    BY <1>2, DictionaryFacts DEF Gave
<1>4. TableInv' /\ d' = [l \in Keys |-> luaH_get(y, l)] /\ UNCHANGED seen
    <2>1. CASE ~Walking
        <3> HIDE DEF y
        <3> QED
            BY <2>1, <1>1, <1>3, BecomesInv
    <2>2. CASE Walking
        <3>1. luaH_get(t, k) # nil /\ Has(t, k)
            BY <2>2, <1>1, DictionaryFacts DEF Has
        <3>2. has(t, k)
            BY <3>1, <1>1, DictionaryFacts, GetFacts
        <3>3. y = assign(t, k, v)
            BY <3>2 DEF Put, luaH_set
        <3>4. Assigned(t, k, v, assign(t, k, v))
            BY <3>2, <1>1, AssignSound
        <3> HIDE DEF y
        <3>5. Rekeyed(t, y)
            BY <3>3, <3>4 DEF Assigned
        <3>6. \A l : Has(y, l) => Has(t, l)
            BY <3>1, <1>3 DEF Has
        <3> QED
            BY <1>1, <1>3, <3>5, <3>6, RekeyedInv
    <2> QED
        BY <2>1, <2>2
<1> HIDE DEF y
<1>5. d' = [d EXCEPT ![k] = v]
    BY <1>3, <1>4, DictionaryFacts
<1>6. D!Assign(k, v)
    BY <1>1, <1>5, DictionaryFacts DEF D!Assign, D!Present
<1>7. v \in Values \cup {D!nil}
    BY DictionaryFacts
<1> QED
    BY <1>4, <1>6, <1>7 DEF D!Next

\* OP_SETLIST
LEMMA SetListStep ==
    ASSUME TableInv, NEW n \in 1..MaxKey, NEW v \in Values, SetList(n, v)
    PROVE  TableInv' /\ D!Next
<1> DEFINE presized == IF n > sizearray(t) THEN resize(t, n, IF t.dummy THEN 0 ELSE sizenode(t)) ELSE t
           y == setall(presized, n, v)
<1>1. Sound(t) /\ Becomes(y) /\ ~Walking
    BY DEF TableInv, SetList
<1>2. /\ Sound(y)
      /\ \A l \in Hashable : luaH_get(y, l) = IF l \in {int(i) : i \in 1..n} THEN v ELSE luaH_get(t, l)
    BY <1>1, SetListSound
<1> HIDE DEF y
<1>3. TableInv' /\ d' = [l \in Keys |-> luaH_get(y, l)] /\ UNCHANGED seen
    BY <1>1, <1>2, BecomesInv
<1>4. d' = [l \in Keys |-> IF l \in {D!int(i) : i \in 1..n} THEN v ELSE d[l]]
    BY <1>2, <1>3, DictionaryFacts
<1>5. D!SetList(n, v)
    BY <1>1, <1>4, DictionaryFacts DEF D!SetList
<1> QED
    BY <1>3, <1>5 DEF D!Next

\* The length is a border.
LEMMA BorderFacts ==
    ASSUME TableInv
    PROVE  luaH_getn(t) \in D!Borders /\ luaH_getn(t) \in 0..MaxKey /\ MaxKey \in Nat
<1> DEFINE n == luaH_getn(t)
<1>1. IsBorder(t, n) /\ n \in 0..MaxKey /\ MaxKey \in Nat
    BY LengthFacts, IntFacts DEF TableInv
<1> HIDE DEF n
<1>2. n = 0 \/ d[int(n)] # nil
    <2>1. n # 0 => int(n) \in Keys
        BY <1>1, IntFacts
    <2> QED
        BY <2>1, <1>1, DictionaryFacts DEF IsBorder, getnum
<1>3. n = MaxKey \/ d[int(n + 1)] = nil
    <2>1. n # MaxKey => n + 1 \in 1..MaxKey
        BY <1>1
    <2>2. n # MaxKey => int(n + 1) \in Keys
        BY <2>1, IntFacts
    <2> QED
        BY <2>2, <1>1, DictionaryFacts DEF IsBorder, getnum
<1> QED
    BY <1>1, <1>2, <1>3, DictionaryFacts DEF D!Borders, n

\* table.insert with a position
LEMMA InsertStep ==
    ASSUME TableInv, NEW pos \in 1..MaxKey, NEW v \in Values, tinsert(pos, v)
    PROVE  TableInv' /\ D!Insert(pos, v) /\ UNCHANGED seen
<1> DEFINE e == luaH_getn(t) + 1
           last == IF pos > e THEN pos ELSE e
           up == [i \in 1..last - pos |-> <<last + 1 - i, last - i>>]
           y == lua_rawseti(move(t, up), pos, v)
<1>1. Sound(t) /\ Becomes(y) /\ ~Walking /\ e <= MaxKey
    BY DEF TableInv, tinsert
<1>2. /\ Sound(y)
      /\ \A l \in Hashable : luaH_get(y, l) =
           IF l = int(pos) THEN v
           ELSE IF l \in {int(i) : i \in pos + 1..e} THEN luaH_get(t, int(l[2] - 1)) ELSE luaH_get(t, l)
    BY <1>1, InsertedSound
<1> HIDE DEF y
<1>3. TableInv' /\ d' = [l \in Keys |-> luaH_get(y, l)] /\ UNCHANGED seen
    BY <1>1, <1>2, BecomesInv
<1> DEFINE n == luaH_getn(t)
<1>4. n \in D!Borders /\ n \in 0..MaxKey /\ n < MaxKey /\ e = n + 1 /\ MaxKey \in Nat
    BY <1>1, BorderFacts
<1> HIDE DEF n, e
<1>5. ASSUME NEW i \in pos + 1..e
      PROVE  int(i)[2] = i /\ luaH_get(t, int(i - 1)) = d[int(i - 1)]
    <2>1. i - 1 \in 1..MaxKey
        BY <1>4
    <2>2. int(i - 1) \in Keys
        BY <2>1, IntFacts
    <2> QED
        BY <2>2, IntFacts, DictionaryFacts
<1>6. ASSUME NEW l \in Keys
      PROVE  luaH_get(y, l) = IF l = D!int(pos) THEN v
                              ELSE IF l \in {D!int(i) : i \in pos + 1..n + 1} THEN d[D!int(l[2] - 1)] ELSE d[l]
    <2>1. {D!int(i) : i \in pos + 1..n + 1} = {int(i) : i \in pos + 1..e}
        BY <1>4, DictionaryFacts
    <2>2. l \in {int(i) : i \in pos + 1..e} => luaH_get(t, int(l[2] - 1)) = d[int(l[2] - 1)]
        BY <1>5
    <2> QED
        BY <2>1, <2>2, <1>2, DictionaryFacts
<1>7. D!Insert(pos, v)
    BY <1>1, <1>3, <1>4, <1>6, DictionaryFacts DEF D!Insert
<1> QED
    BY <1>3, <1>7

\* table.insert without a position
LEMMA AppendStep ==
    ASSUME TableInv, NEW v \in Values, tinsert(luaH_getn(t) + 1, v)
    PROVE  TableInv' /\ D!Next
<1> DEFINE pos == luaH_getn(t) + 1
<1>1. luaH_getn(t) \in 0..MaxKey /\ pos <= MaxKey /\ MaxKey \in Nat
    BY BorderFacts DEF tinsert
<1>2. pos \in 1..MaxKey
    BY <1>1
<1>3. tinsert(pos, v)
    OBVIOUS
<1> HIDE DEF pos
<1>4. TableInv' /\ D!Insert(pos, v) /\ UNCHANGED seen
    BY <1>2, <1>3, InsertStep
<1> QED
    BY <1>2, <1>4 DEF D!Next

\* table.remove
LEMMA RemoveStep ==
    ASSUME TableInv, NEW pos \in 1..MaxKey, tremove(pos)
    PROVE  TableInv' /\ D!Next
<1> DEFINE e == luaH_getn(t)
           from == IF pos <= e THEN pos ELSE e
           down == [i \in 1..e - from |-> <<from + i - 1, from + i>>]
           y == lua_rawseti(move(t, down), e, nil)
<1>1. Sound(t) /\ Becomes(y) /\ ~Walking /\ e # 0
    BY DEF TableInv, tremove
<1>2. from \in 1..MaxKey /\ from <= e /\ from..e - 1 = pos..e - 1
    BY <1>1, LengthFacts, IntFacts
<1> HIDE DEF from
<1>3. /\ Sound(y)
      /\ \A l \in Hashable : luaH_get(y, l) =
           IF l = int(e) THEN nil
           ELSE IF l \in {int(i) : i \in pos..e - 1} THEN luaH_get(t, int(l[2] + 1)) ELSE luaH_get(t, l)
    BY <1>1, <1>2, DrawnSound
<1> HIDE DEF y
<1>4. TableInv' /\ d' = [l \in Keys |-> luaH_get(y, l)] /\ UNCHANGED seen
    BY <1>1, <1>3, BecomesInv
<1>5. e \in D!Borders /\ e \in 0..MaxKey /\ MaxKey \in Nat
    BY BorderFacts
<1> HIDE DEF e
<1>6. ASSUME NEW i \in pos..e - 1
      PROVE  int(i)[2] = i /\ luaH_get(t, int(i + 1)) = d[int(i + 1)]
    <2>1. i + 1 \in 1..MaxKey
        BY <1>5
    <2>2. int(i + 1) \in Keys
        BY <2>1, IntFacts
    <2> QED
        BY <2>2, IntFacts, DictionaryFacts
<1>7. ASSUME NEW l \in Keys
      PROVE  luaH_get(y, l) = IF l = D!int(e) THEN D!nil
                              ELSE IF l \in {D!int(i) : i \in pos..e - 1} THEN d[D!int(l[2] + 1)] ELSE d[l]
    <2>1. {D!int(i) : i \in pos..e - 1} = {int(i) : i \in pos..e - 1}
        BY DictionaryFacts
    <2>2. l \in {int(i) : i \in pos..e - 1} => luaH_get(t, int(l[2] + 1)) = d[int(l[2] + 1)]
        BY <1>6
    <2> QED
        BY <2>1, <2>2, <1>3, DictionaryFacts
<1>8. D!Remove(pos)
    BY <1>1, <1>4, <1>5, <1>7, DictionaryFacts DEF D!Remove
<1> QED
    BY <1>4, <1>8 DEF D!Next

\* next, in a traversal or at its start
LEMMA NextStep ==
    ASSUME TableInv, luaB_next
    PROVE  TableInv' /\ D!Next
<1>1. Sound(t) /\ d = Given(t) /\ t' = t /\ d' = d
    BY DEF TableInv, luaB_next
<1>2. CASE key' = nil /\ seen' = {}
    <2>1. findindex(t, nil) = 0
        BY DEF findindex
    <2>2. \A l : Has(t, l) => findindex(t, l) \in Nat \ {0}
        BY <1>1, IndexOfKey, KeyOfIndex
    <2>3. \A l : Has(t, l) => ~(findindex(t, l) <= 0)
        BY <2>2
    <2>4. Traversed(t, nil, {})
        BY <2>1, <2>3 DEF Traversed
    <2>5. TableInv'
        BY <1>1, <1>2, <2>4 DEF TableInv, Given
    <2>6. D!Begin /\ UNCHANGED d
        BY <1>1, <1>2 DEF D!Begin
    <2> QED
        BY <2>5, <2>6 DEF D!Next
<1>3. CASE ~(key' = nil /\ seen' = {})
    <2> DEFINE from == findindex(t, key)
               nx == luaH_next(t, key)
    <2>1. Walking /\ key' = nx /\ seen' = IF key' = nil THEN {nil} ELSE seen \cup {key'}
        BY <1>3 DEF luaB_next
    <2>2. /\ key \in Keys \cup {nil} /\ seen \in SUBSET Keys /\ from \in Nat
          /\ \A l : Has(t, l) => (l \in seen <=> findindex(t, l) <= from)
        BY <2>1, DictionaryFacts
    <2>3. from # NULL /\ from \in Int
        BY <2>2 DEF NULL
    <2> HIDE DEF from
    <2>4. /\ nx = nil => \A l : Has(t, l) => findindex(t, l) <= from
          /\ nx # nil => /\ Has(t, nx) /\ findindex(t, nx) > from
                         /\ \A l : Has(t, l) => \/ findindex(t, l) <= from
                                                \/ l = nx \/ findindex(t, l) > findindex(t, nx)
        BY <1>1, <2>3, NextFacts DEF from
    <2>5. \A l : Has(t, l) => findindex(t, l) \in Nat
        BY <1>1, IndexOfKey, KeyOfIndex
    <2> HIDE DEF nx
    <2>6. CASE nx = nil
        <3>1. key' = nil /\ seen' = {nil}
            BY <2>1, <2>6
        <3>2. TableInv'
            BY <1>1, <3>1 DEF TableInv, Traversed, Given
        <3>3. D!Present \subseteq seen
            BY <2>2, <2>4, <2>6, DictionaryFacts
        <3>4. D!End
            BY <2>1, <3>1, <3>3, DictionaryFacts DEF D!End
        <3> QED
            BY <1>1, <3>2, <3>4 DEF D!Next
    <2>7. CASE nx # nil
        <3>1. key' = nx /\ seen' = seen \cup {nx} /\ nx \in Keys
            BY <2>1, <2>4, <2>7 DEF Has
        <3>2. nx \notin seen
            <4>1. ~(findindex(t, nx) <= from)
                BY <2>2, <2>4, <2>5, <2>7
            <4> QED
                BY <4>1, <2>2, <2>4, <2>7
        <3>3. ASSUME NEW l, Has(t, l)
              PROVE  l \in seen \cup {nx} <=> findindex(t, l) <= findindex(t, nx)
            <4> DEFINE i == findindex(t, l)
                       j == findindex(t, nx)
            <4>1. i \in Nat /\ j \in Nat /\ j > from /\ (l \in seen <=> i <= from)
                BY <2>2, <2>4, <2>5, <2>7, <3>3
            <4>2. i <= from \/ l = nx \/ i > j
                BY <2>4, <2>7, <3>3
            <4>3. l = nx => i = j
                OBVIOUS
            <4> HIDE DEF i, j
            <4>4. l \in seen \cup {nx} <=> i <= j
                BY <2>2, <4>1, <4>2, <4>3
            <4> QED
                BY <4>4 DEF i, j
        <3>4. Traversed(t, nx, seen \cup {nx})
            BY <2>2, <2>4, <2>5, <2>7, <3>1, <3>3 DEF Traversed
        <3>5. TableInv'
            BY <1>1, <3>1, <3>4 DEF TableInv, Given
        <3>6. D!Visit(nx)
            BY <2>1, <2>4, <2>7, <3>1, <3>2, DictionaryFacts DEF D!Visit
        <3> QED
            BY <1>1, <3>1, <3>5, <3>6 DEF D!Next
    <2> QED
        BY <2>6, <2>7
<1> QED
    BY <1>2, <1>3

\* the collector marks a table
LEMMA TraverseStep ==
    ASSUME TableInv, traversetable
    PROVE  TableInv' /\ UNCHANGED <<d, seen>>
<1> DEFINE y == [t EXCEPT !.node = [i \in DOMAIN @ |-> IF @[i].val = nil THEN removeentry(@[i]) ELSE @[i]]]
<1>1. Sound(t) /\ Becomes(y)
    BY DEF TableInv, traversetable
<1>2. Rekeyed(t, y) /\ Sound(y) /\ \A l \in Hashable : luaH_get(y, l) = luaH_get(t, l)
    BY <1>1, TraversedSound
<1> HIDE DEF y
<1>3. \A l : Has(y, l) => Has(t, l)
    BY <1>2, DictionaryFacts DEF Has
<1>4. TableInv' /\ d' = [l \in Keys |-> luaH_get(y, l)] /\ UNCHANGED seen
    BY <1>1, <1>2, <1>3, RekeyedInv
<1>5. d' = d
    BY <1>2, <1>4, DictionaryFacts
<1> QED
    BY <1>4, <1>5

\* the collector clears a weak table
LEMMA ClearStep ==
    ASSUME TableInv, cleartable
    PROVE  TableInv' /\ (D!Next \/ UNCHANGED <<d, seen>>)
<1>1. PICK i \in Nodes(t) : /\ t.node[i].key[1] = "object" /\ t.node[i].key # key
                            /\ Becomes([t EXCEPT !.node[i] = removeentry([@ EXCEPT !.val = nil])])
    BY DEF cleartable, Nodes
<1> DEFINE k == t.node[i].key
           y == [t EXCEPT !.node[i] = removeentry([@ EXCEPT !.val = nil])]
<1>2. Sound(t) /\ Becomes(y)
    BY <1>1 DEF TableInv
<1>3. /\ k \in Keys /\ Rekeyed(t, y) /\ Sound(y)
      /\ \A l \in Hashable : luaH_get(y, l) = IF l = k THEN nil ELSE luaH_get(t, l)
    BY <1>1, <1>2, ClearedSound
<1> HIDE DEF k, y
<1>4. \A l : Has(y, l) => Has(t, l)
    BY <1>3, DictionaryFacts DEF Has
<1>5. TableInv' /\ d' = [l \in Keys |-> luaH_get(y, l)] /\ UNCHANGED seen
    BY <1>2, <1>3, <1>4, RekeyedInv
<1>6. d' = [d EXCEPT ![k] = nil]
    BY <1>3, <1>5, DictionaryFacts
<1>7. CASE d[k] = nil
    BY <1>5, <1>6, <1>7, DictionaryFacts
<1>8. CASE d[k] # nil
    <2>1. D!Assign(k, D!nil)
        BY <1>3, <1>6, <1>8, DictionaryFacts DEF D!Assign, D!Present
    <2> QED
        BY <1>3, <1>5, <2>1 DEF D!Next
<1> QED
    BY <1>7, <1>8

\* A new table is sound and has nothing.
LEMMA InitInv == Init => TableInv /\ D!Init
<1> SUFFICES ASSUME Init PROVE TableInv /\ D!Init
    OBVIOUS
<1>1. PICK s \in Sizes : t = luaH_new(s[1], s[2])
    BY DEF Init
<1>2. s[1] \in Nat /\ s[2] \in Nat
    BY <1>1, BoundsAssumption
<1>3. Sound(t) /\ \A l \in Hashable : luaH_get(t, l) = nil
    BY <1>1, <1>2, NewSound
<1>4. TableInv
    BY <1>3 DEF Init, TableInv, Traversed
<1>5. d = [l \in Keys |-> nil]
    BY <1>3, <1>4, DictionaryFacts
<1>6. D!Init
    BY <1>4, <1>5, DictionaryFacts DEF D!Init, Init
<1> QED
    BY <1>4, <1>6

\* Every step keeps the invariant, and is one of LuaDictionary or none there.
LEMMA NextInv == TableInv /\ [Next]_vars => TableInv' /\ [D!Next]_<<d, seen>>
<1> SUFFICES ASSUME TableInv, [Next]_vars
             PROVE  TableInv' /\ [D!Next]_<<d, seen>>
    OBVIOUS
<1>1. ASSUME NEW k \in Keys, NEW v \in Values \cup {nil}, Set(k, v)
      PROVE  TableInv' /\ D!Next
    BY <1>1, SetStep
<1>2. ASSUME NEW n \in 1..MaxKey, NEW v \in Values, SetList(n, v)
      PROVE  TableInv' /\ D!Next
    BY <1>2, SetListStep
<1>3. ASSUME NEW pos \in 1..MaxKey, NEW v \in Values, tinsert(pos, v)
      PROVE  TableInv' /\ D!Next
    <2>1. TableInv' /\ D!Insert(pos, v) /\ UNCHANGED seen
        BY <1>3, InsertStep
    <2> QED
        BY <2>1 DEF D!Next
<1>4. ASSUME NEW v \in Values, tinsert(luaH_getn(t) + 1, v)
      PROVE  TableInv' /\ D!Next
    BY <1>4, AppendStep
<1>5. ASSUME NEW pos \in 1..MaxKey, tremove(pos)
      PROVE  TableInv' /\ D!Next
    BY <1>5, RemoveStep
<1>6. CASE luaB_next
    BY <1>6, NextStep
<1>7. CASE traversetable
    BY <1>7, TraverseStep
<1>8. CASE cleartable
    BY <1>8, ClearStep
<1>9. CASE UNCHANGED vars
    BY <1>9 DEF vars, TableInv, Given
<1> QED
    BY <1>1, <1>2, <1>3, <1>4, <1>5, <1>6, <1>7, <1>8, <1>9 DEF Next

\* ltable.c: the invariant holds.
THEOREM TableInvariant == Spec => []TableInv
<1>1. Init => TableInv
    BY InitInv
<1>2. TableInv /\ [Next]_vars => TableInv'
    BY NextInv
<1> QED
    BY <1>1, <1>2, PTL DEF Spec

\* ltable.c:15: an element that is not in its main position has there one that
\* is in its own, no key is in two nodes and no assertion of newkey fails.
THEOREM NodesAlwaysSound == Spec => []NodesSound
<1>1. TableInv => NodesSound
    <2> SUFFICES ASSUME TableInv PROVE NodesSound
        OBVIOUS
    <2>1. /\ t \in Tables /\ Homed(t) /\ Single(t) /\ t.ok
          /\ \A j \in Nodes(t) : t.node[j].val # nil => j \in Filled(t) /\ t.node[j].key \in Keys
        BY LiveFacts DEF TableInv, Sound
    <2> DEFINE live == {i \in DOMAIN t.node : t.node[i].val # nil}
               main(i) == mainposition(t, t.node[i].key)
    <2>2. ASSUME NEW i \in live
          PROVE  main(i) = i \/ main(i) \notin live \/ main(main(i)) = main(i)
        <3>1. i \in Filled(t) /\ t.node[i].key \in Keys
            BY <2>1 DEF Nodes
        <3>2. main(i) = Home(t, i)
            BY <3>1, KeyFacts DEF Home
        <3>3. Home(t, Home(t, i)) = Home(t, i)
            BY <2>1, <3>1 DEF Homed
        <3>4. main(i) \in live => main(main(i)) = Home(t, main(i))
            BY <2>1, KeyFacts DEF Home, Nodes
        <3> QED
            BY <3>2, <3>3, <3>4
    <2>3. \A i, j \in live : t.node[i].key = t.node[j].key => i = j
        BY <2>1 DEF Nodes, Single
    <2> QED
        BY <2>1, <2>2, <2>3 DEF NodesSound
<1> QED
    BY <1>1, TableInvariant, PTL

\* ltable.c, ltablib.c, lgc.c: a table gives each key the value it was last
\* given, its length is a border, and a traversal meets every field once.
THEOREM TableIsDictionary == Spec => IsDictionary
<1>1. Init => TableInv /\ D!Init
    BY InitInv
<1>2. TableInv /\ [Next]_vars => TableInv' /\ [D!Next]_(D!vars)
    BY NextInv DEF D!vars
<1> QED
    BY <1>1, <1>2, PTL DEF Spec, IsDictionary, D!Spec

-----------------------------------------------------------------------------
(* The use of the array *)

\* When an addition gives the array another size, more than half is in use.
Halfkept == sizearray(t') # sizearray(t) /\ D!Present \subseteq D!Present' /\ d' # d => Half(t')

\* the fields after a step
LEMMA AfterFacts ==
    ASSUME TableInv, NEW y, Becomes(y)
    PROVE  /\ t' = y /\ \A l \in Keys : d'[l] = luaH_get(y, l)
           /\ D!Present' = {l \in Keys : luaH_get(y, l) # nil}
           /\ D!Present = {l \in Keys : luaH_get(t, l) # nil}
           /\ d = [l \in Keys |-> luaH_get(t, l)] /\ d' = [l \in Keys |-> luaH_get(y, l)]
<1>1. t' = y /\ d' = [l \in Keys |-> luaH_get(y, l)] /\ d = [l \in Keys |-> luaH_get(t, l)]
    BY DEF Becomes, Given, TableInv
<1>2. D!Present' = {l \in Keys : luaH_get(y, l) # nil}
    BY <1>1 DEF D!Present, D!nil, nil
<1>3. D!Present = {l \in Keys : luaH_get(t, l) # nil}
    BY <1>1 DEF D!Present, D!nil, nil
<1> QED
    BY <1>1, <1>2, <1>3

\* An assignment resizes for its new key.
LEMMA SetHalf ==
    ASSUME TableInv, NEW k \in Keys, NEW v \in Values \cup {nil}, Set(k, v)
    PROVE  Halfkept
<1> DEFINE y == Put(t, k, v)
<1>1. Sound(t) /\ Becomes(y)
    BY DEF TableInv, Set
<1>2. \A l \in Keys : luaH_get(y, l) = IF l = k THEN v ELSE luaH_get(t, l)
    BY <1>1, PutSound, DictionaryFacts DEF Gave
<1>3. v # nil => Grown(t, y)
    BY <1>1, PutGrown
<1> HIDE DEF y
<1>4. CASE v = nil
    <2>1. CASE luaH_get(t, k) = nil
        <3>1. d' = d
            BY <1>1, <1>2, <1>4, <2>1, AfterFacts
        <3> QED
            BY <3>1 DEF Halfkept
    <2>2. CASE luaH_get(t, k) # nil
        <3>1. k \in D!Present /\ k \notin D!Present'
            BY <1>1, <1>2, <1>4, <2>2, AfterFacts
        <3> QED
            BY <3>1 DEF Halfkept
    <2> QED
        BY <2>1, <2>2
<1>5. CASE v # nil
    BY <1>1, <1>3, <1>5, AfterFacts DEF Halfkept, Grown
<1> QED
    BY <1>4, <1>5

\* A constructor fills the array it asked for.
LEMMA SetListHalf ==
    ASSUME TableInv, NEW n \in 1..MaxKey, NEW v \in Values, SetList(n, v)
    PROVE  Halfkept
<1> DEFINE presized == IF n > sizearray(t) THEN resize(t, n, IF t.dummy THEN 0 ELSE sizenode(t)) ELSE t
           y == setall(presized, n, v)
<1>1. Sound(t) /\ Becomes(y)
    BY DEF TableInv, SetList
<1>2. sizearray(y) = sizearray(t) \/ Half(y)
    BY <1>1, SetListSound
<1> HIDE DEF y
<1> QED
    BY <1>1, <1>2, AfterFacts DEF Halfkept

\* An insertion that keeps every field moves a run without holes.
LEMMA InsertHalf ==
    ASSUME TableInv, NEW pos \in 1..MaxKey, NEW v \in Values, tinsert(pos, v)
    PROVE  Halfkept
<1> DEFINE e == luaH_getn(t) + 1
           last == IF pos > e THEN pos ELSE e
           up == [i \in 1..last - pos |-> <<last + 1 - i, last - i>>]
           y == lua_rawseti(move(t, up), pos, v)
<1>1. Sound(t) /\ Becomes(y) /\ e <= MaxKey
    BY DEF TableInv, tinsert
<1>2. /\ (\A i \in pos..e - 1 : luaH_get(t, int(i)) # nil) => Grown(t, y)
      /\ \A l \in Hashable : luaH_get(y, l) =
           IF l = int(pos) THEN v
           ELSE IF l \in {int(i) : i \in pos + 1..e} THEN luaH_get(t, int(l[2] - 1)) ELSE luaH_get(t, l)
    BY <1>1, InsertedSound
<1> HIDE DEF y
<1>3. IsBorder(t, e - 1) /\ e - 1 \in 0..MaxKey /\ MaxKey \in Nat /\ e \in Nat /\ pos \in Nat \ {0}
    <2>1. IsBorder(t, luaH_getn(t)) /\ luaH_getn(t) \in 0..MaxKey /\ MaxKey \in Nat
        BY <1>1, LengthFacts, IntFacts
    <2> QED
        BY <2>1
<1> HIDE DEF e
<1>4. ASSUME D!Present \subseteq D!Present', pos <= e - 1
      PROVE  \A i \in pos..e - 1 : luaH_get(t, int(i)) # nil
    <2> DEFINE N == e - 1 - pos
               Good == {m \in 0..N : luaH_get(t, int(e - 1 - m)) # nil}
    <2>1. N \in Nat
        BY <1>3, <1>4
    <2>2. 0 \in Good
        <3>1. e - 1 # 0 /\ e - 1 - 0 = e - 1 /\ 0 \in 0..N
            BY <1>3, <1>4
        <3>2. luaH_get(t, int(e - 1)) # nil
            BY <3>1, <1>3 DEF IsBorder, getnum
        <3> QED
            BY <3>1, <3>2
    <2>3. ASSUME NEW m \in 1..N, m - 1 \in Good
          PROVE  m \in Good
        <3> DEFINE i == e - m
        <3>1. i = e - 1 - (m - 1) /\ i - 1 = e - 1 - m /\ i \in pos + 1..e - 1 /\ i \in 1..MaxKey /\ m \in 0..N
            BY <1>3, <1>4
        <3>2. luaH_get(t, int(i)) # nil
            BY <3>1, <2>3
        <3> HIDE DEF i
        <3>3. int(i) \in Keys /\ int(i)[2] = i /\ i # pos /\ i \in pos + 1..e
            BY <3>1, <1>3, IntFacts
        <3>4. luaH_get(y, int(i)) # nil
            BY <3>2, <3>3, <1>1, <1>4, AfterFacts
        <3>5. int(i) # int(pos) /\ int(i) \in Hashable
            BY <3>3, IntFacts, DictionaryFacts
        <3>6. luaH_get(y, int(i)) = luaH_get(t, int(i - 1))
            BY <3>3, <3>5, <1>2
        <3> QED
            BY <3>1, <3>4, <3>6
    <2>4. \A m \in 0..N : m \in Good
        <3> HIDE DEF Good, N
        <3> QED
            BY <2>1, <2>2, <2>3, UpTo
    <2>5. ASSUME NEW i \in pos..e - 1
          PROVE  luaH_get(t, int(i)) # nil
        <3>1. e - 1 - i \in 0..N /\ e - 1 - (e - 1 - i) = i
            BY <1>3, <1>4
        <3>2. luaH_get(t, int(e - 1 - (e - 1 - i))) # nil
            BY <2>4, <3>1
        <3> QED
            BY <3>1, <3>2
    <2> QED
        BY <2>5
<1>5. ~(pos <= e - 1) => pos..e - 1 = {}
    BY <1>3
<1>6. D!Present \subseteq D!Present' => Grown(t, y)
    BY <1>2, <1>4, <1>5
<1> QED
    BY <1>1, <1>6, AfterFacts DEF Halfkept, Grown

\* A removal keeps not every field.
LEMMA RemoveHalf ==
    ASSUME TableInv, NEW pos \in 1..MaxKey, tremove(pos)
    PROVE  Halfkept
<1> DEFINE e == luaH_getn(t)
           from == IF pos <= e THEN pos ELSE e
           down == [i \in 1..e - from |-> <<from + i - 1, from + i>>]
           y == lua_rawseti(move(t, down), e, nil)
<1>1. Sound(t) /\ Becomes(y) /\ e # 0
    BY DEF TableInv, tremove
<1>2. from \in 1..MaxKey /\ from <= e /\ from..e - 1 = pos..e - 1
    BY <1>1, LengthFacts, IntFacts
<1> HIDE DEF from
<1>3. \A l \in Hashable : luaH_get(y, l) =
        IF l = int(e) THEN nil
        ELSE IF l \in {int(i) : i \in pos..e - 1} THEN luaH_get(t, int(l[2] + 1)) ELSE luaH_get(t, l)
    BY <1>1, <1>2, DrawnSound
<1> HIDE DEF y
<1>4. IsBorder(t, e) /\ e \in 0..MaxKey /\ MaxKey \in Nat
    BY <1>1, LengthFacts, IntFacts
<1> HIDE DEF e
<1>5. e \in 1..MaxKey /\ e # 0
    BY <1>1, <1>4
<1>6. int(e) \in Keys /\ int(e) \in Hashable /\ luaH_get(t, int(e)) # nil
    BY <1>4, <1>5, IntFacts, DictionaryFacts DEF IsBorder, getnum
<1>7. int(e) \in D!Present /\ int(e) \notin D!Present'
    BY <1>1, <1>3, <1>6, AfterFacts
<1> QED
    BY <1>7 DEF Halfkept

\* ltable.c:198: when a new key makes a table give its array another size, more
\* than half of it is in use.
THEOREM ArrayMoreThanHalfUsed == Spec => ArrayHalfUsed
<1>1. TableInv /\ [Next]_vars => [Halfkept]_vars
    <2> SUFFICES ASSUME TableInv, [Next]_vars PROVE Halfkept
        OBVIOUS
    <2>1. ASSUME NEW k \in Keys, NEW v \in Values \cup {nil}, Set(k, v)
          PROVE  Halfkept
        BY <2>1, SetHalf
    <2>2. ASSUME NEW n \in 1..MaxKey, NEW v \in Values, SetList(n, v)
          PROVE  Halfkept
        BY <2>2, SetListHalf
    <2>3. ASSUME NEW pos \in 1..MaxKey, NEW v \in Values, tinsert(pos, v)
          PROVE  Halfkept
        BY <2>3, InsertHalf
    <2>4. ASSUME NEW v \in Values, tinsert(luaH_getn(t) + 1, v)
          PROVE  Halfkept
        <3> DEFINE pos == luaH_getn(t) + 1
        <3>1. luaH_getn(t) \in 0..MaxKey /\ pos <= MaxKey /\ MaxKey \in Nat
            BY <2>4, BorderFacts DEF tinsert
        <3>2. pos \in 1..MaxKey /\ tinsert(pos, v)
            BY <2>4, <3>1
        <3> HIDE DEF pos
        <3> QED
            BY <3>2, InsertHalf
    <2>5. ASSUME NEW pos \in 1..MaxKey, tremove(pos)
          PROVE  Halfkept
        BY <2>5, RemoveHalf
    <2>6. CASE luaB_next
        BY <2>6 DEF luaB_next, Halfkept
    <2>7. CASE traversetable
        <3> DEFINE y == [t EXCEPT !.node = [i \in DOMAIN @ |-> IF @[i].val = nil THEN removeentry(@[i]) ELSE @[i]]]
        <3>1. Becomes(y) /\ Sound(t)
            BY <2>7 DEF traversetable, TableInv
        <3>2. Rekeyed(t, y)
            BY <3>1, TraversedSound
        <3> HIDE DEF y
        <3> QED
            BY <3>1, <3>2, AfterFacts DEF Halfkept, Rekeyed
    <2>8. CASE cleartable
        <3>1. PICK i \in Nodes(t) : /\ t.node[i].key[1] = "object"
                                    /\ Becomes([t EXCEPT !.node[i] = removeentry([@ EXCEPT !.val = nil])])
            BY <2>8 DEF cleartable, Nodes
        <3> DEFINE y == [t EXCEPT !.node[i] = removeentry([@ EXCEPT !.val = nil])]
        <3>2. Becomes(y) /\ Sound(t)
            BY <3>1 DEF TableInv
        <3>3. Rekeyed(t, y)
            BY <3>1, <3>2, ClearedSound
        <3> HIDE DEF y
        <3> QED
            BY <3>2, <3>3, AfterFacts DEF Halfkept, Rekeyed
    <2>9. CASE UNCHANGED vars
        BY <2>9 DEF vars, Halfkept
    <2> QED
        BY <2>1, <2>2, <2>3, <2>4, <2>5, <2>6, <2>7, <2>8, <2>9 DEF Next
<1>2. Halfkept => (sizearray(t') # sizearray(t) /\ D!Present \subseteq D!Present' /\ d' # d
                     => 2 * Cardinality(Used(t').a) > sizearray(t') \/ sizearray(t') = 0)
    BY DEF Halfkept, Half, Used
<1> QED
    BY <1>1, <1>2, TableInvariant, PTL DEF Spec, ArrayHalfUsed
=============================================================================
