------------------------------ MODULE LuaTable ------------------------------
(***************************************************************************)
(* The tables of Lua (ltable.c): an array part and a hash part, chained    *)
(* scatter with Brent's variation, with the functions of ltablib.c and     *)
(* lbaselib.c that go through them and the collector that removes entries. *)
(*                                                                         *)
(* A table is its array, its nodes from 0 on with their chains (next), and *)
(* lastfree; dummy says that the node is the common dummynode.  A key is a *)
(* number with its value, a string with its hash or an object with its     *)
(* address; a key that the collector removed is <<"dead", key>>.           *)
(* LuaDictionary says what this comes to.                                  *)
(***************************************************************************)
EXTENDS Integers, Sequences, FiniteSets

CONSTANTS Keys, Values,
          MaxKey,    \* the integer keys are 1..MaxKey
          MAX_INT,   \* of the C compiler: where the search for a length gives up doubling
          Sizes,     \* pairs: the sizes a new table gets from its constructor
          MaxNodes   \* bound of the model: no operation that needs more nodes

\* Two strings or objects that have the same hash differ in a further component.
ASSUME KeysAssumption ==
  /\ MaxKey \in Nat
  /\ {<<"number", i>> : i \in 1..MaxKey} \subseteq Keys
  /\ \A k \in Keys : IF k[1] = "number" THEN \E i \in 1..MaxKey : k = <<"number", i>>
                     ELSE k[1] \in {"string", "object"} /\ k[2] \in Nat
ASSUME ValuesAssumption == <<"nil">> \notin Values
ASSUME BoundsAssumption == /\ MAX_INT \in Nat /\ MAX_INT >= MaxKey
                           /\ Sizes \subseteq Nat \X Nat /\ MaxNodes \in Nat

VARIABLES t,    \* the table
          d,    \* what it gives for each key
          key,  \* the key at which the traversal is, nil at its start
          seen  \* as in LuaDictionary
vars == <<t, d, key, seen>>

nil     == <<"nil">>
NULL    == -1
int(i)  == <<"number", i>>
isint(k)         == k[1] = "number"
iscollectable(k) == k[1] \in {"string", "object"}
FreeNode == [key |-> nil, val |-> nil, next |-> NULL]

sizearray(x) == Len(x.array)
sizenode(x)  == Cardinality(DOMAIN x.node)
lua_assert(x, p) == [x EXCEPT !.ok = @ /\ p]

twoto(e) == LET p[i \in 0..e] == IF i = 0 THEN 1 ELSE 2 * p[i - 1] IN p[e]
luaO_log2(n) == IF n = 0 THEN -1 ELSE CHOOSE e \in 0..n : twoto(e) <= n /\ n < twoto(e + 1)
ceillog2(n)  == luaO_log2(n - 1) + 1

-----------------------------------------------------------------------------
(* Where a key is.                                                         *)

\* the words of the double n + 1, added; the low one is 0 up to 2^20
hashnum(n) == LET e == luaO_log2(n + 1)
              IN  (1023 + e) * 1048576 + ((n + 1 - twoto(e)) * 1048576) \div twoto(e)
mainposition(x, k) ==
  LET odd == IF sizenode(x) = 1 THEN 1 ELSE sizenode(x) - 1
  IN  CASE isint(k)          -> hashnum(k[2]) % odd
        [] k[1] = "string" -> k[2] % sizenode(x)
        [] k[1] = "object" -> k[2] % odd

\* from node i along next to the first node of S, NULL when the chain has none
found(x, i, S) ==
  LET at[n \in 0..sizenode(x)] ==
        IF n = 0 THEN i
        ELSE LET p == at[n - 1] IN IF p = NULL \/ p \in S THEN p ELSE x.node[p].next
  IN  at[sizenode(x)]

inarray(x, k) == isint(k) /\ k[2] \in 1..sizearray(x)

getnode(x, k) == found(x, mainposition(x, k), {i \in DOMAIN x.node : x.node[i].key = k})
has(x, k)     == inarray(x, k) \/ getnode(x, k) # NULL
luaH_get(x, k) ==
  LET n == getnode(x, k)
  IN  IF inarray(x, k) THEN x.array[k[2]] ELSE IF n = NULL THEN nil ELSE x.node[n].val

\* a removed key still says where a traversal is
findindex_live(x, k) ==
  IF k = nil THEN 0 ELSE IF inarray(x, k) THEN k[2]
  ELSE IF has(x, k) THEN sizearray(x) + getnode(x, k) + 1 ELSE NULL
findindex(x, k) ==
  LET same == {i \in DOMAIN x.node : \/ x.node[i].key = k
                                     \/ iscollectable(k) /\ x.node[i].key = <<"dead", k>>}
      n == found(x, mainposition(x, k), same)
  IN  IF k = nil THEN 0 ELSE IF inarray(x, k) THEN k[2]
      ELSE IF n = NULL THEN NULL ELSE sizearray(x) + n + 1

\* the key after k, nil at the end
luaH_next(x, k) ==
  LET na    == sizearray(x)
      from  == findindex(x, k)
      used  == {i \in 1..na : x.array[i] # nil}
               \cup {na + i + 1 : i \in {j \in DOMAIN x.node : x.node[j].val # nil}}
      after == {i \in used : i > from}
      first == CHOOSE l \in after : \A j \in after : l <= j
  IN  IF from = NULL THEN <<"invalid key">>
      ELSE IF after = {} THEN nil
      ELSE IF first <= na THEN int(first) ELSE x.node[first - na - 1].key

-----------------------------------------------------------------------------
(* The length.                                                             *)

getnum(x, n) == luaH_get(x, int(n))

\* the binary search of a border between i and j
between(x, i, j) ==
  LET at[n \in 0..j] ==
        IF n = 0 THEN <<i, j>>
        ELSE LET p == at[n - 1]
                 m == (p[1] + p[2]) \div 2
             IN  IF p[2] - p[1] <= 1 THEN p
                 ELSE IF getnum(x, m) = nil THEN <<p[1], m>> ELSE <<m, p[2]>>
  IN  at[j][1]

\* from i, the last index of the array, doubling
unbound_search(x, i) ==
  LET at[n \in 0..MAX_INT] ==
        IF n = 0 THEN <<i, i + 1>>
        ELSE LET p == at[n - 1]
             IN  IF getnum(x, p[2]) = nil \/ 2 * p[2] > MAX_INT THEN p ELSE <<p[2], 2 * p[2]>>
      last == at[MAX_INT]
  IN  IF getnum(x, last[2]) = nil THEN between(x, last[1], last[2])
      ELSE CHOOSE n \in 0..MAX_INT : /\ \A l \in 1..n : getnum(x, l) # nil
                                     /\ getnum(x, n + 1) = nil

luaH_getn(x) ==
  LET j == sizearray(x)
  IN  IF j > 0 /\ x.array[j] = nil THEN between(x, 0, j)
      ELSE IF x.dummy THEN j ELSE unbound_search(x, j)

-----------------------------------------------------------------------------
(* New keys.                                                               *)

setarrayvector(x, size) ==
  [x EXCEPT !.array = [i \in 1..size |-> IF i <= Len(@) THEN @[i] ELSE nil]]
setnodevector(x, size) ==
  LET n == IF size = 0 THEN 1 ELSE twoto(ceillog2(size))
  IN  [x EXCEPT !.node = [i \in 0..n - 1 |-> FreeNode], !.dummy = (size = 0),
                !.lastfree = IF size = 0 THEN 0 ELSE n]

luaH_new(narray, nhash) ==
  setnodevector([array |-> [i \in 1..narray |-> nil], node |-> <<>>, dummy |-> TRUE,
                 lastfree |-> 0, ok |-> TRUE], nhash)

\* the last place never used below lastfree; there the search goes on next time
getfreepos(x) ==
  LET free == {i \in 0..x.lastfree - 1 : x.node[i].key = nil}
  IN  IF free = {} THEN NULL ELSE CHOOSE i \in free : \A j \in free : j <= i

\* a size for the array of which the integers ks fill more than half
computesizes_half(ks) ==
  LET upto(n) == Cardinality({k \in ks : k <= n})
      fit == {e \in 0..MaxKey : twoto(e) \div 2 < Cardinality(ks) /\ upto(twoto(e)) >= twoto(e) \div 2}
      n == IF fit = {} THEN 0 ELSE twoto(CHOOSE e \in fit : \A g \in fit : g <= e)
  IN  [n |-> n, na |-> upto(n)]
computesizes(ks) ==
  LET upto(n) == Cardinality({k \in ks : k <= n})
      fit == {e \in 0..MaxKey : /\ twoto(e) \div 2 < Cardinality(ks)
                                /\ \E k \in ks : ceillog2(k) = e
                                /\ upto(twoto(e)) > twoto(e) \div 2}
      n == IF fit = {} THEN 0 ELSE twoto(CHOOSE e \in fit : \A g \in fit : g <= e)
  IN  [n |-> n, na |-> upto(n)]

\* newkey where there is room; no table of sizes made for its keys lacks it
insert_unmoved(x, k) ==
  LET mp == mainposition(x, k)
      n  == getfreepos(x)
  IN  IF x.node[mp].val = nil /\ ~x.dummy THEN [x EXCEPT !.node[mp].key = k]
      ELSE IF n = NULL THEN lua_assert(x, FALSE)
      ELSE [x EXCEPT !.lastfree = n, !.node[n] = [@ EXCEPT !.key = k, !.next = x.node[mp].next],
                     !.node[mp].next = n]
insert(x, k) ==
  LET mp == mainposition(x, k)
      n  == getfreepos(x)
      othern == mainposition(x, x.node[mp].key)
      prev == found(x, othern, {i \in DOMAIN x.node : x.node[i].next = mp})
      down == [x EXCEPT !.lastfree = n]
      moved == [down EXCEPT !.node[prev].next = n, !.node[n] = x.node[mp],
                            !.node[mp] = [FreeNode EXCEPT !.key = k]]
      added == [down EXCEPT !.node[n] = [@ EXCEPT !.key = k, !.next = x.node[mp].next],
                            !.node[mp].next = n]
  IN  IF x.node[mp].val = nil /\ ~x.dummy THEN [x EXCEPT !.node[mp].key = k]
      ELSE IF n = NULL THEN lua_assert(x, FALSE)
      ELSE lua_assert(IF othern # mp THEN moved ELSE added, ~x.dummy /\ x.node[n].val = nil)

\* luaH_set where there is room
add(x, k) == IF has(x, k) THEN x ELSE insert(x, k)

assign(x, k, v) ==
  LET n == getnode(x, k)
  IN  IF inarray(x, k) THEN [x EXCEPT !.array[k[2]] = v]
      ELSE IF n = NULL THEN x ELSE [x EXCEPT !.node[n].val = v]

\* what is in use of the pairs s goes to a table of the new sizes
reinsert(x, s) ==
  LET put(y, k, v) == IF v = nil THEN y ELSE assign(add(y, k), k, v)
      at[n \in 0..Len(s)] == IF n = 0 THEN x ELSE put(at[n - 1], s[n][1], s[n][2])
  IN  at[Len(s)]
resize(x, nasize, nhsize) ==
  LET big == setnodevector(setarrayvector(x, nasize), nhsize)
      slice == [i \in 1..sizearray(x) - nasize |-> <<int(nasize + i), x.array[nasize + i]>>]
      nodes == [i \in 1..sizenode(x) |-> LET n == x.node[sizenode(x) - i] IN <<n.key, n.val>>]
  IN  reinsert(IF nasize < sizearray(x) THEN reinsert(big, slice) ELSE big, nodes)

Used(x)  == [a |-> {i \in 1..sizearray(x) : x.array[i] # nil},
             h |-> {x.node[i].key : i \in {j \in DOMAIN x.node : x.node[j].val # nil}}]
rehash(x, k) ==
  LET u == Used(x)
      ints == u.a \cup {l[2] : l \in {l \in u.h \cup {k} : isint(l) /\ l[2] > 0}}
      c == computesizes(ints)
      total == Cardinality(u.a) + Cardinality(u.h) + 1
  IN  resize(lua_assert(x, c.n \div 2 <= c.na /\ c.na <= c.n), c.n, total - c.na)

newkey(x, k) ==
  IF (x.node[mainposition(x, k)].val = nil /\ ~x.dummy) \/ getfreepos(x) # NULL THEN insert(x, k)
  ELSE add(rehash(x, k), k)

luaH_set(x, k) == IF has(x, k) THEN x ELSE newkey(x, k)
Put(x, k, v)   == assign(luaH_set(x, k), k, v)

-----------------------------------------------------------------------------
(* Programs.                                                               *)

Walking == seen # {nil}
Given(x) == [k \in Keys |-> luaH_get(x, k)]
Init == /\ \E s \in Sizes : t = luaH_new(s[1], s[2])
        /\ d = Given(t) /\ key = nil /\ seen = {nil}

Becomes(x) == sizenode(x) <= MaxNodes /\ t' = x /\ d' = Given(x) /\ UNCHANGED <<key, seen>>
lua_rawseti(x, i, v) == Put(x, int(i), v)

\* v at n, n - 1, ..., 1
setall(x, n, v) ==
  LET at[i \in 0..n] == IF i = 0 THEN x ELSE lua_rawseti(at[i - 1], n + 1 - i, v) IN at[n]

\* for each pair in turn, to its first index what is at its second one
move(x, s) ==
  LET put(y, p) == lua_rawseti(y, p[1], getnum(y, p[2]))
      at[i \in 0..Len(s)] == IF i = 0 THEN x ELSE put(at[i - 1], s[i])
  IN  at[Len(s)]

\* OP_SETTABLE, lua_rawset; in a traversal only of a field that is there
Set(k, v) == (Walking => d[k] # nil) /\ Becomes(Put(t, k, v))

\* OP_SETLIST of n values
SetList(n, v) ==
  LET presized == IF n > sizearray(t) THEN resize(t, n, IF t.dummy THEN 0 ELSE sizenode(t)) ELSE t
  IN  ~Walking /\ Becomes(setall(presized, n, v))

\* with a position, or with none at the end
tinsert(pos, v) ==
  LET e == luaH_getn(t) + 1
      last == IF pos > e THEN pos ELSE e
      up == [i \in 1..last - pos |-> <<last + 1 - i, last - i>>]
  IN  /\ ~Walking /\ e <= MaxKey
      /\ Becomes(lua_rawseti(move(t, up), pos, v))

\* with a position behind the end, too: then the last field goes
tremove(pos) ==
  LET e == luaH_getn(t)
      from == IF pos <= e THEN pos ELSE e
      down == [i \in 1..e - from |-> <<from + i - 1, from + i>>]
  IN  /\ ~Walking /\ e # 0
      /\ Becomes(lua_rawseti(move(t, down), e, nil))

luaB_next ==
  \/ key' = nil /\ seen' = {} /\ UNCHANGED <<t, d>>
  \/ /\ Walking /\ key' = luaH_next(t, key) /\ UNCHANGED <<t, d>>
     /\ seen' = IF key' = nil THEN {nil} ELSE seen \cup {key'}

\* the collector, in traversetable and, for a weak table, in cleartable
removeentry(n) == IF iscollectable(n.key) THEN [n EXCEPT !.key = <<"dead", @>>] ELSE n
traversetable ==
  Becomes([t EXCEPT !.node = [i \in DOMAIN @ |-> IF @[i].val = nil THEN removeentry(@[i]) ELSE @[i]]])
cleartable == \E i \in DOMAIN t.node :
  /\ t.node[i].key[1] = "object" /\ t.node[i].key # key
  /\ Becomes([t EXCEPT !.node[i] = removeentry([@ EXCEPT !.val = nil])])

Next ==
  \/ \E k \in Keys, v \in Values \cup {nil} : Set(k, v)
  \/ \E n \in 1..MaxKey, v \in Values : SetList(n, v)
  \/ \E pos \in 1..MaxKey, v \in Values : tinsert(pos, v)
  \/ \E v \in Values : tinsert(luaH_getn(t) + 1, v)
  \/ \E pos \in 1..MaxKey : tremove(pos)
  \/ luaB_next
  \/ traversetable
  \/ cleartable

Spec == Init /\ [][Next]_vars

-----------------------------------------------------------------------------
(* Properties *)

D == INSTANCE LuaDictionary

\* ltable.c, ltablib.c, lgc.c: through collisions, moved nodes, rehashes and
\* keys that the collector removed, a table gives each key the value it was
\* last given, its length is a border, and a traversal meets every field once.
IsDictionary == D!Spec

\* ltable.c:15: an element that is not in its main position has there an
\* element that is in its own; no key is in two nodes, and no assertion of
\* newkey and computesizes fails.
NodesSound ==
  LET live == {i \in DOMAIN t.node : t.node[i].val # nil}
      main(i) == mainposition(t, t.node[i].key)
  IN  /\ t.ok
      /\ \A i \in live : main(i) = i \/ main(i) \notin live \/ main(main(i)) = main(i)
      /\ \A i, j \in live : t.node[i].key = t.node[j].key => i = j

\* ltable.c:198 (`more than half elements present'): when a new key makes a
\* table give its array another size, more than half of it is in use,
\* whatever mix of keys is in the two parts.
ArrayHalfUsed == [][
  sizearray(t') # sizearray(t) /\ D!Present \subseteq D!Present' /\ d' # d
    => 2 * Cardinality(Used(t').a) > sizearray(t') \/ sizearray(t') = 0]_vars
=============================================================================
