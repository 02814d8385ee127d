------------------------------ MODULE LuaStr ------------------------------
(***************************************************************************)
(* The string library of Lua (lstrlib.c) on the strings themselves:        *)
(* pattern matching with its captures, find, match, gmatch and gsub, and   *)
(* the functions on bytes.                                                 *)
(*                                                                         *)
(* A match state ms is the source, the pattern, the captures in use and the*)
(* error that ends the match.  Positions start at 1; the character past    *)
(* the end of a string, the '\0' of C, is "".                              *)
(***************************************************************************)
EXTENDS Integers, Sequences, SequencesExt, TLC

CONSTANT LUA_MAXCAPTURES

Lex == INSTANCE LuaLex

nil      == <<"nil">>
bool(b)  == <<"boolean", b>>
num(n)   == <<"number", n>>
str(s)   == <<"string", s>>
type(v)  == v[1]
l_isfalse(v)  == v \in {nil, bool(FALSE)}
isstring(v)   == type(v) \in {"string", "number"}

NULL           == 0
CAP_UNFINISHED == -1
CAP_POSITION   == -2
L_ESC          == "%"
SPECIALS       == {"^", "$", "*", "+", "?", ".", "(", "[", "%", "-"}

char(s, i)   == IF i \in 1..Len(s) THEN SubSeq(s, i, i) ELSE ""
code(c)      == IF c = "" THEN 0 ELSE Lex!CodeOf(c)
charset(s)   == {char(s, i) : i \in 1..Len(s)}
mapped(s, f(_)) == FoldLeft(LAMBDA r, i : r \o f(char(s, i)), "", [i \in 1..Len(s) |-> i])

lower   == {Lex!Chars[c] : c \in 97..122}
upper   == {Lex!Chars[c] : c \in 65..90}
tolower(c) == IF c \in upper THEN Lex!Chars[code(c) + 32] ELSE c
toupper(c) == IF c \in lower THEN Lex!Chars[code(c) - 32] ELSE c

-----------------------------------------------------------------------------
(* Classes of characters.                                                  *)

Class == [a |-> lower \cup upper, l |-> lower, u |-> upper, d |-> Lex!digit, x |-> Lex!hex,
          w |-> lower \cup upper \cup Lex!digit, s |-> Lex!Space, z |-> {""},
          c |-> {"", "\n", "\r", "\t", "\f"},
          p |-> {Lex!Chars[c] : c \in DOMAIN Lex!Chars \ {32}} \ (lower \cup upper \cup Lex!digit)]
match_class(c, cl) ==
  IF tolower(cl) \in DOMAIN Class THEN (c \in Class[tolower(cl)]) = (cl = tolower(cl)) ELSE c = cl

\* the place after the class at p, NULL when it is malformed
RECURSIVE setend(_, _)
setend(pat, p) ==
  LET q == IF char(pat, p) = L_ESC /\ char(pat, p + 1) # "" THEN p + 2 ELSE p + 1
  IN  IF char(pat, p) = "" THEN NULL ELSE IF char(pat, q) = "]" THEN q + 1 ELSE setend(pat, q)
classend(pat, p) ==
  CASE char(pat, p) = L_ESC -> IF char(pat, p + 1) = "" THEN NULL ELSE p + 2
    [] char(pat, p) = "["   -> setend(pat, IF char(pat, p + 1) = "^" THEN p + 2 ELSE p + 1)
    [] OTHER                -> p + 1

\* c in the set whose items are from p to before ec
RECURSIVE inset(_, _, _, _)
inset(c, pat, p, ec) ==
  CASE p >= ec -> FALSE
    [] p < ec /\ char(pat, p) = L_ESC ->
         match_class(c, char(pat, p + 1)) \/ inset(c, pat, p + 2, ec)
    [] p < ec /\ char(pat, p) # L_ESC /\ char(pat, p + 1) = "-" /\ p + 2 < ec ->
         code(c) \in code(char(pat, p))..code(char(pat, p + 2)) \/ inset(c, pat, p + 3, ec)
    [] OTHER -> c = char(pat, p) \/ inset(c, pat, p + 1, ec)
matchbracketclass(c, pat, p, ec) ==
  IF char(pat, p + 1) = "^" THEN ~inset(c, pat, p + 2, ec) ELSE inset(c, pat, p + 1, ec)

singlematch(c, pat, p, ep) ==
  CASE char(pat, p) = "."   -> TRUE
    [] char(pat, p) = L_ESC -> match_class(c, char(pat, p + 1))
    [] char(pat, p) = "["   -> matchbracketclass(c, pat, p, ep - 1)
    [] OTHER                -> c = char(pat, p)

-----------------------------------------------------------------------------
(* The matcher.  A match gives its state and where it ends, NULL if it fails. *)

Ended(ms, e) == [ms |-> ms, e |-> e]
Stop(ms, msg) == Ended([ms EXCEPT !.error = msg], NULL)
settled(r)    == r.e # NULL \/ r.ms.error # ""     \* nothing else is tried

RECURSIVE match(_, _, _), max_expand(_, _, _, _), min_expand(_, _, _, _), balance(_, _, _, _, _)

balance(s, i, b, e, cont) ==
  CASE i > Len(s)                                        -> NULL
    [] i <= Len(s) /\ char(s, i) = e                     -> IF cont = 1 THEN i + 1
                                                            ELSE balance(s, i + 1, b, e, cont - 1)
    [] i <= Len(s) /\ char(s, i) # e /\ char(s, i) = b   -> balance(s, i + 1, b, e, cont + 1)
    [] OTHER                                             -> balance(s, i + 1, b, e, cont)
matchbalance(ms, s, p) ==
  IF char(ms.src, s) # char(ms.pat, p) THEN NULL
  ELSE balance(ms.src, s + 1, char(ms.pat, p), char(ms.pat, p + 1), 1)

\* i repetitions, and fewer
max_expand(ms, s, i, ep) ==
  LET r == match(ms, s + i, ep + 1)
  IN  IF settled(r) \/ i = 0 THEN r ELSE max_expand(r.ms, s, i - 1, ep)
\* no repetition, and more
min_expand(ms, s, p, ep) ==
  LET r == match(ms, s, ep + 1)
  IN  IF settled(r) THEN r
      ELSE IF s <= Len(ms.src) /\ singlematch(char(ms.src, s), ms.pat, p, ep)
      THEN min_expand(r.ms, s + 1, p, ep) ELSE r

start_capture(ms, s, p, what) ==
  LET r == match([ms EXCEPT !.cap = Append(@, [init |-> s, len |-> what])], s, p)
  IN  IF Len(ms.cap) >= LUA_MAXCAPTURES THEN Stop(ms, "too many captures")
      ELSE IF settled(r) THEN r ELSE Ended([r.ms EXCEPT !.cap = Front(@)], NULL)
end_capture(ms, s, p) ==
  LET open == {l \in DOMAIN ms.cap : ms.cap[l].len = CAP_UNFINISHED}
      l == CHOOSE l \in open : \A k \in open : k <= l
      r == match([ms EXCEPT !.cap[l].len = s - ms.cap[l].init], s, p)
  IN  IF open = {} THEN Stop(ms, "invalid pattern capture")
      ELSE IF settled(r) THEN r ELSE Ended([r.ms EXCEPT !.cap[l].len = CAP_UNFINISHED], NULL)

captured(ms, l) == SubSeq(ms.src, ms.cap[l].init, ms.cap[l].init + ms.cap[l].len - 1)
match_capture(ms, s, l, p) ==
  IF l \notin DOMAIN ms.cap \/ ms.cap[l].len = CAP_UNFINISHED THEN Stop(ms, "invalid capture index")
  ELSE IF ms.cap[l].len # CAP_POSITION /\ s + ms.cap[l].len - 1 <= Len(ms.src)
          /\ SubSeq(ms.src, s, s + ms.cap[l].len - 1) = captured(ms, l)
  THEN match(ms, s + ms.cap[l].len, p) ELSE Ended(ms, NULL)

frontier(ms, s, p) ==
  LET ep == classend(ms.pat, p)
      in(c) == matchbracketclass(c, ms.pat, p, ep - 1)
  IN  CASE char(ms.pat, p) # "["               -> Stop(ms, "missing '[' after '%f' in pattern")
        [] char(ms.pat, p) = "[" /\ ep = NULL  -> Stop(ms, "malformed pattern")
        [] OTHER -> IF in(char(ms.src, s - 1)) \/ ~in(char(ms.src, s)) THEN Ended(ms, NULL)
                    ELSE match(ms, s, ep)

\* a class with the repetition after it
item(ms, s, p) ==
  LET ep == classend(ms.pat, p)
      fits(i) == i <= Len(ms.src) /\ singlematch(char(ms.src, i), ms.pat, p, ep)
      run(i) == CHOOSE n \in 0..Len(ms.src) + 1 : ~fits(i + n) /\ \A k \in 0..n - 1 : fits(i + k)
      rep == char(ms.pat, ep)
      once == match(ms, s + 1, ep + 1)
  IN  CASE ep = NULL -> Stop(ms, "malformed pattern")
        [] ep # NULL /\ rep = "?" -> IF fits(s) /\ settled(once) THEN once ELSE match(ms, s, ep + 1)
        [] ep # NULL /\ rep = "*" -> max_expand(ms, s, run(s), ep)
        [] ep # NULL /\ rep = "+" -> IF fits(s) THEN max_expand(ms, s + 1, run(s + 1), ep) ELSE Ended(ms, NULL)
        [] ep # NULL /\ rep = "-" -> min_expand(ms, s, p, ep)
        [] OTHER -> IF fits(s) THEN match(ms, s + 1, ep) ELSE Ended(ms, NULL)

match(ms, s, p) ==
  LET c  == char(ms.pat, p)
      c2 == char(ms.pat, p + 1)
      escaped == c = L_ESC /\ c2 \in {"b", "f"} \cup Lex!digit
      b  == matchbalance(ms, s, p + 2)
  IN  CASE c = "(" -> IF c2 = ")" THEN start_capture(ms, s, p + 2, CAP_POSITION)
                      ELSE start_capture(ms, s, p + 1, CAP_UNFINISHED)
        [] c = ")" -> end_capture(ms, s, p + 1)
        [] escaped /\ c2 = "b" ->
             IF char(ms.pat, p + 2) = "" \/ char(ms.pat, p + 3) = "" THEN Stop(ms, "unbalanced pattern")
             ELSE IF b = NULL THEN Ended(ms, NULL) ELSE match(ms, b, p + 4)
        [] escaped /\ c2 = "f" -> frontier(ms, s, p + 2)
        [] escaped /\ c2 \in Lex!digit -> match_capture(ms, s, code(c2) - 48, p + 2)
        [] c = "" -> Ended(ms, s)
        [] c = "$" /\ c2 = "" -> Ended(ms, IF s = Len(ms.src) + 1 THEN s ELSE NULL)
        [] OTHER -> item(ms, s, p)

MatchState(src, pat) == [src |-> src, pat |-> pat, cap |-> <<>>, error |-> ""]
anchored(pat) == IF char(pat, 1) = "^" THEN 1 ELSE 0

-----------------------------------------------------------------------------
(* The functions: what they return, and their error.                       *)

Vals(v)  == [vals |-> v, error |-> ""]
Err(msg) == [vals |-> <<>>, error |-> msg]

\* capture i; the first is the whole match when there are no captures
push_onecapture(ms, i, s, e) ==
  CASE i > Len(ms.cap)  -> IF i = 1 THEN Vals(<<str(SubSeq(ms.src, s, e - 1))>>) ELSE Err("invalid capture index")
    [] i <= Len(ms.cap) -> CASE ms.cap[i].len = CAP_UNFINISHED -> Err("unfinished capture")
                             [] ms.cap[i].len = CAP_POSITION   -> Vals(<<num(ms.cap[i].init)>>)
                             [] OTHER                          -> Vals(<<str(captured(ms, i))>>)
Both(x, y) == IF x.error # "" THEN x ELSE [y EXCEPT !.vals = x.vals \o @]
push_captures(ms, s, e) ==
  FoldLeft(LAMBDA r, i : Both(r, push_onecapture(ms, i, s, e)), Vals(<<>>),
           [i \in 1..IF ms.cap = <<>> /\ s # NULL THEN 1 ELSE Len(ms.cap) |-> i])

RECURSIVE search(_, _, _, _)
search(ms, s, p, anchor) ==
  LET r == match([ms EXCEPT !.cap = <<>>], s, p)
  IN  IF settled(r) \/ anchor \/ s > Len(ms.src) THEN [r |-> r, s |-> s]
      ELSE search(ms, s + 1, p, anchor)

posrelat(pos, len) == IF pos >= 0 THEN pos ELSE len + pos + 1
AtLeast(n, m)      == IF n < m THEN m ELSE n
AtMost(n, m)       == IF n > m THEN m ELSE n

lmemfind(s, p, init) ==
  LET at == {i \in init..Len(s) - Len(p) + 1 : SubSeq(s, i, i + Len(p) - 1) = p}
  IN  IF at = {} THEN NULL ELSE CHOOSE i \in at : \A j \in at : i <= j

matched(ms, s, e, find) ==
  IF ms.error # "" THEN Err(ms.error)
  ELSE IF e = NULL THEN Vals(<<nil>>)
  ELSE IF find THEN Both(Vals(<<num(s), num(e - 1)>>), push_captures(ms, NULL, NULL))
  ELSE push_captures(ms, s, e)
str_find_aux(s, pat, pos, plain, find) ==
  LET init == AtMost(AtLeast(posrelat(pos, Len(s)), 1), Len(s) + 1)
      at == lmemfind(s, pat, init)
      of(x) == matched(x.r.ms, x.s, x.r.e, find)
  IN  IF find /\ (plain \/ charset(pat) \cap SPECIALS = {})
      THEN Vals(IF at = NULL THEN <<nil>> ELSE <<num(at), num(at + Len(pat) - 1)>>)
      ELSE of(search(MatchState(s, pat), init, 1 + anchored(pat), anchored(pat) = 1))

\* the captures of the next match, and where to go on
gmatch_aux(s, pat, from) ==
  LET of(x) == IF x.r.ms.error # "" THEN [at |-> from, r |-> Err(x.r.ms.error)]
               ELSE IF x.r.e = NULL THEN [at |-> from, r |-> Vals(<<>>)]
               ELSE [at |-> IF x.r.e = x.s THEN x.r.e + 1 ELSE x.r.e,
                     r  |-> push_captures(x.r.ms, x.s, x.r.e)]
  IN  IF from > Len(s) + 1 THEN [at |-> from, r |-> Vals(<<>>)]
      ELSE of(search(MatchState(s, pat), from, 1, FALSE))

\* the replacement text for the match from s to e
as_text(v) == IF type(v) = "number" THEN ToString(v[2]) ELSE v[2]
RECURSIVE add_s(_, _, _, _, _)
add_s(ms, news, i, s, e) ==
  LET c == char(news, i)
      d == char(news, i + 1)
      rest(t, n)  == LET more(r) == [r EXCEPT !.text = t \o @] IN more(add_s(ms, news, i + n, s, e))
      capture(one) == IF one.error # "" THEN [text |-> "", error |-> one.error] ELSE rest(as_text(one.vals[1]), 2)
  IN  CASE c = "" -> [text |-> "", error |-> ""]
        [] c \notin {"", L_ESC} -> rest(c, 1)
        [] c = L_ESC /\ d \notin Lex!digit -> rest(d, 2)
        [] c = L_ESC /\ d = "0" -> rest(SubSeq(ms.src, s, e - 1), 2)
        [] OTHER -> capture(push_onecapture(ms, code(d) - 48, s, e))

\* A substitution g is at s, has made n of max replacements and the text b;
\* when its replacement is a function it waits with the match up to e.
str_gsub(src, pat, repl, max) ==
  [ms |-> MatchState(src, pat), s |-> 1, e |-> NULL, n |-> 0, max |-> max, b |-> "", repl |-> repl, done |-> FALSE]

add_value(g, v) ==
  CASE l_isfalse(v)                 -> [g EXCEPT !.b = @ \o SubSeq(g.ms.src, g.s, g.e - 1)]
    [] isstring(v) /\ ~l_isfalse(v) -> [g EXCEPT !.b = @ \o as_text(v)]
    [] OTHER                        -> [g EXCEPT !.ms.error = "invalid replacement value"]

advance(g) ==
  LET on == CASE g.e > g.s                             -> [g EXCEPT !.s = g.e]
              [] g.e <= g.s /\ g.s <= Len(g.ms.src)    -> [g EXCEPT !.b = @ \o char(g.ms.src, g.s), !.s = @ + 1]
              [] OTHER                                 -> [g EXCEPT !.done = TRUE]
  IN  [on EXCEPT !.e = NULL, !.done = @ \/ anchored(g.ms.pat) = 1]

\* up to the end, or to the call of a function
RECURSIVE gsub_loop(_)
gsub_fails(g, msg) == [g EXCEPT !.ms.error = msg]
gsub_replaces(g) ==
  LET on(v)     == gsub_loop(advance(add_value(g, v)))
      text(t)   == IF t.error # "" THEN gsub_fails(g, t.error) ELSE on(str(t.text))
      field(k)  == IF k.error # "" THEN gsub_fails(g, k.error)
                   ELSE on(IF k.vals[1] \in DOMAIN g.repl[2] THEN g.repl[2][k.vals[1]] ELSE nil)
  IN  CASE type(g.repl) \in {"function", "cfunction"} -> g
        [] isstring(g.repl) -> text(add_s(g.ms, as_text(g.repl), 1, g.s, g.e))
        [] type(g.repl) = "fields" -> field(push_onecapture(g.ms, 1, g.s, g.e))
        [] OTHER -> gsub_fails(g, "bad argument")
gsub_loop(g) ==
  LET tried(r) == IF r.ms.error # "" THEN [g EXCEPT !.ms.error = r.ms.error, !.done = TRUE]
                  ELSE IF r.e = NULL THEN gsub_loop(advance(g))
                  ELSE gsub_replaces([g EXCEPT !.ms = r.ms, !.e = r.e, !.n = @ + 1])
  IN  IF g.done \/ g.n >= g.max \/ g.ms.error # "" THEN [g EXCEPT !.done = TRUE]
      ELSE tried(match([g.ms EXCEPT !.cap = <<>>], g.s, 1 + anchored(g.ms.pat)))
gsub_result(g) == <<str(g.b \o SubSeq(g.ms.src, g.s, Len(g.ms.src))), num(g.n)>>

str_sub(s, i, j) ==
  LET start == AtLeast(posrelat(i, Len(s)), 1)
      end   == AtMost(posrelat(j, Len(s)), Len(s))
  IN  IF start <= end THEN SubSeq(s, start, end) ELSE ""
\* an end that is still negative is taken for a large size_t
str_byte(s, i, j) ==
  LET posi == AtLeast(posrelat(i, Len(s)), 1)
      pose == IF posrelat(j, Len(s)) \in 0..Len(s) THEN posrelat(j, Len(s)) ELSE Len(s)
  IN  [k \in 1..AtLeast(pose - posi + 1, 0) |-> num(code(char(s, posi + k - 1)))]
str_char(codes)  == FoldLeft(LAMBDA s, c : s \o Lex!Chars[c], "", codes)
str_rep(s, n)    == FoldLeft(LAMBDA r, i : r \o s, "", [i \in 1..AtLeast(n, 0) |-> i])
str_reverse(s)   == FoldLeft(LAMBDA r, i : char(s, i) \o r, "", [i \in 1..Len(s) |-> i])
str_lower(s)     == mapped(s, tolower)
str_upper(s)     == mapped(s, toupper)
=============================================================================
