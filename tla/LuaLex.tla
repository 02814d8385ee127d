------------------------------ MODULE LuaLex ------------------------------
(***************************************************************************)
(* The scanner of Lua (llex.c): the tokens of the text of a chunk.         *)
(*                                                                         *)
(* A scan z is the text, the position of ls->current in it, the line, the  *)
(* text saved in the buffer, and the error, which ends the scan.  Tokens   *)
(* are those of LuaParser.  The escapes and codes of characters that a     *)
(* TLA+ string cannot hold, and numerals with a fraction or an exponent,   *)
(* are left out.                                                           *)
(***************************************************************************)
EXTENDS Integers, Sequences

EOZ      == ""
Newline  == {"\n", "\r"}
Space    == {" ", "\t", "\f"} \cup Newline
Text     == " !\"#$%&'()*+,-./0123456789:;<=>?@ABCDEFGHIJKLMNOPQRSTUVWXYZ[\\]^_ abcdefghijklmnopqrstuvwxyz{|}~"
Chars    == [code \in 32..126 \ {96} |-> SubSeq(Text, code - 31, code - 31)]
digit    == {Chars[c] : c \in 48..57}
alpha    == {Chars[c] : c \in (65..90) \cup (97..122)} \cup {"_"}
hex      == digit \cup {Chars[c] : c \in (65..70) \cup (97..102)}
CodeOf(c) == CHOOSE n \in DOMAIN Chars : Chars[n] = c

current(z) == IF z.at > Len(z.text) THEN EOZ ELSE SubSeq(z.text, z.at, z.at)
next(z)    == [z EXCEPT !.at = @ + 1]
save(z, c) == [z EXCEPT !.buff = @ \o c]
save_and_next(z) == next(save(z, current(z)))
lexerror(z, msg) == [z EXCEPT !.error = msg, !.at = Len(z.text) + 1]

RECURSIVE save_while(_, _), skip_while(_, _)
save_while(z, set) == IF current(z) \in set THEN save_while(save_and_next(z), set) ELSE z
skip_while(z, set) == IF current(z) \in set THEN skip_while(next(z), set) ELSE z

\* a pair of different newline characters is one newline
inclinenumber(z) ==
  LET n == [next(z) EXCEPT !.line = @ + 1]
  IN  IF current(n) \in Newline \ {current(z)} THEN next(n) ELSE n

-----------------------------------------------------------------------------
(* Numerals and strings.                                                   *)

DigitOf(c) == IF c \in digit THEN CodeOf(c) - 48 ELSE ((CodeOf(c) - 65) % 32) + 10
RECURSIVE digits(_, _)
digits(s, base) == IF s = "" THEN 0
                   ELSE base * digits(SubSeq(s, 1, Len(s) - 1), base) + DigitOf(SubSeq(s, Len(s), Len(s)))
AllIn(s, set) == \A i \in 1..Len(s) : SubSeq(s, i, i) \in set

RECURSIVE trim(_)
trim(s) == CASE s = "" -> ""
             [] s # "" /\ SubSeq(s, 1, 1) \in Space -> trim(SubSeq(s, 2, Len(s)))
             [] s # "" /\ SubSeq(s, Len(s), Len(s)) \in Space -> trim(SubSeq(s, 1, Len(s) - 1))
             [] OTHER -> s

\* the numbers that a text stands for: none or one
luaO_str2d(text) ==
  LET t == trim(text)
      signed == SubSeq(t, 1, IF t = "" THEN 0 ELSE 1) \in {"-", "+"}
      s == IF signed THEN SubSeq(t, 2, Len(t)) ELSE t
      x == SubSeq(s, 3, Len(s))
      of(n) == IF signed /\ SubSeq(t, 1, 1) = "-" THEN 0 - n ELSE n
  IN  CASE s # "" /\ AllIn(s, digit) -> {of(digits(s, 10))}
        [] Len(s) > 2 /\ SubSeq(s, 1, 2) \in {"0x", "0X"} /\ AllIn(x, hex) -> {of(digits(x, 16))}
        [] OTHER -> {}

read_numeral(z) ==
  LET a == save_while(z, digit \cup {"."})
      e == IF current(a) \in {"e", "E"} THEN save_and_next(a) ELSE a
      s == IF e # a /\ current(e) \in {"+", "-"} THEN save_and_next(e) ELSE e
      n == save_while(s, alpha \cup digit)
  IN  IF luaO_str2d(n.buff) = {} THEN lexerror(n, "malformed number") ELSE n

\* the number of equal signs of a long bracket, or its negative minus 1
skip_sep(z) ==
  LET n == skip_while(next(z), {"="})
      count == n.at - z.at - 1
  IN  [z |-> n, sep |-> IF current(n) = current(z) THEN count ELSE 0 - count - 1]

\* after the first bracket; LUA_COMPAT_LSTR = 1
RECURSIVE long_chars(_, _)
long_chars(z, sep) ==
  LET c == current(z)
      s == skip_sep(z)
      closing == SubSeq(z.text, z.at, s.z.at - 1)
  IN  CASE c = EOZ -> lexerror(z, "unfinished long string")
        [] c = "[" /\ s.sep = sep /\ sep = 0 -> lexerror(z, "nesting of [[...]] is deprecated")
        [] c = "]" /\ s.sep = sep -> next(s.z)
        [] c \in {"[", "]"} /\ s.sep # sep -> long_chars(save(s.z, closing), sep)
        [] c = "[" /\ s.sep = sep /\ sep > 0 -> long_chars(next(save(s.z, closing \o "[")), sep)
        [] c \in Newline -> long_chars(inclinenumber(save(z, "\n")), sep)
        [] OTHER -> long_chars(save_and_next(z), sep)
read_long_string(z, sep) ==
  LET n == next(z)
  IN  long_chars(IF current(n) \in Newline THEN inclinenumber(n) ELSE n, sep)

Escapes == [c \in {"f", "n", "r", "t"} |->
              CASE c = "f" -> "\f" [] c = "n" -> "\n" [] c = "r" -> "\r" [] c = "t" -> "\t"]

\* what follows a backslash
escape(z) ==
  LET c == current(z)
      len == CHOOSE k \in 1..3 : /\ AllIn(SubSeq(z.text, z.at, z.at + k - 1), digit)
                                 /\ k = 3 \/ current([z EXCEPT !.at = @ + k]) \notin digit
      code == digits(SubSeq(z.text, z.at, z.at + len - 1), 10)
      past == [z EXCEPT !.at = @ + len]
  IN  CASE c \in DOMAIN Escapes -> next(save(z, Escapes[c]))
        [] c \in Newline        -> inclinenumber(save(z, "\n"))
        [] c = EOZ              -> z
        [] c \in digit -> IF code > 255 THEN lexerror(past, "escape sequence too large")
                          ELSE save(past, Chars[code])
        [] OTHER                -> save_and_next(z)

RECURSIVE read_string(_, _)
read_string(z, del) ==
  CASE z.error # "" -> z
    [] z.error = "" /\ current(z) = del -> next(z)
    [] current(z) \in Newline \cup {EOZ} /\ z.error = "" -> lexerror(z, "unfinished string")
    [] current(z) = "\\" -> read_string(escape(next(z)), del)
    [] OTHER -> read_string(save_and_next(z), del)

-----------------------------------------------------------------------------
(* Tokens.                                                                 *)

luaX_tokens == {"and", "break", "do", "else", "elseif", "end", "false", "for", "function", "if",
                "in", "local", "nil", "not", "or", "repeat", "return", "then", "true", "until",
                "while"}

Token(z, t, v) == [z |-> z, t |-> t, v |-> v]
Valued(z, t)   == Token(z, t, z.buff)
Numeral(z)     == IF z.error # "" THEN Token(z, "<eof>", "")
                  ELSE Token(z, "number", CHOOSE n \in luaO_str2d(z.buff) : TRUE)

RECURSIVE llex(_)
comment(z) ==      \* after the two dashes
  LET s == skip_sep(z)
      short == skip_while(z, {Chars[c] : c \in DOMAIN Chars} \cup (Space \ Newline))
  IN  IF current(z) = "[" /\ s.sep >= 0 THEN [read_long_string(s.z, s.sep) EXCEPT !.buff = ""] ELSE short

llex(z) ==
  LET c  == current(z)
      n  == next(z)
      c2 == current(n)
      dots == save_while(z, {"."})
  IN  CASE c = EOZ         -> Token(z, "<eof>", "")
        [] c \in Newline   -> llex(inclinenumber(z))
        [] c \in Space \ Newline -> llex(n)
        [] c = "-" /\ c2 = "-"   -> llex(comment(next(n)))
        [] c = "[" /\ skip_sep(z).sep >= 0 ->
             Valued(read_long_string(skip_sep(z).z, skip_sep(z).sep), "string")
        [] c = "[" /\ skip_sep(z).sep < -1 -> Token(lexerror(z, "invalid long string delimiter"), "<eof>", "")
        [] c \in {"=", "<", ">", "~"} /\ c2 = "=" -> Token(next(n), c \o c2, "")
        [] c \in {"\"", "'"}     -> Valued(read_string(n, c), "string")
        [] c = "." /\ c2 \in digit -> Numeral(read_numeral(save_and_next(z)))
        [] c = "." /\ c2 = "."   -> LET k == IF Len(dots.buff) > 2 THEN 3 ELSE 2
                                    IN  Token([z EXCEPT !.at = @ + k], SubSeq("...", 1, k), "")
        [] c \in digit     -> Numeral(read_numeral(z))
        [] c \in alpha     -> LET w == save_while(z, alpha \cup digit)
                              IN  IF w.buff \in luaX_tokens THEN Token(w, w.buff, "") ELSE Valued(w, "name")
        [] OTHER           -> Token(n, c, "")

\* the tokens of a text, and its error
RECURSIVE scan(_, _)
scan(z, toks) ==
  LET x == llex([z EXCEPT !.buff = ""])
  IN  IF x.z.error # "" \/ x.t = "<eof>" THEN [toks |-> toks, error |-> x.z.error, line |-> x.z.line]
      ELSE scan(x.z, Append(toks, [t |-> x.t, v |-> x.v, line |-> x.z.line]))
luaX_setinput(text) == scan([text |-> text, at |-> 1, line |-> 1, buff |-> "", error |-> ""], <<>>)
=============================================================================
