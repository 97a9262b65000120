-------------------------------- MODULE Lexer --------------------------------
(***************************************************************************)
(* Text to tokens (frontend/lexer.hpp, frontend/lexer.cpp).  The lexer is  *)
(* a record: sv, the text that is left, toks, the tokens so far, and       *)
(* failed, set where the code throws.  Source locations are left out.      *)
(***************************************************************************)
EXTENDS Integers, Sequences, FiniteSets

Char(s, i) == IF i <= Len(s) THEN SubSeq(s, i, i) ELSE ""
From(s, i) == SubSeq(s, i, Len(s))
starts_with(s, t) == Len(t) <= Len(s) /\ SubSeq(s, 1, Len(t)) = t
Chars(s) == {Char(s, i) : i \in 1 .. Len(s)}

Blanks == {" ", "\t", "\n", "\r", "\f"}
Digits == Chars("0123456789")
Letters == Chars("abcdefghijklmnopqrstuvwxyzABCDEFGHIJKLMNOPQRSTUVWXYZ")
WordChars == Letters \cup Digits \cup {"_"}

keywords ==
  {"let", "match", "static", "mut", "loop", "fn", "if", "else", "for", "do", "while",
   "switch", "break", "continue", "case", "return", "assert", "struct", "enum", "i8",
   "i16", "i32", "i64", "u8", "u16", "u32", "u64", "unit", "bool", "true", "false"}

punct ==
  {"(", ")", "{", "}", "[", "]", ";", ",", ".", "?", ":", "+", "-", "*", "/", "%", "|",
   "&", "^", "~", "=", "!", "<", ">", "++", "--", "&&", "||", "==", "!=", "<=", ">=",
   "<<", ">>", "->", "=>", "+=", "-=", "*=", "/=", "%=", "<<=", ">>="}

\* The first place at or after i whose character is not in S.
Span(s, i, S) == CHOOSE j \in i .. Len(s) + 1 :
  /\ j <= Len(s) => Char(s, j) \notin S
  /\ \A k \in i .. j - 1 : Char(s, k) \in S

\* Where t first occurs in s, 0 if it does not.
find(s, t) ==
  LET found == {i \in 1 .. Len(s) - Len(t) + 1 : SubSeq(s, i, i + Len(t) - 1) = t}
  IN  IF found = {} THEN 0 ELSE CHOOSE i \in found : \A j \in found : i <= j

-----------------------------------------------------------------------------
advance(s, ptr) == [s EXCEPT !.sv = From(@, ptr + 1)]
push(s, cat, ptr) ==
  [advance(s, ptr) EXCEPT !.toks = Append(@, [cat |-> cat, data |-> SubSeq(s.sv, 1, ptr)])]
Throw(s) == [s EXCEPT !.sv = "", !.failed = TRUE]

drop_blanks(s) == advance(s, Span(s.sv, 1, Blanks) - 1)

\* A comment ends after its line, or after the first "*/" from its start.
drop_line(s) ==
  LET newline == find(s.sv, "\n")
  IN  advance(s, IF newline = 0 THEN Len(s.sv) ELSE newline)
drop_comment(s) ==
  LET end == find(s.sv, "*/") IN IF end = 0 THEN Throw(s) ELSE advance(s, end + 1)

\* A quote that does not end its string: an odd number of backslashes before it.
Escaped(s, i) ==
  Cardinality({j \in 2 .. i - 1 : \A k \in j .. i - 1 : Char(s, k) = "\\"}) % 2 = 1
shift_string(s) ==
  LET ends == {i \in 2 .. Len(s.sv) : Char(s.sv, i) = "\"" /\ ~Escaped(s.sv, i)}
  IN  IF ends = {} THEN Throw(s)
      ELSE push(s, "string", CHOOSE i \in ends : \A j \in ends : i <= j)

shift_word(s) ==
  LET n == Span(s.sv, 1, WordChars) - 1
  IN  push(s, IF SubSeq(s.sv, 1, n) \in keywords THEN "keyword" ELSE "ident", n)

Punctuations(sv) == {n \in 1 .. 3 : n <= Len(sv) /\ SubSeq(sv, 1, n) \in punct}
shift_punct_shortest(s) ==
  LET P == Punctuations(s.sv) IN push(s, "punct", CHOOSE n \in P : \A k \in P : n <= k)
shift_punct(s) ==
  LET P == Punctuations(s.sv) IN push(s, "punct", CHOOSE n \in P : \A k \in P : n >= k)

try_unsigned(s) ==
  LET sv == s.sv
      i == Span(sv, 1, Digits)
      end == IF Char(sv, i) = "." /\ Char(sv, i + 1) \in Digits
             THEN Span(sv, i + 1, Digits) ELSE i
  IN  IF Char(sv, end) \in Letters \cup {"_"} THEN Throw(s) ELSE push(s, "number", end - 1)

\* lexer::next and the advance after it
next(lexer) ==
  LET s == drop_blanks(lexer)
      c == Char(s.sv, 1)
  IN  CASE s.sv = "" -> s
        [] starts_with(s.sv, "//") -> drop_line(s)
        [] starts_with(s.sv, "/*") -> drop_comment(s)
        [] c = "\"" -> shift_string(s)
        [] c \in Letters \cup {"_"} -> shift_word(s)
        [] Punctuations(s.sv) # {} -> shift_punct(s)
        [] c \in Digits -> try_unsigned(s)
        [] OTHER -> Throw(s)

RECURSIVE Run(_)
Run(s) == IF s.sv = "" THEN s ELSE Run(next(s))

lex(text) == Run([sv |-> text, toks |-> <<>>, failed |-> FALSE])
=============================================================================
