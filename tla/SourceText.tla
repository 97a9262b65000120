----------------------------- MODULE SourceText ------------------------------
(***************************************************************************)
(* How programs are written, the reference the lexer and the parser are    *)
(* compared with.  Longest splits a text into the longest tokens it can.   *)
(* Printed writes syntax as tokens, with no more parentheses than the      *)
(* grammar of docs/language.md calls for (shifts, which it has not, bind   *)
(* tighter than comparisons and weaker than sums).                         *)
(***************************************************************************)
EXTENDS Integers, SequencesExt

L == INSTANCE Lexer

Only(t, S) == \A i \in 1 .. Len(t) : L!Char(t, i) \in S
First(t) == L!Char(t, 1)

\* A string has no bare quote inside: an even number of backslashes, none
\* above all, stands before its last quote and an odd number before others.
Escaping(t, i) ==
  Cardinality({j \in 1 .. i - 1 : \A k \in j .. i - 1 : L!Char(t, k) = "\\"}) % 2 = 1
IsString(t) ==
  /\ Len(t) > 1 /\ First(t) = "\"" /\ L!Char(t, Len(t)) = "\""
  /\ \A i \in 2 .. Len(t) : L!Char(t, i) = "\"" => (i = Len(t) <=> ~Escaping(t, i))

IsNumber(t) ==
  \E n \in 1 .. Len(t) :
    /\ Only(SubSeq(t, 1, n), L!Digits)
    /\ n < Len(t) => /\ n + 1 < Len(t) /\ L!Char(t, n + 1) = "."
                     /\ Only(L!From(t, n + 2), L!Digits)

IsToken(t) ==
  \/ t \in L!punct \/ IsString(t) \/ IsNumber(t)
  \/ First(t) \in L!Letters \cup {"_"} /\ Only(t, L!WordChars)

IsComment(t) ==
  \/ L!starts_with(t, "//") /\ L!Char(t, Len(t)) = "\n" /\ L!find(t, "\n") = Len(t)
  \/ L!starts_with(t, "/*") /\ Len(t) > 3 /\ L!find(L!From(t, 3), "*/") = Len(t) - 3

RECURSIVE Longest(_)
Longest(text) ==
  LET ends == 1 .. Len(text)
      skipped == {n \in ends : IsComment(SubSeq(text, 1, n))} \cup
                 {n \in {1} \cap ends : First(text) \in L!Blanks}
      taken == {n \in ends : IsToken(SubSeq(text, 1, n))}
  IN  IF skipped # {} THEN Longest(L!From(text, Max(skipped) + 1))
      ELSE IF taken = {} THEN <<>>
      ELSE <<SubSeq(text, 1, Max(taken))>> \o Longest(L!From(text, Max(taken) + 1))

-----------------------------------------------------------------------------
\* How tightly an expression binds; the operators of a level group to the
\* left, assignment to the right.
Binding(e) ==
  IF e.e = "assign" THEN 0
  ELSE IF e.e = "unary" THEN 8
  ELSE IF e.e \in {"binary", "relational"}
  THEN CASE e.op = "||" -> 1 [] e.op = "&&" -> 2 [] e.op \in {"==", "!="} -> 3
         [] e.op \in {"<", "<=", ">", ">="} -> 4 [] e.op \in {"<<", ">>"} -> 5
         [] e.op \in {"+", "-"} -> 6 [] OTHER -> 7
  ELSE 9

Commas(lists) ==
  FoldLeft(LAMBDA all, t : IF all = <<>> THEN t ELSE all \o <<",">> \o t, <<>>, lists)
If(condition, tokens) == IF condition THEN tokens ELSE <<>>

RECURSIVE Type(_), Printed(_, _)
Type(a) ==
  LET args == [i \in DOMAIN a.generic_args |-> Type(a.generic_args[i])]
  IN  If(a.is_reference, <<"&">>) \o If(a.is_mutable_ref, <<"mut">>) \o <<a.base_name>>
      \o If(args # <<>>, <<"<">> \o Commas(args) \o <<">">>)
      \o If(a.is_nullable, <<"?">>) \o If(a.is_array, <<"[", "]">>)

Named(name, ty) == <<name, ":">> \o Type(ty)
Declared(d) ==
  If(d.mut, <<"mut">>) \o <<d.name>> \o If(d.ty # <<>>, <<":">> \o Type(d.ty[1]))
  \o <<"=">> \o Printed(d.initializer, 0) \o <<";">>

Stmt(s) ==
  CASE s.s = "let" -> <<"let">> \o Declared(s.decl)
    [] s.s = "ret" -> <<"return">> \o If(s.val # <<>>, Printed(s.val[1], 0)) \o <<";">>
    [] s.s = "brk" -> <<"break", ";">>
    [] s.s = "cont" -> <<"continue", ";">>
    [] s.s = "expr" -> Printed(s.expr, 0) \o <<";">>

\* The tokens of e where something that binds at least this tightly may stand.
Printed(e, level) ==
  LET P(x) == Printed(x, 0)
      Each(es) == Commas([i \in DOMAIN es |-> P(es[i])])
      n == Binding(e)
      text ==
        CASE e.e = "num" -> <<ToString(e.val)>>
          [] e.e = "float" -> <<e.text>>
          [] e.e = "bool" -> <<IF e.val = 1 THEN "true" ELSE "false">>
          [] e.e = "string" -> <<"\"" \o e.text \o "\"">>
          [] e.e = "id" -> <<e.name>>
          [] e.e = "unary" -> <<e.op>> \o Printed(e.lhs, n)
          [] e.e \in {"binary", "relational"} ->
               Printed(e.lhs, n) \o <<e.op>> \o Printed(e.rhs, n + 1)
          [] e.e = "assign" -> <<e.name, "=">> \o P(e.value)
          [] e.e = "call" -> Printed(e.callee, 9) \o <<"(">> \o Each(e.args) \o <<")">>
          [] e.e = "field" -> Printed(e.object, 9) \o <<".", e.field>>
          [] e.e = "index" -> Printed(e.array, 9) \o <<"[">> \o P(e.index) \o <<"]">>
          [] e.e = "if" -> <<"if">> \o P(e.cond) \o P(e.then_body)
                           \o If(e.else_body # <<>>, <<"else">> \o P(e.else_body[1]))
          [] e.e = "while" -> <<"while">> \o P(e.cond) \o P(e.body)
          [] e.e = "loop" -> <<"loop">> \o P(e.body)
          [] e.e = "match" ->
               <<"match">> \o P(e.value) \o <<"{">>
               \o Commas([i \in DOMAIN e.arms |->
                            P(e.arms[i].pattern) \o <<"=>">> \o P(e.arms[i].value)]) \o <<"}">>
          [] e.e = "struct" ->
               <<e.name, "{">>
               \o Commas([i \in DOMAIN e.fields |->
                            <<e.fields[i].name, ":">> \o P(e.fields[i].value)]) \o <<"}">>
          [] e.e = "block" ->
               <<"{">> \o FlattenSeq([i \in DOMAIN e.stmts |-> Stmt(e.stmts[i])])
               \o If(e.trailing # <<>>, P(e.trailing[1])) \o <<"}">>
  IN  IF n < level THEN <<"(">> \o text \o <<")">> ELSE text

Generics(t) ==
  If(t.generics # <<>>,
     <<"<">> \o Commas([i \in DOMAIN t.generics |-> <<t.generics[i]>>]) \o <<">">>)

Toplevel(t) ==
  CASE t.t = "fn" ->
         <<"fn", t.name>> \o Generics(t) \o <<"(">>
         \o Commas([i \in DOMAIN t.params |-> Named(t.params[i].name, t.params[i].ty)])
         \o <<")", "->">> \o Type(t.ret_ty) \o Printed(t.body, 0)
    [] t.t = "enum" ->
         <<"enum", t.name>> \o Generics(t) \o <<"{">>
         \o Commas([i \in DOMAIN t.members |->
              LET m == t.members[i]
              IN  <<m.name>> \o If(m.data_types # <<>>,
                    <<"(">> \o Commas([k \in DOMAIN m.data_types |-> Type(m.data_types[k])])
                    \o <<")">>)]) \o <<"}">>
    [] t.t = "struct" ->
         <<"struct", t.name>> \o Generics(t) \o <<"{">>
         \o Commas([i \in DOMAIN t.fields |-> Named(t.fields[i].name, t.fields[i].ty)])
         \o <<"}">>
    [] t.t = "static" -> <<"static">> \o Declared(t.decl)

\* The text of a module, with blanks between its tokens.
Text(items) ==
  FoldLeft(LAMBDA all, t : all \o " " \o t, "",
           FlattenSeq([i \in DOMAIN items |-> Toplevel(items[i])]))
=============================================================================
