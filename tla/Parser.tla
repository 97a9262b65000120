------------------------------- MODULE Parser --------------------------------
(***************************************************************************)
(* Tokens to abstract syntax (frontend/parser.hpp, frontend/parser.cpp):   *)
(* recursive descent with one token of lookahead, two more to tell a       *)
(* struct literal from a block.  The parser is a record: toks, at (pos),   *)
(* cond (parsing_control_condition) and failed.  Each function returns e,  *)
(* the sequence of what it read, and p, the parser after it; where the     *)
(* code reports an error and throws, the rest of the input is skipped and  *)
(* failed is set.                                                          *)
(***************************************************************************)
EXTENDS Ast, Integers

CONSTANT WordBits            \* the bits of a word: 64 in the code

eof == [cat |-> "invalid", data |-> "<eof>"]
empty(p) == p.at > Len(p.toks)
Ahead(p, n) == IF p.at + n > Len(p.toks) THEN eof ELSE p.toks[p.at + n]
peek(p) == Ahead(p, 0)
fetch(p) == IF empty(p) THEN p ELSE [p EXCEPT !.at = @ + 1]
Fail(p) == [p EXCEPT !.at = Len(p.toks) + 1, !.failed = TRUE]

\* Keywords and punctuation differ from every token of another category.
match(p, data) == peek(p).data = data
match_any(p, S) == peek(p).data \in S
match_cat(p, cat) == peek(p).cat = cat
require(p, data) == IF match(p, data) THEN fetch(p) ELSE Fail(p)
skip(p, data) == IF match(p, data) THEN fetch(p) ELSE p

Got(x, p) == [e |-> <<x>>, p |-> p]
Nothing(p) == [e |-> <<>>, p |-> p]
Join(r, s) == [e |-> r.e \o s.e, p |-> s.p]
Then(r, read(_)) == Join(r, read(r.p))            \* reads on after r
Make(r, node(_)) == Got(node(r.e), r.p)           \* one node of all that was read
All(r) == Got(r.e, r.p)                           \* a list is one thing read
Hole == identifier("<error>")
Needed(r) == IF r.e = <<>> THEN Got(Hole, Fail(r.p)) ELSE r
Name(p) == IF match_cat(p, "ident") THEN Got(peek(p).data, fetch(p)) ELSE Got("", Fail(p))

-----------------------------------------------------------------------------
\* The binary operators of parse_or, parse_and, parse_equality,
\* parse_relational, parse_shift, parse_additive and parse_multiplicative.
Levels == <<{"||"}, {"&&"}, {"==", "!="}, {"<", "<=", ">", ">="}, {"<<", ">>"},
            {"+", "-"}, {"/", "*", "%"}>>

make_binary(op, lhs, rhs) ==
  IF op \in Levels[3] \cup Levels[4] THEN relational(op, lhs, rhs) ELSE binary(op, lhs, rhs)

AssignOps == {"=", "+=", "-=", "*=", "/=", "<<=", ">>="}
BaseOp(op) == SubSeq(op, 1, Len(op) - 1)
make_assignment(op, name, rhs) ==
  assign(name, IF op = "=" THEN rhs ELSE binary(BaseOp(op), identifier(name), rhs))

may_omit_statement_semicolon(e) == e.e \in {"if", "while", "loop"}

\* std::from_chars; an integer that is no word is an error.
RECURSIVE Value(_)
Value(digits) ==
  IF digits = "" THEN 0
  ELSE LET n == Len(digits)
           d == CHOOSE d \in 0 .. 9 : SubSeq("0123456789", d + 1, d + 1) = SubSeq(digits, n, n)
           v == 10 * Value(SubSeq(digits, 1, n - 1)) + d
       IN  IF v < 2^WordBits THEN v ELSE 2^WordBits
Number(p) ==
  LET text == peek(p).data
  IN  IF \E i \in 1 .. Len(text) : SubSeq(text, i, i) = "." THEN Got(float_lit(text), fetch(p))
      ELSE IF Value(text) = 2^WordBits THEN Got(Hole, Fail(p))
      ELSE Got(num_lit(Value(text)), fetch(p))

-----------------------------------------------------------------------------
RECURSIVE Item(_, _), Items(_, _, _), parse_type_annotation(_), parse_pattern(_), Postfix(_), parse_unary(_),
          Level(_, _), Operands(_, _), Operands_to_the_right(_, _), parse_expr(_),
          Statements(_, _), parse_if_expr(_)

Expression(p) == Needed(parse_expr(p))
TypeAnnotation(p) == Needed(parse_type_annotation(p))

\* Lists whose last element a comma may follow.
Trailing == {"field", "arm", "type", "member", "decl"}

List(kind, close, p) == IF match(p, close) THEN Nothing(fetch(p)) ELSE Items(kind, close, p)

\* name ":" and what follows it
Labelled(p) == LET n == Name(p) IN [n EXCEPT !.p = require(@, ":")]

parse_params(p) == Make(Then(Labelled(p), TypeAnnotation), LAMBDA e : param(e[1], e[2]))

parse_member(p) ==
  Make(Then(Name(p), LAMBDA q : IF match(q, "(") THEN All(List("type", ")", fetch(q)))
                                ELSE Got(<<>>, q)),
       LAMBDA e : enum_member(e[1], e[2]))

parse_arm(p) ==
  Make(Then(Needed(parse_pattern(p)), LAMBDA q : Expression(require(q, "=>"))),
       LAMBDA e : match_arm(e[1], e[2]))

parse_field(p) == Make(Then(Labelled(p), Expression), LAMBDA e : struct_literal_field(e[1], e[2]))

\* One or more items with commas between them, then the closing token.
AfterItem(kind, close, r) ==
  IF ~match(r.p, ",") THEN [r EXCEPT !.p = require(@, close)]
  ELSE IF kind \in Trailing /\ match(fetch(r.p), close) THEN [r EXCEPT !.p = fetch(fetch(@))]
  ELSE Then(r, LAMBDA p : Items(kind, close, fetch(p)))
Items(kind, close, p) == AfterItem(kind, close, Needed(Item(kind, p)))

BuiltinTypes == {"i8", "i16", "i32", "i64", "u8", "u16", "u32", "u64", "bool", "unit"}

RECURSIVE Brackets(_)
Brackets(p) == IF match(p, "[") THEN Brackets(require(fetch(p), "]")) ELSE p

parse_type_annotation(p) ==
  LET ref == match(p, "&")
      mut == ref /\ match(fetch(p), "mut")
      base == IF mut THEN fetch(fetch(p)) ELSE skip(p, "&")
      arguments(q) == IF match(q, "<") THEN Items("type", ">", fetch(q)) ELSE Nothing(q)
      annotation(args, array) ==
        Got(type_annotation(peek(base).data, args.e, ref, mut, match(args.p, "?"),
                            match(array, "[")), Brackets(array))
      suffixed(args) == annotation(args, skip(args.p, "?"))
  IN  IF ~match_cat(base, "ident") /\ ~match_any(base, BuiltinTypes) THEN Nothing(base)
      ELSE suffixed(arguments(fetch(base)))

-----------------------------------------------------------------------------
\* The statements of a block after those read so far, up to its end.
parse_block(p) == IF match(p, "{") THEN Statements(<<>>, fetch(p)) ELSE Nothing(p)
Body(p) == Needed(parse_block(p))

\* The condition of an if, a while or a match.
Condition(p) ==
  LET r == Expression([fetch(p) EXCEPT !.cond = TRUE]) IN [r EXCEPT !.p.cond = FALSE]

Else(p) == IF ~match(p, "else") THEN Got(<<>>, p)
           ELSE IF match(fetch(p), "if") THEN All(parse_if_expr(fetch(p)))
           ELSE All(Body(fetch(p)))
parse_if_expr(p) ==
  Make(Then(Then(Condition(p), Body), Else), LAMBDA e : if_(e[1], e[2], e[3]))

parse_match_expr(p) ==
  Make(Then(Condition(p), LAMBDA q : All(Items("arm", "}", require(q, "{")))),
       LAMBDA e : match_(e[1], e[2]))

parse_loop_expr(p) == Make(Body(fetch(p)), LAMBDA e : loop_(e[1]))
parse_while_expr(p) == Make(Then(Condition(p), Body), LAMBDA e : while_(e[1], e[2]))

\* A name is followed by the fields of a struct literal, not by a body.
looks_like_struct_literal(p) ==
  /\ ~p.cond /\ match(p, "{")
  /\ \/ Ahead(p, 1).data = "}"
     \/ Ahead(p, 1).cat = "ident" /\ Ahead(p, 2).data = ":"

parse_name(p) ==
  IF looks_like_struct_literal(fetch(p))
  THEN Make(List("field", "}", fetch(fetch(p))), LAMBDA e : struct_literal(peek(p).data, e))
  ELSE Got(identifier(peek(p).data), fetch(p))

parse_primary(p) ==
  LET tok == peek(p)
  IN  CASE tok.data = "(" -> LET r == parse_expr(fetch(p)) IN [r EXCEPT !.p = require(@, ")")]
        [] tok.data = "{" -> parse_block(p)
        [] tok.data = "if" -> parse_if_expr(p)
        [] tok.data = "match" -> parse_match_expr(p)
        [] tok.data = "loop" -> parse_loop_expr(p)
        [] tok.data = "while" -> parse_while_expr(p)
        [] tok.cat = "string" ->
             Got(string_lit(SubSeq(tok.data, 2, Len(tok.data) - 1)), fetch(p))
        [] tok.cat = "number" -> Number(p)
        [] tok.data \in {"true", "false"} -> Got(bool_lit(tok.data = "true"), fetch(p))
        [] tok.cat = "ident" -> parse_name(p)
        [] OTHER -> Nothing(p)

\* Nested patterns are read and dropped.
parse_pattern(p) ==
  LET nested(q) == IF match(q, "(") THEN List("pattern", ")", fetch(q)) ELSE Nothing(q)
  IN  IF match_cat(p, "number") \/ match_cat(p, "string") \/ match_any(p, {"true", "false"})
      THEN parse_primary(p)
      ELSE IF match_cat(p, "ident") THEN Got(identifier(peek(p).data), nested(fetch(p)).p)
      ELSE Nothing(p)

\* parse_postfix: calls, fields and indices after a primary expression.
Postfix(r) ==
  LET closed(p) == LET i == Expression(fetch(p)) IN [i EXCEPT !.p = require(@, "]")]
  IN  CASE r.e = <<>> -> r
        [] match(r.p, "(") ->
             Postfix(Make(Then(r, LAMBDA p : All(List("argument", ")", fetch(p)))),
                          LAMBDA e : call(e[1], e[2])))
        [] match(r.p, ".") ->
             Postfix(Make(Then(r, LAMBDA p : Name(fetch(p))), LAMBDA e : field_access(e[1], e[2])))
        [] match(r.p, "[") -> Postfix(Make(Then(r, closed), LAMBDA e : array_index(e[1], e[2])))
        [] OTHER -> r

parse_unary(p) ==
  IF match(p, "&") THEN Needed(parse_unary(skip(fetch(p), "mut")))
  ELSE IF match_any(p, {"!", "-", "+"})
  THEN Make(Needed(parse_unary(fetch(p))), LAMBDA e : unary(peek(p).data, e[1]))
  ELSE Postfix(parse_primary(p))

\* One level of binary operators, which group to the left.
Level(n, p) == IF n > Len(Levels) THEN parse_unary(p) ELSE Operands(n, Level(n + 1, p))

Operands_to_the_right(n, r) ==
  IF r.e = <<>> \/ ~match_any(r.p, Levels[n]) THEN r
  ELSE Make(Then(r, LAMBDA p : Needed(Level(n, fetch(p)))),
            LAMBDA e : make_binary(peek(r.p).data, e[1], e[2]))
Operands(n, r) ==
  IF r.e = <<>> \/ ~match_any(r.p, Levels[n]) THEN r
  ELSE Operands(n, Make(Then(r, LAMBDA p : Needed(Level(n + 1, fetch(p)))),
                        LAMBDA e : make_binary(peek(r.p).data, e[1], e[2])))

\* parse_assignment: groups to the right, and only to a name.
Assignment(lhs) ==
  IF lhs.e = <<>> \/ ~match_any(lhs.p, AssignOps) THEN lhs
  ELSE IF lhs.e[1].e # "id" THEN Got(Hole, Fail(lhs.p))
  ELSE Make(Then(lhs, LAMBDA p : Expression(fetch(p))),
            LAMBDA e : make_assignment(peek(lhs.p).data, e[1].name, e[2]))
parse_expr(p) == Assignment(Level(1, p))

-----------------------------------------------------------------------------
Closed(r) == [r EXCEPT !.p = require(@, ";")]

parse_var_decl(p) ==
  LET annotation(q) == IF match(q, ":") THEN All(TypeAnnotation(fetch(q))) ELSE Got(<<>>, q)
      initializer(q) == Expression(require(q, "="))
  IN  Closed(Make(Then(Then(Name(skip(p, "mut")), annotation), initializer),
                  LAMBDA e : var_decl(match(p, "mut"), e[1], e[2], e[3])))

\* parse_ret, parse_control_stmt, parse_let
parse_stmt(p) ==
  CASE match(p, "return") ->
         Closed(Make(IF match(fetch(p), ";") THEN Nothing(fetch(p)) ELSE Expression(fetch(p)), ret))
    [] match(p, "break") -> Closed(Got(brk, fetch(p)))
    [] match(p, "continue") -> Closed(Got(cont, fetch(p)))
    [] match(p, "let") -> Make(parse_var_decl(fetch(p)), LAMBDA e : let(e[1]))

\* After an expression among the statements.
AfterExpr(stmts, r) ==
  CASE r.e = <<>> -> Got(Hole, Fail(r.p))
    [] match(r.p, "}") -> Got(block(stmts, r.e), fetch(r.p))
    [] match(r.p, ";") \/ may_omit_statement_semicolon(r.e[1]) ->
         Statements(Append(stmts, expr_stmt(r.e[1])), skip(r.p, ";"))
    [] OTHER -> Got(Hole, Fail(r.p))
AfterStmt(stmts, r) == Statements(stmts \o r.e, r.p)

Statements(stmts, p) ==
  IF match(p, "}") THEN Got(block(stmts, <<>>), fetch(p))
  ELSE IF match_any(p, {"let", "return", "break", "continue"}) THEN AfterStmt(stmts, parse_stmt(p))
  ELSE AfterExpr(stmts, parse_expr(p))

parse_generic_params(p) ==
  IF match(p, "<") THEN All(Items("generic", ">", fetch(p))) ELSE Got(<<>>, p)
Declared(p) == Then(Name(fetch(p)), parse_generic_params)

parse_fn_decl(p) ==
  LET params(q) == All(List("param", ")", require(q, "(")))
      result(q) == IF match(q, "->") THEN TypeAnnotation(fetch(q)) ELSE Got(unit_annotation, q)
  IN  Make(Then(Then(Then(Declared(p), params), result), Body),
           LAMBDA e : fn_decl(e[1], e[2], e[3], e[4], e[5]))

parse_enum_decl(p) ==
  Make(Then(Declared(p), LAMBDA q : All(Items("member", "}", require(q, "{")))),
       LAMBDA e : enum_decl(e[1], e[2], e[3]))

parse_struct_decl(p) ==
  Make(Then(Declared(p), LAMBDA q : All(List("decl", "}", require(q, "{")))),
       LAMBDA e : struct_decl(e[1], e[2], e[3]))

parse_global_var_decl(p) == Make(parse_var_decl(fetch(p)), LAMBDA e : global_var_decl(e[1]))

parse_toplevel(p) == CASE match(p, "fn") -> parse_fn_decl(p)
                       [] match(p, "enum") -> parse_enum_decl(p)
                       [] match(p, "struct") -> parse_struct_decl(p)
                       [] match(p, "static") -> parse_global_var_decl(p)
                       [] OTHER -> Nothing(Fail(p))

\* What a list or a module is made of.
Item(kind, p) == CASE kind = "argument" -> parse_expr(p)
                   [] kind = "field" -> parse_field(p)
                   [] kind = "arm" -> parse_arm(p)
                   [] kind = "pattern" -> parse_pattern(p)
                   [] kind = "type" -> parse_type_annotation(p)
                   [] kind \in {"param", "decl"} -> parse_params(p)
                   [] kind = "member" -> parse_member(p)
                   [] kind = "generic" -> Name(p)
                   [] kind = "toplevel" -> parse_toplevel(p)

RECURSIVE Toplevels(_)
Toplevels(r) ==
  IF empty(r.p) THEN r ELSE Toplevels(Then(r, LAMBDA p : Item("toplevel", p)))

\* The module, and whether there was an error.
Module(r) == [items |-> r.e, failed |-> r.p.failed]
parse_module(toks) ==
  Module(Toplevels(Nothing([toks |-> toks, at |-> 1, cond |-> FALSE, failed |-> FALSE])))
=============================================================================
