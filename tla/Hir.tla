-------------------------------- MODULE Hir ----------------------------------
(***************************************************************************)
(* Analysed syntax to the high-level representation (hir/ast2hir.hpp,      *)
(* hir/hir.hpp): every node carries its type, names are symbols, and of    *)
(* the comparisons only equality and "less" are left.  The code numbers    *)
(* the nodes; here they are trees.                                         *)
(***************************************************************************)
EXTENDS Integers, Sequences
LOCAL INSTANCE TLC

A == INSTANCE Ast

hir_expr(h, ty, rest) == rest @@ [h |-> h, ty |-> ty]
hir_stmt(h, rest) == rest @@ [h |-> h]
Not(ty, lhs) == hir_expr("unary", ty, [op |-> "!", lhs |-> lhs])
Relation(op, ty, lhs, rhs) == hir_expr("relational", ty, [op |-> op, lhs |-> lhs, rhs |-> rhs])

\* x > y is y < x, and each of the others is the negation of its opposite.
lower_relational_unswapped(op, ty, lhs, rhs) ==
  CASE op = "!=" -> Not(ty, Relation("==", ty, lhs, rhs))
    [] op = ">" -> Relation("<", ty, rhs, lhs)
    [] op = ">=" -> Not(ty, Relation("<", ty, lhs, rhs))
    [] op = "<=" -> Not(ty, Relation("<", ty, lhs, rhs))
    [] OTHER -> Relation(op, ty, lhs, rhs)

lower_relational(op, ty, lhs, rhs) ==
  CASE op = "!=" -> Not(ty, Relation("==", ty, lhs, rhs))
    [] op = ">" -> Relation("<", ty, rhs, lhs)
    [] op = ">=" -> Not(ty, Relation("<", ty, lhs, rhs))
    [] op = "<=" -> Not(ty, Relation("<", ty, rhs, lhs))
    [] OTHER -> Relation(op, ty, lhs, rhs)

\* The parts of an expression that are expressions.
Parts(e) ==
  CASE e.e \in {"binary", "relational"} -> <<e.lhs, e.rhs>>
    [] e.e = "unary" -> <<e.lhs>>
    [] e.e = "assign" -> <<e.value>>
    [] e.e = "call" -> e.args
    [] e.e = "if" -> <<e.cond, e.then_body>> \o e.else_body
    [] e.e = "while" -> <<e.cond, e.body>>
    [] e.e = "loop" -> <<e.body>>
    [] e.e = "block" ->
         [i \in DOMAIN e.stmts |->
            LET s == e.stmts[i] IN CASE s.s = "let" -> s.decl.initializer
                                     [] s.s = "expr" -> s.expr
                                     [] s.s = "ret" /\ s.val # <<>> -> s.val[1]
                                     [] OTHER -> [e |-> "none"]] \o e.trailing
    [] OTHER -> <<>>

\* Does sema.expr_ty have every node that is asked for?  If not, at() throws.
RECURSIVE Resolved(_)
Resolved(e) ==
  e.e = "none" \/ (e.ann.ty # A!Untyped /\ \A i \in DOMAIN Parts(e) : Resolved(Parts(e)[i]))

RECURSIVE lower_expr_to_hir(_), lower_stmt_to_hir(_)
lower_stmt_to_hir(s) ==
  CASE s.s = "let" -> hir_stmt("let", [target |-> s.decl.id,
                                       value |-> lower_expr_to_hir(s.decl.initializer)])
    [] s.s = "expr" -> hir_stmt("expr", [e |-> lower_expr_to_hir(s.expr)])
    [] s.s = "ret" -> hir_stmt("ret", [value |-> [i \in DOMAIN s.val |-> lower_expr_to_hir(s.val[i])]])
    [] OTHER -> [h |-> s.s]

lower_expr_to_hir(e) ==
  LET ty == e.ann.ty
      Each(seq) == [i \in DOMAIN seq |-> lower_expr_to_hir(seq[i])]
      L(x) == lower_expr_to_hir(x)
  IN  CASE e.e = "num" -> hir_expr("int_lit", ty, [val |-> e.val])
        [] e.e = "bool" -> hir_expr("bool_lit", ty, [val |-> e.val])
        [] e.e = "id" -> hir_expr("var", ty, [sid |-> e.ann.id])
        [] e.e = "unary" -> IF e.op = "+" THEN L(e.lhs)
                            ELSE hir_expr("unary", ty, [op |-> e.op, lhs |-> L(e.lhs)])
        [] e.e = "binary" -> hir_expr("binary", ty, [op |-> e.op, lhs |-> L(e.lhs), rhs |-> L(e.rhs)])
        [] e.e = "relational" -> lower_relational(e.op, ty, L(e.lhs), L(e.rhs))
        [] e.e = "assign" -> hir_expr("assign", ty, [target |-> e.ann.id, value |-> L(e.value)])
        [] e.e = "call" -> hir_expr("call", ty, [target |-> e.ann.id, args |-> Each(e.args)])
        [] e.e = "if" -> hir_expr("if", ty, [cond |-> L(e.cond), then_body |-> L(e.then_body),
                                             else_body |-> Each(e.else_body)])
        [] e.e = "while" -> hir_expr("while", ty, [cond |-> L(e.cond), body |-> L(e.body)])
        [] e.e = "loop" -> hir_expr("loop", ty, [body |-> L(e.body)])
        [] e.e = "block" ->
             hir_expr("block", ty, [stmts |-> [i \in DOMAIN e.stmts |-> lower_stmt_to_hir(e.stmts[i])],
                                    trailing |-> Each(e.trailing)])

\* fn_builder::build: the function and its parameters are found again by name.
build(f, z) ==
  LET id == z.symbols[z.scopes[1].symbols[f.name]].id
      own == {s \in DOMAIN z.scopes : z.scopes[s].kind = "function" /\ z.scopes[s].fn = id} 
      scope == z.scopes[CHOOSE s \in own : \A t \in own : s <= t]
  IN  [params |-> [i \in DOMAIN f.params |->
                     LET sid == scope.symbols[f.params[i].name]
                     IN  [sid |-> sid, ty |-> z.symbols[sid].ty]],
       root |-> lower_expr_to_hir(f.body)]

\* The functions of a module; nothing when one of them has an unresolved node.
lower_ast_to_hir(items, z) ==
  LET fns == SelectSeq(items, LAMBDA t : t.t = "fn")
  IN  IF \A i \in DOMAIN fns : Resolved(fns[i].body)
      THEN <<[i \in DOMAIN fns |-> build(fns[i], z)]>> ELSE <<>>
=============================================================================
