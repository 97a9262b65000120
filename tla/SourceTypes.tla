----------------------------- MODULE SourceTypes -----------------------------
(***************************************************************************)
(* When a program is well typed: the rules of docs/language.md, for syntax *)
(* that carries the types the semantic analysis gave it.  An environment   *)
(* has the variables in force, innermost last, the functions, what the     *)
(* function around returns and whether a loop is around.                   *)
(***************************************************************************)
EXTENDS IntSemantics, Sequences

Is(ty, kind) == ty.kind = kind
OfType(e) == e.ann.ty

Var(name, env) ==
  LET found == {i \in DOMAIN env.vars : env.vars[i].name = name}
  IN  IF found = {} THEN [name |-> name, ty |-> "none", mut |-> FALSE]
      ELSE env.vars[CHOOSE i \in found : \A j \in found : j <= i]
Bind(name, ty, mut, env) ==
  [env EXCEPT !.vars = Append(@, [name |-> name, ty |-> ty, mut |-> mut])]

\* The types an operator takes, and the one it gives.
Takes(op, ty) ==
  CASE op \in {"==", "!="} -> TRUE
    [] op \in {"&&", "||", "!"} -> Is(ty, "_bool")
    [] OTHER -> is_integer_ty(ty)
Gives(op, ty, result) ==
  IF op \in {"==", "!=", "<", "<=", ">", ">="} THEN Is(result, "_bool") ELSE result = ty

Diverges(e) == e.e = "block" /\ e.stmts # <<>> /\ e.stmts[Len(e.stmts)].s = "ret"

RECURSIVE Typed(_, _), Body(_, _, _)

\* e has type ty, or control never comes to its end.
Has(e, ty, env) == Typed(e, env) /\ OfType(e) = ty

Typed(e, env) ==
  LET ty == OfType(e)
  IN  CASE e.e = "num" -> is_integer_ty(ty) /\ is_within_bounds(ty, e.val, FALSE)
        [] e.e = "bool" -> Is(ty, "_bool")
        [] e.e = "id" -> Var(e.name, env).ty = ty
        [] e.e = "unary" /\ e.op = "-" /\ e.lhs.e = "num" ->
             is_integer_ty(ty) /\ OfType(e.lhs) = ty /\ is_within_bounds(ty, e.lhs.val, TRUE)
        [] e.e = "unary" -> Takes(e.op, ty) /\ Has(e.lhs, ty, env)
        [] e.e \in {"binary", "relational"} ->
             LET operand == OfType(e.lhs)
             IN  /\ Takes(e.op, operand) /\ Gives(e.op, operand, ty)
                 /\ Typed(e.lhs, env) /\ Has(e.rhs, operand, env)
        [] e.e = "assign" ->
             Var(e.name, env).ty = ty /\ Var(e.name, env).mut /\ Has(e.value, ty, env)
        [] e.e = "call" ->
             /\ e.callee.name \in DOMAIN env.fns
             /\ LET f == env.fns[e.callee.name]
                IN  /\ ty = f.ret /\ Len(e.args) = Len(f.params)
                    /\ \A i \in DOMAIN e.args : Has(e.args[i], f.params[i], env)
        [] e.e = "if" ->
             /\ Typed(e.cond, env) /\ Is(OfType(e.cond), "_bool")
             /\ Has(e.then_body, ty, env)
             /\ IF e.else_body = <<>> THEN Is(ty, "_unit") ELSE Has(e.else_body[1], ty, env)
        [] e.e = "while" ->
             /\ Typed(e.cond, env) /\ Is(OfType(e.cond), "_bool")
             /\ Is(ty, "_unit") /\ Has(e.body, ty, [env EXCEPT !.loop = TRUE])
        [] e.e = "loop" -> Is(ty, "_unit") /\ Has(e.body, ty, [env EXCEPT !.loop = TRUE])
        [] e.e = "block" -> Body(e.stmts, e, env)
        [] OTHER -> FALSE

\* The statements that are left of block e, and its value.
Body(stmts, e, env) ==
  IF stmts = <<>>
  THEN IF e.trailing # <<>> THEN Has(e.trailing[1], OfType(e), env)
       ELSE Is(OfType(e), "_unit") \/ Diverges(e)
  ELSE LET s == Head(stmts)
           rest(after) == Body(Tail(stmts), e, after)
       IN  CASE s.s = "let" ->
                  /\ Typed(s.decl.initializer, env)
                  /\ rest(Bind(s.decl.name, OfType(s.decl.initializer), s.decl.mut, env))
             [] s.s = "expr" -> Typed(s.expr, env) /\ rest(env)
             [] s.s = "ret" -> /\ IF s.val = <<>> THEN Is(env.ret, "_unit")
                                  ELSE Has(s.val[1], env.ret, env)
                               /\ rest(env)
             [] OTHER -> env.loop /\ rest(env)

\* A function whose parameters and result have the types of sig.
FunctionTyped(f, sig, fns) ==
  Has(f.body, sig.ret,
      [vars |-> [i \in DOMAIN f.params |->
                   [name |-> f.params[i].name, ty |-> sig.params[i], mut |-> FALSE]],
       fns |-> fns, ret |-> sig.ret, loop |-> FALSE])
=============================================================================
