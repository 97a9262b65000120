---------------------------- MODULE SourceMeaning ----------------------------
(***************************************************************************)
(* What a program means: the reference the compiled program is compared    *)
(* with.                                                                   *)
(*                                                                         *)
(* Call runs a function of an analysed module: names are looked up in the  *)
(* blocks around them, innermost first, operands are evaluated from left   *)
(* to right (of > and <=, whose order the language leaves open, from right *)
(* to left), and s, the state of a run, is                                 *)
(*   env    the bindings in force, innermost last                          *)
(*   end    "go", or why the run left the expression: "ret", "brk",        *)
(*          "cont", "trap", "cut" (fuel used up), "lost" (no reply)        *)
(*   val    the value of the last expression                               *)
(*   calls  the calls made, replies the answers to them                    *)
(*   fuel   iterations of loops that are left, names the functions         *)
(***************************************************************************)
EXTENDS IntSemantics, SequencesExt

Stop(s, end) == IF s.end = "go" THEN [s EXCEPT !.end = end] ELSE s
Give(v, s) == [s EXCEPT !.val = v]
Leave(s, outer) == [s EXCEPT !.env = SubSeq(@, 1, Len(outer.env))]

Innermost(name, env) == CHOOSE i \in DOMAIN env :
  env[i].name = name /\ \A j \in DOMAIN env : j > i => env[j].name # name

Compare(op, ty, a, b) ==
  LET x == IF is_signed_integer_ty(ty) THEN ToSigned(a) ELSE a
      y == IF is_signed_integer_ty(ty) THEN ToSigned(b) ELSE b
      holds == CASE op = "==" -> x = y [] op = "!=" -> x # y [] op = "<" -> x < y
                 [] op = "<=" -> x <= y [] op = ">" -> x > y [] op = ">=" -> x >= y
  IN  IF holds THEN 1 ELSE 0

Opcode(op, ty) ==
  LET signed == is_signed_integer_ty(ty)
  IN  CASE op = "+" -> "add" [] op = "-" -> "sub" [] op = "*" -> "mul" [] op = "<<" -> "shl"
        [] op = "/" -> (IF signed THEN "sdiv" ELSE "udiv")
        [] op = "%" -> (IF signed THEN "smod" ELSE "umod")
        [] op = ">>" -> (IF signed THEN "sar" ELSE "shr")

RECURSIVE Eval(_, _), EvalAll(_, _), Execute(_, _), Iterate(_, _)

EvalAll(es, s) ==
  IF es = <<>> THEN [vals |-> <<>>, s |-> s]
  ELSE LET first == Eval(Head(es), s)
           rest == EvalAll(Tail(es), first)
       IN  [vals |-> <<first.val>> \o rest.vals, s |-> rest.s]

Operate(e, s) ==
  LET back == e.op \in {">", "<="}
      r == EvalAll(IF back THEN <<e.rhs, e.lhs>> ELSE <<e.lhs, e.rhs>>, s)
      a == IF back THEN r.vals[2] ELSE r.vals[1]
      b == IF back THEN r.vals[1] ELSE r.vals[2]
      v == IF e.e = "relational" THEN Compare(e.op, e.lhs.ann.ty, a, b)
           ELSE eval_arith(Opcode(e.op, e.ann.ty), e.ann.ty, a, b)
  IN  IF r.s.end # "go" THEN r.s ELSE IF v = None THEN Stop(r.s, "trap") ELSE Give(v, r.s)

Ask(e, s) ==
  LET r == EvalAll(e.args, s)
      n == Len(r.s.calls) + 1
      t == r.s
  IN  IF t.end # "go" THEN t
      ELSE IF n > Len(t.replies) THEN Stop(t, "lost")
      ELSE [t EXCEPT !.val = t.replies[n],
                     !.calls = Append(@, [target |-> t.names[e.callee.name],
                                          reply |-> t.replies[n], args |-> r.vals])]

Eval(e, s) ==
  IF s.end # "go" THEN s
  ELSE
  CASE e.e = "num" -> Give(normalize(e.val, e.ann.ty), s)
    [] e.e = "bool" -> Give(e.val, s)
    [] e.e = "id" -> Give(s.env[Innermost(e.name, s.env)].val, s)
    [] e.e = "unary" ->
         LET r == Eval(e.lhs, s)
         IN  IF r.end # "go" THEN r
             ELSE Give(IF e.op = "-" THEN eval_neg(e.ann.ty, r.val)
                       ELSE IF e.op = "!" THEN 1 - r.val ELSE r.val, r)
    [] e.e = "binary" /\ e.op \in {"&&", "||"} ->
         LET l == Eval(e.lhs, s)
         IN  IF l.end # "go" \/ l.val = (IF e.op = "||" THEN 1 ELSE 0) THEN l ELSE Eval(e.rhs, l)
    [] e.e \in {"binary", "relational"} -> Operate(e, s)
    [] e.e = "assign" ->
         LET r == Eval(e.value, s)
         IN  IF r.end # "go" THEN r
             ELSE [r EXCEPT !.env[Innermost(e.name, r.env)].val = r.val]
    [] e.e = "call" -> Ask(e, s)
    [] e.e = "if" ->
         LET c == Eval(e.cond, s)
         IN  IF c.end # "go" THEN c
             ELSE IF c.val = 1 THEN Eval(e.then_body, c)
             ELSE IF e.else_body # <<>> THEN Eval(e.else_body[1], c) ELSE Give(0, c)
    [] e.e \in {"while", "loop"} -> Iterate(e, s)
    [] e.e = "block" ->
         LET b == Execute(e.stmts, s)
         IN  Leave(IF e.trailing = <<>> THEN Give(IF b.end = "ret" THEN b.val ELSE 0, b)
                   ELSE Eval(e.trailing[1], b), s)

Iterate(e, s) ==
  LET c == IF e.e = "while" THEN Eval(e.cond, s) ELSE Give(1, s)
      b == Eval(e.body, c)
  IN  IF s.fuel = 0 THEN Stop(s, "cut")
      ELSE IF c.end # "go" THEN c
      ELSE IF c.val = 0 THEN c
      ELSE IF b.end \in {"go", "cont"} THEN Iterate(e, [b EXCEPT !.end = "go", !.fuel = @ - 1])
      ELSE IF b.end = "brk" THEN [b EXCEPT !.end = "go", !.val = 0]
      ELSE b

Execute(stmts, s) ==
  IF stmts = <<>> \/ s.end # "go" THEN s
  ELSE LET t == Head(stmts)
           after ==
             CASE t.s = "let" ->
                    LET r == Eval(t.decl.initializer, s)
                    IN  [r EXCEPT !.env = Append(@, [name |-> t.decl.name, val |-> r.val])]
               [] t.s = "expr" -> Eval(t.expr, s)
               [] t.s = "ret" -> Stop(IF t.val = <<>> THEN Give(0, s) ELSE Eval(t.val[1], s), "ret")
               [] OTHER -> Stop(s, t.s)
       IN  Execute(Tail(stmts), after)

\* The run of function f with the given arguments (numbered from 0).
Call(f, names, args, replies, fuel) ==
  LET s == Eval(f.body,
             [env |-> [i \in DOMAIN f.params |-> [name |-> f.params[i].name, val |-> args[i - 1]]],
              end |-> "go", val |-> 0, calls |-> <<>>, replies |-> replies, fuel |-> fuel,
              names |-> names])
  IN  [s EXCEPT !.end = IF @ = "go" THEN "ret" ELSE @]
=============================================================================
