------------------------------ MODULE Semantic ------------------------------
(***************************************************************************)
(* Names, scopes and types (sema/semantic.hpp, symbol_table.hpp,           *)
(* operations.hpp and the second half of types.hpp).  The analysis is a    *)
(* record z: scopes, symbols and functions, numbered from 1, and status:   *)
(* "ok", "error" where the code reports an error, "aborted" where an       *)
(* assertion fails, "unsupported" for expressions the code leaves to do    *)
(* (infer returns a null type for them).  Functions return the annotated   *)
(* node and the analysis after it; after a failure the rest is of no       *)
(* consequence.                                                            *)
(*                                                                         *)
(* The code holds references into the vectors of scopes and of symbols     *)
(* over calls that append to them: to the scope around an if or a while,   *)
(* to the function that is called, to the variable that is assigned.  Here *)
(* what is read through them is what the vector left behind when it moved; *)
(* z.dangling says that it did move, so that anything may be read.         *)
(***************************************************************************)
EXTENDS Ast, IntSemantics

CONSTANT Scaled              \* the bits the types of 8, 16, 32 and 64 bits have here

get_int(bits) == [kind |-> "_int", bits |-> Scaled[bits]]
get_uint(bits) == [kind |-> "_uint", bits |-> Scaled[bits]]
get_bool == [kind |-> "_bool", bits |-> 8]
get_unit == [kind |-> "_unit", bits |-> 8]

Types == [i8 |-> get_int(8), i16 |-> get_int(16), i32 |-> get_int(32), i64 |-> get_int(64),
          u8 |-> get_uint(8), u16 |-> get_uint(16), u32 |-> get_uint(32),
          u64 |-> get_uint(64), bool |-> get_bool, unit |-> get_unit]

compatible_types(a, b) == a = b
is_boolean_ty(ty) == ty.kind = "_bool"
is_unit_ty(ty) == ty.kind = "_unit"

\* category_of; the operator of a unary expression is told apart by its node.
category_of(e) ==
  CASE e.op \in {"==", "!="} -> "equality"
    [] e.op \in {"<", "<=", ">", ">="} -> "ordering"
    [] e.op \in {"&&", "||", "!"} -> "logical"
    [] OTHER -> "numeric"

operand_ok(cat, ty) == CASE cat \in {"numeric", "ordering"} -> is_integer_ty(ty)
                         [] cat = "logical" -> is_boolean_ty(ty)
                         [] OTHER -> TRUE

result_type(cat, operand) == IF cat \in {"equality", "ordering"} THEN get_bool ELSE operand

-----------------------------------------------------------------------------
Stop(z, status) == [z EXCEPT !.status = IF @ = "ok" THEN status ELSE @]
Demand(condition, z) == IF condition THEN z ELSE Stop(z, "error")

function(id, params, result) == [is |-> "function", id |-> id, params |-> params, ty |-> result,
                              mut |-> FALSE]
variable(mut, ty) == [is |-> "variable", id |-> 0, params |-> <<>>, ty |-> ty, mut |-> mut]
other == [is |-> "type", id |-> 0, params |-> <<>>, ty |-> Untyped, mut |-> FALSE]

create_scope(parent, fn, kind, z) ==
  [z EXCEPT !.scopes = Append(@, [parent |-> parent, fn |-> fn, kind |-> kind, symbols |-> <<>>])]

Bound(name, id, symbols) ==
  [n \in DOMAIN symbols \cup {name} |-> IF n = name THEN id ELSE symbols[n]]

declare(name, sym, sid, z) ==
  LET id == Len(z.symbols) + 1
  IN  [Demand(name \notin DOMAIN z.scopes[sid].symbols, z) EXCEPT
         !.symbols = Append(@, sym), !.scopes[sid].symbols = Bound(name, id, @)]

RECURSIVE lookup_symbol(_, _, _)
lookup_symbol(name, sid, z) ==
  IF sid = 0 THEN 0
  ELSE LET s == z.scopes[sid]
       IN  IF name \in DOMAIN s.symbols THEN s.symbols[name]
           ELSE lookup_symbol(name, s.parent, z)

Symbol(id, z) == IF id = 0 THEN other ELSE z.symbols[id]

RECURSIVE is_scope_inside_loop(_, _)
is_scope_inside_loop(sid, z) ==
  sid # 0 /\ (z.scopes[sid].kind = "loop" \/ is_scope_inside_loop(z.scopes[sid].parent, z))

type_from_annotation(a) == IF a.base_name \in DOMAIN Types THEN Types[a.base_name] ELSE Untyped
Annotated(a, z) == IF type_from_annotation(a) = Untyped THEN Stop(z, "aborted") ELSE z

\* A vector of n elements grown one by one: when its capacity changes its
\* elements move and what pointed at them is left behind.
Capacity(n) == IF n = 0 THEN 0 ELSE CHOOSE c \in {2^k : k \in 0 .. n} : c >= n /\ c < 2 * n
Moved(vector, y, z) == Capacity(Len(y[vector])) # Capacity(Len(z[vector]))

\* z, after a read through a reference into a vector as it was in y.
Through(vector, y, z) ==
  [z EXCEPT !.dangling = @ \/ (z.status = "ok" /\ Moved(vector, y, z))]

-----------------------------------------------------------------------------
R(e, z) == [e |-> e, z |-> z]
Ty(r) == r.e.ann.ty
Note(e, ty, id, z) == R([e EXCEPT !.ann = [ty |-> ty, id |-> id]], z)
record(e, ty, z) == Note(e, ty, e.ann.id, z)

check_int_literal(e, ty, negated, z) ==
  Demand(is_integer_ty(ty) /\ is_within_bounds(ty, e.val, negated), z)

infer_op_left(e, lhs, rhs, z) ==
  LET cat == category_of(e)
  IN  record(e, result_type(cat, lhs), Demand(operand_ok(cat, lhs), z))

infer_op(e, lhs, rhs, z) ==
  LET cat == category_of(e)
  IN  record(e, result_type(cat, lhs),
             Demand(operand_ok(cat, lhs) /\ operand_ok(cat, rhs) /\ lhs = rhs, z))

RECURSIVE is_context_typed(_)
is_context_typed(e) ==
  \/ e.e = "num"
  \/ e.e \in {"unary", "binary"} /\ category_of(e) = "numeric" /\ is_context_typed(e.lhs)
     /\ (e.e = "binary" => is_context_typed(e.rhs))

negated_literal(e) == e.op = "-" /\ e.lhs.e = "num"

block_diverges(e) == e.stmts # <<>> /\ e.stmts[Len(e.stmts)].s = "ret"

RECURSIVE Visit(_, _, _, _), Statements(_, _, _), Arguments(_, _, _, _, _)

\* An expression whose type is found out or, where one is expected, checked.
infer(e, sid, z) == Visit(e, <<>>, sid, z)
check(e, expected, sid, z) == Visit(e, <<expected>>, sid, z)

\* The operands of e: a side made of literals takes the type of the other.
infer_operands(e, sid, z) ==
  LET lhs_free == is_context_typed(e.lhs)
      rhs_free == is_context_typed(e.rhs)
      swap == lhs_free /\ ~rhs_free
      first == infer(IF swap THEN e.rhs ELSE e.lhs, sid, z)
      rest == IF swap THEN e.lhs ELSE e.rhs
      second == IF lhs_free # rhs_free /\ is_integer_ty(Ty(first))
                THEN check(rest, Ty(first), sid, first.z) ELSE infer(rest, sid, first.z)
  IN  R([e EXCEPT !.lhs = IF swap THEN second.e ELSE first.e,
                  !.rhs = IF swap THEN first.e ELSE second.e], second.z)

\* An expression in a scope of its own, checked or inferred.
Inner(e, expected, kind, sid, z) ==
  LET y == create_scope(sid, z.scopes[sid].fn, kind, z)
      s == Len(y.scopes)
  IN  Visit(e, expected, s, y)

\* The condition, the branches and what is left to say about the else.
If(e, expected, sid, z) ==
  LET c == infer(e.cond, sid, z)
      then == Inner(e.then_body, expected, "block", sid,
                    Through("scopes", z, Demand(is_boolean_ty(Ty(c)), c.z)))
      ty == IF expected = <<>> THEN Ty(then) ELSE expected[1]
      els == Inner(e.else_body[1], expected, "block", sid, Through("scopes", z, then.z))
      done == [e EXCEPT !.cond = c.e, !.then_body = then.e]
  IN  IF e.else_body = <<>> THEN record(done, ty, Demand(is_unit_ty(ty), then.z))
      ELSE record([done EXCEPT !.else_body = <<els.e>>], ty,
                  Demand(expected = <<>> => compatible_types(ty, Ty(els)), els.z))

Block(e, expected, sid, z) ==
  LET y == create_scope(sid, z.scopes[sid].fn, "block", z)
      s == Len(y.scopes)
      b == Statements(e.stmts, s, R(<<>>, y))
      last == Visit(e.trailing[1], expected, s, b.z)
      done == [e EXCEPT !.stmts = b.e]
      ty == IF expected # <<>> THEN expected[1]
            ELSE IF e.trailing # <<>> THEN Ty(last) ELSE get_unit
  IN  IF e.trailing # <<>> THEN record([done EXCEPT !.trailing = <<last.e>>], ty, last.z)
      ELSE record(done, ty, Demand(block_diverges(e) \/ is_unit_ty(ty), b.z))

Negated_unrecorded(e, ty, z) == R(e, check_int_literal(e.lhs, ty, TRUE, z))
Negated(e, ty, z) ==
  LET y == check_int_literal(e.lhs, ty, TRUE, z) IN R([e EXCEPT !.lhs = record(@, ty, y).e], y)

check_expr(e, expected, sid, z) ==
  CASE e.e = "num" -> record(e, expected, check_int_literal(e, expected, FALSE, z))
    [] e.e = "unary" ->
         LET r == IF negated_literal(e) THEN Negated(e, expected, z)
                  ELSE LET l == check(e.lhs, expected, sid, z) IN R([e EXCEPT !.lhs = l.e], l.z)
         IN  record(r.e, expected, infer_op(e, expected, expected, r.z).z)
    [] e.e = "binary" ->
         LET l == check(e.lhs, expected, sid, z)
             r == check(e.rhs, expected, sid, l.z)
         IN  record([e EXCEPT !.lhs = l.e, !.rhs = r.e], expected, r.z)
    [] e.e = "if" -> If(e, <<expected>>, sid, z)
    [] e.e = "block" -> Block(e, <<expected>>, sid, z)
    [] OTHER -> LET r == infer(e, sid, z)
                IN  R(r.e, Demand(compatible_types(Ty(r), expected), r.z))

\* The arguments from the i-th on, of a call met in y.  fn->param_types is
\* read in every round; once the symbols have moved it is found empty.
Arguments(args, i, fn, y, sz) ==
  LET r == check(args[i], fn.params[i], sz.sid, sz.z)
  IN  IF i > Len(fn.params) \/ Moved("symbols", y, sz.z) THEN [args |-> args, z |-> sz.z]
      ELSE Arguments([args EXCEPT ![i] = r.e], i + 1, fn, y, [sz EXCEPT !.z = r.z])

Call(e, sid, z) ==
  LET id == IF e.callee.e = "id" THEN lookup_symbol(e.callee.name, sid, z) ELSE 0
      fn == Symbol(id, z)
      ok == fn.is = "function" /\ Len(e.args) = Len(fn.params)
      r == Arguments(e.args, 1, fn, z, [sid |-> sid, z |-> z])
  IN  IF ok THEN Note([e EXCEPT !.args = r.args], fn.ty, fn.id, Through("symbols", z, r.z))
      ELSE R(e, Stop(z, "error"))

Assign(e, sid, z) ==
  LET id == lookup_symbol(e.name, sid, z)
      var == Symbol(id, z)
      r == check(e.value, var.ty, sid, Demand(var.is = "variable" /\ var.mut, z))
  IN  Note([e EXCEPT !.value = r.e], var.ty, id, Through("symbols", z, r.z))

infer_expr(e, sid, z) ==
  CASE e.e = "num" -> record(e, get_int(32), check_int_literal(e, get_int(32), FALSE, z))
    [] e.e = "bool" -> record(e, get_bool, z)
    [] e.e = "id" ->
         LET id == lookup_symbol(e.name, sid, z)
             var == Symbol(id, z)
         IN  Note(e, var.ty, id, Demand(var.is = "variable", z))
    [] e.e = "unary" ->
         LET r == IF negated_literal(e) THEN Negated(e, get_int(32), z)
                  ELSE LET l == infer(e.lhs, sid, z) IN R([e EXCEPT !.lhs = l.e], l.z)
         IN  infer_op(r.e, r.e.lhs.ann.ty, r.e.lhs.ann.ty, r.z)
    [] e.e \in {"binary", "relational"} ->
         LET r == infer_operands(e, sid, z)
         IN  infer_op(r.e, r.e.lhs.ann.ty, r.e.rhs.ann.ty, r.z)
    [] e.e = "assign" -> Assign(e, sid, z)
    [] e.e = "call" -> Call(e, sid, z)
    [] e.e = "if" -> If(e, <<>>, sid, z)
    [] e.e = "while" ->
         LET c == infer(e.cond, sid, z)
             b == Inner(e.body, <<>>, "loop", sid,
                        Through("scopes", z, Demand(is_boolean_ty(Ty(c)), c.z)))
         IN  record([e EXCEPT !.cond = c.e, !.body = b.e], get_unit, Demand(is_unit_ty(Ty(b)), b.z))
    [] e.e = "loop" ->
         LET b == Inner(e.body, <<>>, "loop", sid, z)
         IN  record([e EXCEPT !.body = b.e], get_unit, Demand(is_unit_ty(Ty(b)), b.z))
    [] e.e = "block" -> Block(e, <<>>, sid, z)
    [] e.e \in {"string", "float"} -> R(e, Stop(z, "aborted"))
    [] OTHER -> R(e, Stop(z, "unsupported"))

Visit(e, expected, sid, z) ==
  IF expected = <<>> THEN infer_expr(e, sid, z) ELSE check_expr(e, expected[1], sid, z)

\* analyze(var_decl): the variable is declared after its initializer.
Declared(d, sid, r) ==
  LET y == declare(d.name, variable(d.mut, Ty(r)), sid, r.z)
  IN  R([d EXCEPT !.initializer = r.e, !.id = Len(y.symbols)], y)
Declaration(d, sid, z) ==
  Declared(d, sid, IF d.ty = <<>> THEN infer(d.initializer, sid, z)
                   ELSE check(d.initializer, type_from_annotation(d.ty[1]), sid,
                              Annotated(d.ty[1], z)))

Return(s, sid, z) ==
  LET fn == z.scopes[sid].fn
      ty == z.functions[fn].ret
      returning(r) == R([s EXCEPT !.val = <<r.e>>], r.z)
  IN  IF fn = 0 THEN R(s, Stop(z, "error"))
      ELSE IF s.val = <<>> THEN R(s, Demand(is_unit_ty(ty), z))
      ELSE returning(check(s.val[1], ty, sid, z))

\* analyze(stmt)
With_decl(node, r) == R([node EXCEPT !.decl = r.e], r.z)
With_expr(node, r) == R([node EXCEPT !.expr = r.e], r.z)
Statement(s, sid, z) ==
  CASE s.s = "let" -> With_decl(s, Declaration(s.decl, sid, z))
    [] s.s = "expr" -> With_expr(s, infer(s.expr, sid, z))
    [] s.s = "ret" -> Return(s, sid, z)
    [] s.s \in {"brk", "cont"} -> R(s, Demand(is_scope_inside_loop(sid, z), z))

\* After the nodes of done, in order.
And_then(done, r) == R(Append(done.e, r.e), r.z)
Statements(stmts, sid, done) ==
  IF stmts = <<>> THEN done
  ELSE Statements(Tail(stmts), sid, And_then(done, Statement(Head(stmts), sid, done.z)))

-----------------------------------------------------------------------------
RECURSIVE Collect(_, _), Parameters(_, _, _), Toplevels(_, _)

\* collect_toplevel_declarations: every function is known to every other.
Signature(f) == [params |-> [i \in DOMAIN f.params |-> type_from_annotation(f.params[i].ty)],
                 ret |-> type_from_annotation(f.ret_ty)]
Known(f) == \A a \in {f.ret_ty} \cup {f.params[i].ty : i \in DOMAIN f.params} :
              type_from_annotation(a) # Untyped
Collect(items, z) ==
  IF items = <<>> THEN z
  ELSE LET t == Head(items)
           id == Len(z.functions) + 1
           sig == Signature(t)
           y == CASE t.t = "static" -> z
                  [] t.t = "fn" ->
                       declare(t.name, function(id, sig.params, sig.ret), 1,
                               [(IF Known(t) THEN z ELSE Stop(z, "aborted"))
                                EXCEPT !.functions = Append(@, sig)])
                  [] OTHER -> declare(t.name, other, 1, z)
       IN  Collect(Tail(items), y)

Parameters(params, sid, z) ==
  IF params = <<>> THEN z
  ELSE LET p == Head(params)
       IN  Parameters(Tail(params), sid,
                      declare(p.name, variable(FALSE, type_from_annotation(p.ty)), sid, z))

Function(f, z) ==
  LET fn == Symbol(lookup_symbol(f.name, 1, z), z)
      y == create_scope(1, fn.id, "function", z)
      s == Len(y.scopes)
      with_body(r) == R([f EXCEPT !.body = r.e], r.z)
  IN  with_body(check(f.body, fn.ty, s, Parameters(f.params, s, y)))

\* analyze(module)
Toplevel(t, z) == CASE t.t = "fn" -> Function(t, z)
                    [] t.t = "static" -> With_decl(t, Declaration(t.decl, 1, z))
                    [] OTHER -> R(t, z)
Toplevels(items, done) ==
  IF items = <<>> THEN done
  ELSE Toplevels(Tail(items), And_then(done, Toplevel(Head(items), done.z)))

analyze(items) ==
  LET z == create_scope(0, 0, "global",
             [scopes |-> <<>>, symbols |-> <<>>, functions |-> <<>>, status |-> "ok",
              dangling |-> FALSE])
  IN  Toplevels(items, R(<<>>, Collect(items, z)))
=============================================================================
