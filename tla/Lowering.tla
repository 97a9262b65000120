------------------------------ MODULE Lowering -------------------------------
(***************************************************************************)
(* The high-level representation to instructions (ir/hir2ir.hpp) and those *)
(* to a control flow graph (ir/cfg_builder.hpp).  The builder is a record: *)
(* code, the instructions so far, labels among them; symbol_value, where   *)
(* each symbol is kept; jmp_table, the labels of the loops around; lab_idx *)
(* and status: "ok", "thrown" where a lookup finds nothing, "crashed"      *)
(* where a null pointer is followed.  A value is the number of the         *)
(* instruction it is the result of, 0 the null pointer.                    *)
(***************************************************************************)
EXTENDS Ir, SequencesExt

null == 0
Instr(op, ty, args, k, tgt) == [op |-> op, ty |-> ty, args |-> args, k |-> k, tgt |-> tgt]

\* A lowered expression: its value and the builder after it.
V(v, b) == [v |-> v, b |-> b]
Halt(b, status) == [b EXCEPT !.status = IF @ = "ok" THEN status ELSE @]

add_instr(b, op, ty, operands, k, tgt) ==
  LET c == [b EXCEPT !.code = Append(@, Instr(op, ty, operands, k, tgt))]
  IN  IF null \in Range(operands) THEN Halt(c, "crashed") ELSE c
Effect(b, op, operands, tgt) == add_instr(b, op, NoType, operands, 0, tgt)
Label(b, id) == Effect(b, "label", <<>>, <<id>>)
Result(b, op, ty, operands, k) ==
  LET c == add_instr(b, op, ty, operands, k, <<>>) IN V(Len(c.code), c)
gen_label(b, n) == [b EXCEPT !.lab_idx = @ + n]

current_path_terminated(b) == b.code # <<>> /\ IsTerminator(Last(b.code).op)

br_if_not_terminated(b, label) ==
  IF current_path_terminated(b) THEN b ELSE Effect(b, "br", <<>>, <<label>>)

from_opkind(op, ty) ==
  LET signed == is_signed_integer_ty(ty)
  IN  CASE op = "+" -> "add" [] op = "-" -> "sub" [] op = "*" -> "mul"
        [] op = "/" -> IF signed THEN "sdiv" ELSE "udiv"
        [] op = "%" -> IF signed THEN "smod" ELSE "umod"
        [] op = "<<" -> "shl"
        [] op = ">>" -> IF signed THEN "sar" ELSE "shr"
        [] op = "==" -> "eq"
        [] op = "<" -> IF signed THEN "slt" ELSE "ult"

TypeOf(b, v) == IF v = null THEN NoType ELSE b.code[v].ty

\* Keeps v in cell, where there is a value.
StoreIn(b, cell, v) ==
  IF cell = null \/ v = null THEN b ELSE Effect(b, "store", <<cell, v>>, <<>>)

RECURSIVE lower_hir_expr(_, _), lower_hir_stmts(_, _), Values(_, _)

Values(es, b) ==
  IF es = <<>> THEN V(<<>>, b)
  ELSE LET r == lower_hir_expr(Head(es), b)
           rest == Values(Tail(es), r.b)
       IN  V(<<r.v>> \o rest.v, rest.b)

\* shortcircuit_and and shortcircuit_or: short is the value of the left
\* operand that decides.
shortcircuit(e, b, short) ==
  LET n == b.lab_idx
      ok == n
      nok == n + 1
      end == n + 2
      res == Result(b, "alloca", Bool, <<>>, 0)
      left == lower_hir_expr(e.lhs, gen_label(res.b, 3))
      cond == Effect(left.b, "cond_br", <<left.v>>, <<ok, nok>>)
      const == Result(Label(cond, IF short = 1 THEN ok ELSE nok), "bconst", Bool, <<>>, short)
      decided == br_if_not_terminated(Effect(const.b, "store", <<res.v, const.v>>, <<>>), end)
      right == lower_hir_expr(e.rhs, Label(decided, IF short = 1 THEN nok ELSE ok))
      done == br_if_not_terminated(Effect(right.b, "store", <<res.v, right.v>>, <<>>), end)
  IN  Result(Label(done, end), "load", Bool, <<res.v>>, 0)

lower_if(e, b) ==
  LET res == IF e.ty.kind = "_unit" THEN V(null, b) ELSE Result(b, "alloca", e.ty, <<>>, 0)
      n == b.lab_idx
      end == n + 2
      cond == lower_hir_expr(e.cond, gen_label(res.b, 3))
      then == lower_hir_expr(e.then_body,
                             Label(Effect(cond.b, "cond_br", <<cond.v>>, <<n, n + 1>>), n))
      between == Label(br_if_not_terminated(StoreIn(then.b, res.v, then.v), end), n + 1)
      els == IF e.else_body = <<>> THEN V(null, between)
             ELSE lower_hir_expr(e.else_body[1], between)
      after == Label(br_if_not_terminated(StoreIn(els.b, res.v, els.v), end), end)
  IN  IF res.v = null THEN V(null, after) ELSE Result(after, "load", e.ty, <<res.v>>, 0)

\* A loop with or without a condition: its body comes back to head.
Loop(e, b) ==
  LET head == b.lab_idx
      conditional == e.h = "while"
      end == IF conditional THEN head + 2 ELSE head + 1
      start == [Label(gen_label(b, IF conditional THEN 3 ELSE 2), head)
                EXCEPT !.jmp_table = Append(@, [cont |-> head, brk |-> end])]
      cond == lower_hir_expr(e.cond, start)
      test == Effect(cond.b, "cond_br", <<cond.v>>, <<head + 1, end>>)
      body == lower_hir_expr(e.body, IF conditional THEN Label(test, head + 1) ELSE start)
      after == Label(br_if_not_terminated(body.b, head), end)
  IN  V(null, [after EXCEPT !.jmp_table = Front(@)])

\* The cell of a symbol.
Cell(sid, b) == IF sid \in DOMAIN b.symbol_value THEN V(b.symbol_value[sid], b)
                ELSE V(null, Halt(b, "thrown"))

Operation(e, b) ==
  LET lhs == lower_hir_expr(e.lhs, b)
      rhs == lower_hir_expr(e.rhs, lhs.b)
  IN  IF null \in {lhs.v, rhs.v} THEN V(null, Halt(rhs.b, "crashed"))
      ELSE Result(rhs.b, from_opkind(e.op, TypeOf(rhs.b, lhs.v)), e.ty, <<lhs.v, rhs.v>>, 0)

lower_hir_expr(e, b) ==
  CASE e.h = "int_lit" -> Result(b, "iconst", e.ty, <<>>, e.val)
    [] e.h = "bool_lit" -> Result(b, "bconst", e.ty, <<>>, e.val)
    [] e.h = "var" -> LET c == Cell(e.sid, b) IN Result(c.b, "load", e.ty, <<c.v>>, 0)
    [] e.h = "unary" -> LET r == lower_hir_expr(e.lhs, b)
                        IN  Result(r.b, IF e.op = "-" THEN "neg" ELSE "lnot", e.ty, <<r.v>>, 0)
    [] e.h = "binary" /\ e.op = "&&" -> shortcircuit(e, b, 0)
    [] e.h = "binary" /\ e.op = "||" -> shortcircuit(e, b, 1)
    [] e.h = "relational" \/ (e.h = "binary" /\ e.op \notin {"&&", "||"}) -> Operation(e, b)
    [] e.h = "assign" -> LET r == lower_hir_expr(e.value, b)
                             c == Cell(e.target, r.b)
                         IN  V(r.v, Effect(c.b, "store", <<c.v, r.v>>, <<>>))
    [] e.h = "call" -> LET args == Values(e.args, b)
                       IN  Result(args.b, "call", e.ty, args.v, e.target - 1)
    [] e.h = "if" -> lower_if(e, b)
    [] e.h \in {"while", "loop"} -> Loop(e, b)
    [] e.h = "block" -> LET c == lower_hir_stmts(e.stmts, b)
                        IN  IF e.trailing = <<>> THEN V(null, c)
                            ELSE lower_hir_expr(e.trailing[1], c)

lower_hir_stmt(s, b) ==
  CASE s.h = "expr" -> lower_hir_expr(s.e, b).b
    [] s.h = "let" -> LET res == Result(b, "alloca", s.value.ty, <<>>, 0)
                          rhs == lower_hir_expr(s.value, res.b)
                      IN  [StoreIn(rhs.b, res.v, rhs.v)
                           EXCEPT !.symbol_value = (s.target :> res.v) @@ @]
    [] s.h = "ret" -> LET r == Values(s.value, b) IN Effect(r.b, "ret", r.v, <<>>)
    [] s.h = "brk" -> Effect(b, "br", <<>>, <<Last(b.jmp_table).brk>>)
    [] s.h = "cont" -> Effect(b, "br", <<>>, <<Last(b.jmp_table).cont>>)

lower_hir_stmts(ss, b) ==
  IF ss = <<>> THEN b ELSE lower_hir_stmts(Tail(ss), lower_hir_stmt(Head(ss), b))

\* ir_builder::build
Parameters(params) ==
  [code |-> [i \in DOMAIN params |-> Instr("param", params[i].ty, <<>>, i - 1, <<>>)],
   symbol_value |-> [sid \in {params[i].sid : i \in DOMAIN params} |->
                       CHOOSE i \in DOMAIN params : params[i].sid = sid],
   jmp_table |-> <<>>, lab_idx |-> 1, status |-> "ok"]

build_open(fn) ==
  LET root == lower_hir_expr(fn.root, Parameters(fn.params))
  IN  IF root.v # null THEN Effect(root.b, "ret", <<root.v>>, <<>>) ELSE root.b

build(fn) ==
  LET root == lower_hir_expr(fn.root, Parameters(fn.params))
  IN  IF root.v # null THEN Effect(root.b, "ret", <<root.v>>, <<>>)
      ELSE IF current_path_terminated(root.b) THEN root.b
      ELSE Effect(root.b, "ret", <<>>, <<>>)

-----------------------------------------------------------------------------
\* cfg_builder::build

IsLabel(c) == c.op = "label"

leaders(code) ==
  {1} \cup {i \in 2 .. Len(code) : IsLabel(code[i]) \/ IsTerminator(code[i - 1].op)}

\* connect, for each target in turn: no edge is there twice.
connect(targets) == IF Len(targets) = 2 /\ targets[1] = targets[2] THEN <<targets[1]>> ELSE targets

build_cfg(code) ==
  LET all == [i \in DOMAIN code |-> i]
      starts == SelectSeq(all, LAMBDA i : i \in leaders(code))
      n == Len(starts)
      B == 1 .. n
      block_of(i) == CHOOSE b \in B : starts[b] <= i /\ (b < n => i < starts[b + 1])
      kept == SelectSeq(all, LAMBDA i : ~IsLabel(code[i]))
      new == [i \in Range(kept) |-> CHOOSE k \in DOMAIN kept : kept[k] = i]
      ins(b) == SelectSeq([k \in DOMAIN kept |-> k], LAMBDA k : block_of(kept[k]) = b)
      labels == [l \in {code[i].tgt[1] : i \in {j \in DOMAIN code : IsLabel(code[j])}} |->
                   block_of(CHOOSE i \in DOMAIN code : IsLabel(code[i]) /\ code[i].tgt[1] = l)]
      next(b) == IF b < n THEN <<b + 1>> ELSE <<>>
      succ(b) ==
        IF ins(b) = <<>> THEN next(b)
        ELSE LET last == code[kept[ins(b)[Len(ins(b))]]]
             IN  IF IsTerminator(last.op)
                 THEN connect([t \in DOMAIN last.tgt |-> labels[last.tgt[t]]])
                 ELSE next(b)
      Renamed(i) == [code[i] EXCEPT !.args = [a \in DOMAIN @ |-> new[@[a]]]]
  IN  [entry |-> 1,
       order |-> [b \in B |-> b],
       block |-> [b \in B |-> [ins |-> ins(b), succ |-> succ(b),
                               pred |-> SelectSeq([p \in B |-> p], LAMBDA p : b \in Range(succ(p)))]],
       code |-> [k \in DOMAIN kept |->
                   LET c == Renamed(kept[k])
                   IN  [op |-> c.op, ty |-> c.ty, args |-> c.args, k |-> c.k, tgt |-> c.tgt,
                        inc |-> <<>>, parent |-> block_of(kept[k])]],
       users |-> [k \in DOMAIN kept |->
                    FlattenSeq([u \in DOMAIN kept |->
                      LET uses == SelectSeq(code[kept[u]].args, LAMBDA v : v = kept[k])
                      IN  [w \in DOMAIN uses |-> u]])]]
=============================================================================
