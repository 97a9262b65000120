------------------------------- MODULE IrExec -------------------------------
(***************************************************************************)
(* The meaning of a function f of the intermediate representation: a       *)
(* machine m that runs it.  The repository has no back end, so the meaning *)
(* is the one its passes assume: integers as int_semantics.hpp computes    *)
(* them, a parameter or an alloca as the address of a cell that load and   *)
(* store use, a phi as the value of the edge that was taken.  What can be  *)
(* observed is the calls a run makes and how it ends.                      *)
(***************************************************************************)
EXTENDS Ir

CONSTANTS Samples,           \* the integers a caller or a callee may supply
          MaxBlocks          \* blocks a run enters before it is cut off

ASSUME SamplesAssumption == Samples \subseteq Word
ASSUME MaxBlocksAssumption == MaxBlocks \in Nat \ {0}

Undefined == -2              \* what a name holds before its definition

Inputs(ty) == IF is_integer_ty(ty) THEN {normalize(n, ty) : n \in Samples}
              ELSE IF ty.kind = "_bool" THEN {0, 1}
              ELSE {0}

Parameters(f) == {i \in Instrs(f) : f.code[i].op = "param"}

\* Every choice of arguments; parameters are numbered from 0.
Arguments(f) ==
  {a \in [{f.code[i].k : i \in Parameters(f)} ->
            UNION {Inputs(f.code[i].ty) : i \in Parameters(f)}] :
     \A i \in Parameters(f) : a[f.code[i].k] \in Inputs(f.code[i].ty)}

Idle == [status |-> "idle"]

\* The machine that is called with arguments a.
Start(f, a) ==
  LET nothing == [i \in Instrs(f) |-> Undefined]
  IN  [status |-> "run", block |-> f.entry, prev |-> f.entry, pos |-> 1,
       entered |-> 1, env |-> nothing, at_entry |-> nothing, cell |-> nothing,
       args |-> a, trace |-> <<>>, value |-> 0]

-----------------------------------------------------------------------------
\* The instruction the machine comes to, and the values it reads.
Here(f, m) == Ins(f, m.block)[m.pos]
Operand(f, m, n) == m.env[f.code[Here(f, m)].args[n]]
OperandsDefined(f, m) == \A v \in Range(f.code[Here(f, m)].args) : m.env[v] # Undefined

Stop(m, status) == [m EXCEPT !.status = status]
Bind(f, m, w) == [m EXCEPT !.env[Here(f, m)] = w, !.pos = @ + 1]

\* Control enters block b; its phis read the values names have now.
Goto(m, b) ==
  IF m.entered = MaxBlocks THEN Stop(m, "cut")
  ELSE [m EXCEPT !.prev = m.block, !.block = b, !.pos = 1,
                 !.entered = @ + 1, !.at_entry = m.env]

\* The result of a pure operation on x and y, None where it has none.
Compute(c, x, y) ==
  CASE c.op = "iconst" -> normalize(c.k, c.ty)
    [] c.op = "bconst" -> c.k
    [] c.op = "neg"  -> eval_neg(c.ty, x)
    [] c.op = "lnot" -> 1 - x
    [] c.op \in Comparisons -> IF eval_cmp(c.op, x, y) THEN 1 ELSE 0
    [] OTHER -> eval_arith(c.op, c.ty, x, y)

Execute(f, m, reply) ==
  LET c == f.code[Here(f, m)]
      x == Operand(f, m, 1)
      y == Operand(f, m, 2)
      to == Succ(f, m.block)
  IN  CASE c.op = "phi" -> IF m.prev \in DOMAIN c.inc
                           THEN Bind(f, m, m.at_entry[c.inc[m.prev]])
                           ELSE Stop(m, "stuck")
        [] c.op = "param" ->
             [Bind(f, m, Here(f, m)) EXCEPT !.cell[Here(f, m)] = m.args[c.k]]
        [] c.op = "alloca" ->
             [Bind(f, m, Here(f, m)) EXCEPT !.cell[Here(f, m)] = Undefined]
        [] c.op = "load" -> IF m.cell[x] = Undefined THEN Stop(m, "trap")
                            ELSE Bind(f, m, m.cell[x])
        [] c.op = "store" -> [m EXCEPT !.cell[x] = y, !.pos = @ + 1]
        [] c.op = "call" ->
             [Bind(f, m, reply) EXCEPT
                !.trace = Append(@, [target |-> c.k, reply |-> reply,
                                     args |-> [n \in DOMAIN c.args |-> Operand(f, m, n)]])]
        [] c.op = "ret" -> [Stop(m, "ret") EXCEPT !.value = IF c.args = <<>> THEN 0 ELSE x]
        [] c.op = "br" -> Goto(m, Head(to))
        [] c.op = "cond_br" -> Goto(m, IF x = 1 THEN Head(to) ELSE to[Len(to)])
        [] OTHER -> IF Compute(c, x, y) = None THEN Stop(m, "trap")
                    ELSE Bind(f, m, Compute(c, x, y))

\* A callee replies with any value of its type.
Replies(f, m) ==
  IF f.code[Here(f, m)].op = "call" THEN Inputs(f.code[Here(f, m)].ty) ELSE {0}

\* What one instruction makes of the machine.
StepInstr(f, m) ==
  IF ~OperandsDefined(f, m) /\ ~IsPhi(f, Here(f, m)) THEN {Stop(m, "stuck")}
  ELSE {Execute(f, m, reply) : reply \in Replies(f, m)}

\* A block that ends without a terminator runs into its successor.
StepOver(f, m) ==
  IF Succ(f, m.block) = <<>> THEN Stop(m, "stuck") ELSE Goto(m, Head(Succ(f, m.block)))

\* The machines one step leads to.
Steps(f, m) ==
  IF m.status # "run" THEN {}
  ELSE IF m.pos <= Len(Ins(f, m.block)) THEN StepInstr(f, m)
  ELSE {StepOver(f, m)}
=============================================================================
