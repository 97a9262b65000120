--------------------------------- MODULE Ir ---------------------------------
(***************************************************************************)
(* The SSA intermediate representation that the passes read and rewrite    *)
(* (ir/instruction.hpp, ir/basic_block.hpp, ir/function.hpp), as data.     *)
(*                                                                         *)
(* Blocks and instructions are numbered.  A value of the code is the       *)
(* result of one instruction and is identified with it, so an operand is   *)
(* the number of the instruction that defines it.  A function is a record  *)
(*   entry   the entry block                                               *)
(*   order   fn.blocks: the blocks, in order                               *)
(*   block   for each block its instructions, successors and predecessors  *)
(*   code    for each instruction its opcode, the type of its result       *)
(*           (NoType if it has none), operands, parent block, the number   *)
(*           its data holds (constant, parameter index, call target), the  *)
(*           branch labels and the incoming values of a phi                *)
(*   users   for each instruction the users of its result                  *)
(***************************************************************************)
EXTENDS IntSemantics, Sequences, Functions

NoType == [kind |-> "none", bits |-> 0]

Bool == [kind |-> "_bool", bits |-> 8]

Ops == Arithmetic \cup Comparisons \cup
       {"iconst", "bconst", "neg", "lnot", "br", "cond_br", "alloca", "load",
        "store", "call", "ret", "param", "phi"}

\* instruction::has_side_effects
HasSideEffects(op) ==
  op \in {"alloca", "store", "call", "br", "cond_br", "ret"}

\* instruction::is_terminator
IsTerminator(op) == op \in {"br", "cond_br", "ret"}

\* sccp::is_foldable
IsFoldable(op) ==
  op \in Arithmetic \cup Comparisons \cup {"iconst", "bconst", "neg", "lnot"}

Blocks(f) == DOMAIN f.block
Instrs(f) == DOMAIN f.code
Ins(f, b) == f.block[b].ins
Succ(f, b) == f.block[b].succ
Pred(f, b) == f.block[b].pred

HasResult(f, i) == f.code[i].ty # NoType

\* The instructions that stand in a block, and the values they read.
Placed(f) == UNION {Range(Ins(f, b)) : b \in Range(f.order)}
Incoming(f, i) == Range(f.code[i].inc)
Reads(f, i) == Range(f.code[i].args) \cup Incoming(f, i)

\* basic_block::has_terminator
HasTerminator(f, b) ==
  LET s == Ins(f, b) IN s # <<>> /\ IsTerminator(f.code[s[Len(s)]].op)

\* The phis of a block, in order: they stand before every other instruction
\* (add_phi_instrs of mem2reg.hpp puts them there).
IsPhi(f, i) == f.code[i].op = "phi"
PhiCount(f, b) ==
  CHOOSE n \in 0 .. Len(Ins(f, b)) :
    \A k \in DOMAIN Ins(f, b) : IsPhi(f, Ins(f, b)[k]) <=> k <= n
Phis(f, b) == SubSeq(Ins(f, b), 1, PhiCount(f, b))

PhisFirst(f) ==
  \A b \in Blocks(f) : \E n \in 0 .. Len(Ins(f, b)) :
    \A k \in DOMAIN Ins(f, b) : IsPhi(f, Ins(f, b)[k]) <=> k <= n

\* simplify_cfg::mark_reachable
Reachable(f) ==
  LET reach[n \in Nat] ==
        IF n = 0 THEN {f.entry}
        ELSE LET R == reach[n - 1] IN R \cup UNION {Range(Succ(f, b)) : b \in R}
  IN  reach[Len(f.order)]

\* The lists of blocks name blocks that exist, and every block knows the
\* blocks that control can come from.
Linked(f) ==
  /\ f.entry \in Range(f.order)
  /\ \A b \in Range(f.order) :
       Range(Succ(f, b)) \cup Range(Pred(f, b)) \subseteq Range(f.order)
  /\ \A b \in Reachable(f) : \A s \in Range(Succ(f, b)) : b \in Range(Pred(f, s))

\* The elements of a list that are in S, in order (std::erase_if the others).
Filtered(list, S) ==
  LET taken[n \in Nat] == IF n = 0 THEN <<>>
                          ELSE IF list[n] \in S THEN Append(taken[n - 1], list[n])
                          ELSE taken[n - 1]
  IN  taken[Len(list)]

-----------------------------------------------------------------------------
\* The shape of the data, and what lowering and mem2reg establish before a
\* pass on SSA form runs.
IsType(ty) == /\ ty.kind \in {"_int", "_uint", "_bool", "_unit", "none"}
              /\ ty.bits \in 0 .. WordBits

IsCode(f, i) ==
  LET c == f.code[i]
  IN  /\ DOMAIN c = {"op", "ty", "args", "k", "tgt", "inc", "parent"}
      /\ c.op \in Ops
      /\ IsType(c.ty)
      /\ c.args \in Seq(Instrs(f))
      /\ c.k \in Int
      /\ DOMAIN c.inc \subseteq Blocks(f) /\ Range(c.inc) \subseteq Instrs(f)
      /\ c.parent \in Blocks(f)

IsFunction(f) ==
  LET B == Blocks(f)
      I == Instrs(f)
  IN  /\ DOMAIN f = {"entry", "order", "block", "code", "users"}
      /\ f.entry \in B
      /\ f.order \in Seq(B)
      /\ f.block \in [B -> [ins : Seq(I), succ : Seq(B), pred : Seq(B)]]
      /\ f.users \in [I -> Seq(I)]
      /\ \A i \in I : IsCode(f, i)

\* The operands, results and constants that an opcode comes with.
MatchesOpcode(c) ==
  /\ c.op \in Arithmetic \cup Comparisons \cup {"store"} => Len(c.args) = 2
  /\ c.op \in {"neg", "lnot", "cond_br", "load"} => Len(c.args) = 1
  /\ is_integer_ty(c.ty) => c.ty.bits > 0
  /\ c.op = "iconst" => is_integer_ty(c.ty) /\ c.k \in Word
  /\ c.op = "bconst" => c.k \in {0, 1}
  /\ c.op \in {"br", "cond_br", "ret", "store"} <=> c.ty = NoType

\* A conditional branch has two successors and an unconditional one has one.
BranchesResolved(f) ==
  \A b \in Blocks(f) : \A k \in DOMAIN Ins(f, b) :
    LET i == Ins(f, b)[k] IN
    /\ f.code[i].parent = b
    /\ IsTerminator(f.code[i].op) <=> k = Len(Ins(f, b)) /\ HasTerminator(f, b)
    /\ f.code[i].op = "br" => Len(Succ(f, b)) = 1
    /\ f.code[i].op = "cond_br" => Len(Succ(f, b)) = 2

\* Every reader of a value is registered as its user.
UsersComplete(f) ==
  \A b \in Blocks(f) : \A i \in Range(Ins(f, b)) : \A v \in Reads(f, i) :
    i \in Range(f.users[v])

\* Whoever is registered as a user of a value reads it; a phi reads the values
\* that come in as operands too, and nothing else has any.
UsersRead(f) ==
  \A i \in Placed(f) :
    /\ \A v \in Instrs(f) : i \in Range(f.users[v]) => v \in Reads(f, i)
    /\ Incoming(f, i) \subseteq Range(f.code[i].args)
    /\ ~IsPhi(f, i) => Incoming(f, i) = {}

\* No instruction has been erased from its block.
AllPlaced(f) == \A i \in Instrs(f) : i \in Range(Ins(f, f.code[i].parent))

\* A function as mem2reg hands it to the passes on SSA form.
IsSsa(f) ==
  /\ IsFunction(f) /\ AllPlaced(f) /\ PhisFirst(f)
  /\ BranchesResolved(f) /\ UsersComplete(f)
  /\ \A i \in Instrs(f) : MatchesOpcode(f.code[i])
=============================================================================
