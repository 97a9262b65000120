-------------------------------- MODULE Sccp --------------------------------
(***************************************************************************)
(* Sparse conditional constant propagation, analysis/sccp.hpp: the two     *)
(* worklists of initialize(), the visit of one instruction, and the        *)
(* rewriting of transform().                                               *)
(*                                                                         *)
(* The pass starts from the optimistic assumption that no block but the    *)
(* entry runs and that every value is unknown, and lowers both until the   *)
(* worklists are empty.  One action visits one instruction; pc and next    *)
(* say where the loops of the code stand.                                  *)
(***************************************************************************)
EXTENDS Ir

CONSTANT Functions           \* the functions the pass may be run on

ASSUME FunctionsAssumption == \A f \in Functions : IsSsa(f)
ASSUME UsersAssumption == \A f \in Functions : UsersRead(f)

VARIABLES fn,                \* the function, rewritten by transform
          values,            \* the lattice element of each value
          flow_worklist,     \* blocks found executable and not yet visited
          ssa_worklist,      \* instructions to visit again
          executable_blocks,
          executable_edges,  \* pairs <<from, to>> of blocks
          pc,                \* where the pass stands
          current, next      \* the block being visited, its next instruction

vars == <<fn, values, flow_worklist, ssa_worklist, executable_blocks,
          executable_edges, pc, current, next>>

-----------------------------------------------------------------------------
\* The lattice: unknown above every constant above overdefined.
Top == [kind |-> "unknown", value |-> 0]
Bot == [kind |-> "overdefined", value |-> 0]
Icons(n) == [kind |-> "icons", value |-> n]
Bcons(b) == [kind |-> "bcons", value |-> b]
ToBool(p) == IF p THEN 1 ELSE 0

IsConstant(e) == e.kind \in {"icons", "bcons"}

Lattice == {Top, Bot} \cup [kind : {"icons"}, value : Word]
                      \cup [kind : {"bcons"}, value : {0, 1}]

Leq(a, b) == a = b \/ a = Bot \/ b = Top

\* lattice_element::meet_with
Meet(a, b) ==
  IF a = Bot \/ b = Top THEN a
  ELSE IF b = Bot \/ a = Top THEN b
  ELSE IF a = b THEN a
  ELSE Bot

MeetAll_constant_wins(e, S) ==
  LET C == {c \in {e} \cup S : IsConstant(c)}
  IN  IF \E c \in C : C = {c} THEN CHOOSE c \in C : TRUE
      ELSE IF {e} \cup S = {Top} THEN Top ELSE Bot

\* The meet of a value with a set of them, in whatever order they come.
MeetAll(e, S) ==
  LET C == ({e} \cup S) \ {Top}
  IN  IF C = {} THEN Top
      ELSE IF \E c \in C : C = {c} THEN CHOOSE c \in C : TRUE
      ELSE Bot

\* Does folding run into an assertion or a std::get of the wrong constant?
FoldAsserts(f, i, vals) ==
  LET c == f.code[i]
      lhs == vals[c.args[1]]
      rhs == vals[c.args[2]]
      constants == IsConstant(lhs) /\ IsConstant(rhs)
      integers == lhs.kind = "icons" /\ rhs.kind = "icons"
  IN  \/ c.op = "iconst" /\ ~is_integer_ty(c.ty)
      \/ c.op = "neg" /\ IsConstant(lhs) /\ ~(lhs.kind = "icons" /\ is_integer_ty(c.ty))
      \/ c.op = "lnot" /\ IsConstant(lhs) /\ lhs.kind # "bcons"
      \/ c.op = "eq" /\ constants /\ lhs.kind # rhs.kind
      \/ /\ c.op \in Arithmetic /\ constants
         /\ ~integers \/ eval_arith_asserts(c.op, c.ty, rhs.value)
      \/ c.op \in Comparisons \ {"eq"} /\ constants /\ ~integers

Compared_as_integer(op, a, b) == Icons(ToBool(eval_cmp(op, a, b)))
Compared(op, a, b) == Bcons(ToBool(eval_cmp(op, a, b)))

\* sccp::folded_value
folded_value(f, i, vals) ==
  LET c == f.code[i]
      lhs == vals[c.args[1]]
      rhs == vals[c.args[2]]
  IN  CASE c.op = "iconst" -> Icons(normalize(c.k, c.ty))
        [] c.op = "bconst" -> Bcons(c.k)
        [] OTHER ->
             IF ~IsConstant(lhs) THEN lhs
             ELSE IF c.op = "neg" THEN Icons(eval_neg(c.ty, lhs.value))
             ELSE IF c.op = "lnot" THEN Bcons(1 - lhs.value)
             ELSE IF ~IsConstant(rhs) THEN rhs
             ELSE IF is_comparison(c.op) THEN Compared(c.op, lhs.value, rhs.value)
             ELSE LET n == eval_arith(c.op, c.ty, lhs.value, rhs.value)
                  IN  IF n = None THEN Bot ELSE Icons(n)

-----------------------------------------------------------------------------
\* The worklists and the sets they feed, as visit() passes them along.
Work == [flow |-> flow_worklist, ssa |-> ssa_worklist,
         blocks |-> executable_blocks, edges |-> executable_edges]

SetWork(w) ==
  /\ flow_worklist' = w.flow
  /\ ssa_worklist' = w.ssa
  /\ executable_blocks' = w.blocks
  /\ executable_edges' = w.edges

MarkExecutable_forgets_block(w, e) ==
  [flow |-> IF e[2] \in w.blocks THEN w.flow ELSE Append(w.flow, e[2]),
   ssa |-> IF e \in w.edges THEN w.ssa ELSE w.ssa \o Phis(fn, e[2]),
   blocks |-> w.blocks,
   edges |-> w.edges \cup {e}]

\* sccp::mark_executable
MarkExecutable(w, e) ==
  [flow |-> IF e[2] \in w.blocks THEN w.flow ELSE Append(w.flow, e[2]),
   ssa |-> IF e \in w.edges THEN w.ssa ELSE w.ssa \o Phis(fn, e[2]),
   blocks |-> w.blocks \cup {e[2]},
   edges |-> w.edges \cup {e}]

\* The edges a conditional branch can take, given the element of its condition.
TakenTrue(cond) == ~IsConstant(cond) \/ cond.value = 1
TakenFalse_known(cond) == IsConstant(cond) /\ cond.value = 0
TakenFalse(cond) == ~IsConstant(cond) \/ cond.value = 0

\* visit() of a br or a cond_br
VisitBranch(i, w) ==
  LET from == fn.code[i].parent
      succ == Succ(fn, from)
      true_edge == <<from, Head(succ)>>
      false_edge == <<from, succ[Len(succ)]>>
      cond == values[fn.code[i].args[1]]
      w1 == IF TakenTrue(cond) THEN MarkExecutable(w, true_edge) ELSE w
      w2 == IF TakenFalse(cond) THEN MarkExecutable(w1, false_edge) ELSE w1
  IN  /\ SetWork(IF fn.code[i].op = "br" THEN MarkExecutable(w, true_edge) ELSE w2)
      /\ UNCHANGED values

\* The incoming values of a phi over the edges found executable so far.
LiveIncoming(f, i, edges) ==
  {f.code[i].inc[b] : b \in {p \in DOMAIN f.code[i].inc :
                               <<p, f.code[i].parent>> \in edges}}

\* What visit() makes of the element of the result.
NewElement(i) ==
  CASE fn.code[i].op = "phi" ->
         MeetAll(values[i], {values[v] : v \in LiveIncoming(fn, i, executable_edges)})
    [] IsFoldable(fn.code[i].op) -> Meet(values[i], folded_value(fn, i, values))
    [] OTHER -> IF HasResult(fn, i) THEN Bot ELSE values[i]

Requeued_last(i) ==
  IF fn.users[i] = <<>> THEN <<>> ELSE <<fn.users[i][Len(fn.users[i])]>>
Requeued(i) == fn.users[i]

\* visit() of any other instruction
VisitValue(i, w) ==
  LET new == NewElement(i)
  IN  /\ values' = [values EXCEPT ![i] = new]
      /\ SetWork(IF new = values[i] THEN w
                 ELSE [w EXCEPT !.ssa = @ \o Requeued(i)])

IsBranch(i) == fn.code[i].op \in {"br", "cond_br"}

VisitAsserts(i) ==
  \/ fn.code[i].op = "cond_br" /\ values[fn.code[i].args[1]].kind = "icons"
  \/ FoldAsserts(fn, i, values)

Visit(i, w) ==
  /\ ~VisitAsserts(i)
  /\ IF IsBranch(i) THEN VisitBranch(i, w) ELSE VisitValue(i, w)

-----------------------------------------------------------------------------
Init ==
  /\ fn \in Functions
  /\ values = [i \in Instrs(fn) |-> Top]
  /\ flow_worklist = <<fn.entry>>
  /\ ssa_worklist = <<>>
  /\ executable_blocks = {fn.entry}
  /\ executable_edges = {}
  /\ pc = "loop"
  /\ current = fn.entry
  /\ next = 1

\* The head of the loop takes a block, if there is one.
TakeBlock ==
  /\ pc = "loop" /\ flow_worklist # <<>>
  /\ current' = Head(flow_worklist)
  /\ flow_worklist' = Tail(flow_worklist)
  /\ next' = 1
  /\ pc' = "block"
  /\ UNCHANGED <<fn, values, ssa_worklist, executable_blocks, executable_edges>>

VisitNext ==
  /\ pc = "block" /\ next <= Len(Ins(fn, current))
  /\ Visit(Ins(fn, current)[next], Work)
  /\ next' = next + 1
  /\ UNCHANGED <<fn, pc, current>>

\* After the last instruction: a block without a terminator falls through.
EndBlock ==
  /\ pc = "block" /\ next > Len(Ins(fn, current))
  /\ SetWork(IF ~HasTerminator(fn, current) /\ Succ(fn, current) # <<>>
             THEN MarkExecutable(Work, <<current, Head(Succ(fn, current))>>)
             ELSE Work)
  /\ pc' = "users"
  /\ UNCHANGED <<fn, values, current, next>>

\* The second half of an iteration: one instruction of ssa_worklist.
AtUsers == pc = "users" \/ (pc = "loop" /\ flow_worklist = <<>>)

TakeUser_no_pop ==
  /\ AtUsers /\ ssa_worklist # <<>>
  /\ Visit(Head(ssa_worklist), Work)
  /\ pc' = "loop"
  /\ UNCHANGED <<fn, current, next>>

TakeUser ==
  /\ AtUsers /\ ssa_worklist # <<>>
  /\ Visit(Head(ssa_worklist), [Work EXCEPT !.ssa = Tail(@)])
  /\ pc' = "loop"
  /\ UNCHANGED <<fn, current, next>>

NoUser ==
  /\ pc = "users" /\ ssa_worklist = <<>>
  /\ pc' = "loop"
  /\ UNCHANGED <<fn, values, flow_worklist, ssa_worklist, executable_blocks,
                 executable_edges, current, next>>

\* The process aborts where an assertion of visit() fails.
Abort ==
  /\ \/ /\ pc = "block" /\ next <= Len(Ins(fn, current))
        /\ VisitAsserts(Ins(fn, current)[next])
     \/ AtUsers /\ ssa_worklist # <<>> /\ VisitAsserts(Head(ssa_worklist))
  /\ pc' = "aborted"
  /\ UNCHANGED <<fn, values, flow_worklist, ssa_worklist, executable_blocks,
                 executable_edges, current, next>>

Converged ==
  /\ pc = "loop" /\ flow_worklist = <<>> /\ ssa_worklist = <<>>
  /\ pc' = "transform"
  /\ UNCHANGED <<fn, values, flow_worklist, ssa_worklist, executable_blocks,
                 executable_edges, current, next>>

-----------------------------------------------------------------------------
\* transform(): a branch on a constant becomes unconditional and a value
\* found constant becomes that constant; both drop their operands.
BecomesBr(f, vals, i) ==
  i \in Placed(f) /\ f.code[i].op = "cond_br" /\ IsConstant(vals[f.code[i].args[1]])
BecomesConst(f, vals, i) ==
  i \in Placed(f) /\ f.code[i].op # "cond_br" /\ IsConstant(vals[i])

TakenIndex_swapped(f, vals, i) == IF vals[f.code[i].args[1]].value = 1 THEN 2 ELSE 1
TakenIndex(f, vals, i) == IF vals[f.code[i].args[1]].value = 1 THEN 1 ELSE 2

Rewritten(f, vals, i) ==
  LET c == f.code[i]
  IN  CASE BecomesBr(f, vals, i) ->
             [c EXCEPT !.op = "br", !.args = <<>>,
                       !.tgt = <<c.tgt[TakenIndex(f, vals, i)]>>]
        [] BecomesConst(f, vals, i) ->
             [c EXCEPT !.op = IF vals[i].kind = "icons" THEN "iconst" ELSE "bconst",
                       !.k = vals[i].value, !.args = <<>>, !.inc = <<>>, !.tgt = <<>>]
        [] OTHER -> c

TakenSucc(f, vals, b) ==
  LET s == Ins(f, b)
  IN  IF HasTerminator(f, b) /\ BecomesBr(f, vals, s[Len(s)])
      THEN <<Succ(f, b)[TakenIndex(f, vals, s[Len(s)])]>>
      ELSE Succ(f, b)

Transformed_keeps_users(f, vals) ==
  [f EXCEPT !.code = [i \in Instrs(f) |-> Rewritten(f, vals, i)],
            !.block = [b \in Blocks(f) |-> [@[b] EXCEPT !.succ = TakenSucc(f, vals, b)]]]

Transformed(f, vals) ==
  LET drops(u, v) == /\ BecomesBr(f, vals, u) \/ BecomesConst(f, vals, u)
                     /\ v \in Range(f.code[u].args)
  IN  [f EXCEPT !.code = [i \in Instrs(f) |-> Rewritten(f, vals, i)],
                !.users = [v \in Instrs(f) |->
                             Filtered(@[v], {u \in Range(@[v]) : ~drops(u, v)})],
                !.block = [b \in Blocks(f) |->
                             [@[b] EXCEPT !.succ = TakenSucc(f, vals, b)]]]

Transform ==
  /\ pc = "transform"
  /\ fn' = Transformed(fn, values)
  /\ pc' = "done"
  /\ UNCHANGED <<values, flow_worklist, ssa_worklist, executable_blocks,
                 executable_edges, current, next>>

Next == \/ TakeBlock \/ VisitNext \/ EndBlock \/ TakeUser \/ NoUser
        \/ Abort \/ Converged \/ Transform

Spec == Init /\ [][Next]_vars /\ WF_vars(Next)

-----------------------------------------------------------------------------
Analysing == pc \notin {"done", "aborted"}

\* The sets and queues hold what their types say: only blocks found
\* executable are queued and an edge found executable ends in one.
TypeOK ==
  /\ pc \in {"loop", "block", "users", "transform", "done", "aborted"}
  /\ pc # "done" => fn \in Functions
  /\ values \in [Instrs(fn) -> Lattice]
  /\ executable_blocks \subseteq Blocks(fn)
  /\ executable_edges \subseteq Blocks(fn) \X executable_blocks
  /\ flow_worklist \in Seq(executable_blocks)
  /\ ssa_worklist \in Seq(Instrs(fn))
  /\ current \in executable_blocks
  /\ next \in 1 .. Len(Ins(fn, current)) + 1

\* Instruction i agrees with the elements of its operands and the edges
\* found executable: visiting it again would change nothing but lower it.
\* (transform() takes the bool of a constant condition, sccp.hpp 290.)
Settled(i) ==
  LET c == fn.code[i]
      succ == Succ(fn, c.parent)
      cond == values[c.args[1]]
      plain == c.op \notin {"br", "cond_br", "phi"} /\ ~ IsFoldable(c.op)
  IN  /\ c.op = "br" => <<c.parent, Head(succ)>> \in executable_edges
      /\ c.op = "cond_br" =>
           /\ cond.kind # "icons"
           /\ TakenTrue(cond) => <<c.parent, Head(succ)>> \in executable_edges
           /\ TakenFalse(cond) => <<c.parent, succ[Len(succ)]>> \in executable_edges
      /\ c.op = "phi" =>
           \A v \in LiveIncoming(fn, i, executable_edges) : Leq(values[i], values[v])
      /\ IsFoldable(c.op) => Leq(values[i], folded_value(fn, i, values))
      /\ plain /\ HasResult(fn, i) => values[i] = Bot

\* Will instruction k of block b be visited again?
Pending(b, k) ==
  \/ b \in Range(flow_worklist)
  \/ Ins(fn, b)[k] \in Range(ssa_worklist)
  \/ pc = "block" /\ current = b /\ next <= k

FallsThrough(b) == ~HasTerminator(fn, b) /\ Succ(fn, b) # <<>>

\* No instruction of an executable block is left behind with a stale
\* element: it agrees with what it reads or one of the two worklists, or the
\* loop over the current block, still reaches it.  It takes the users lists
\* (sccp.hpp 249), the phis of a newly executable edge (200-206) and the
\* fall-through edges (264) together to keep this true.
NothingForgotten ==
  Analysing =>
    /\ \A b \in executable_blocks : \A k \in DOMAIN Ins(fn, b) :
         Settled(Ins(fn, b)[k]) \/ Pending(b, k)
    /\ \A b \in executable_blocks :
         FallsThrough(b) => \/ <<b, Head(Succ(fn, b))>> \in executable_edges
                            \/ b \in Range(flow_worklist)
                            \/ pc = "block" /\ current = b

\* When the worklists are empty the analysis has reached a fixpoint: this is
\* what transform() relies on.
FixpointReached ==
  pc = "transform" =>
    \A b \in executable_blocks :
      /\ \A k \in DOMAIN Ins(fn, b) : Settled(Ins(fn, b)[k])
      /\ FallsThrough(b) => <<b, Head(Succ(fn, b))>> \in executable_edges

\* An element never rises again and nothing executable is taken back
\* (sccp.hpp 230-241): the analysis terminates because of it.
OnlyDescends ==
  [][/\ \A i \in Instrs(fn) : Leq(values'[i], values[i])
     /\ executable_blocks \subseteq executable_blocks'
     /\ executable_edges \subseteq executable_edges']_vars

\* The types of operands and results that infer_op gives every operation, and
\* the signedness for which from_opkind picks its opcode (hir2ir.hpp 31-46).
WellTyped(f) ==
  \A i \in Instrs(f) :
    LET c == f.code[i]
        t(n) == f.code[c.args[n]].ty
    IN  /\ c.op \in {"cond_br", "lnot"} => t(1).kind = "_bool"
        /\ c.op \in Arithmetic => /\ is_integer_ty(c.ty) /\ FitsSignedness(c.op, c.ty)
                                  /\ t(1) = c.ty /\ t(2) = c.ty
        /\ c.op = "iconst" => is_integer_ty(c.ty)
        /\ c.op = "neg" => is_integer_ty(c.ty) /\ t(1) = c.ty
        /\ c.op \in Comparisons => t(2) = t(1) /\ c.ty.kind = "_bool"
        /\ c.op \in Comparisons \ {"eq"} => is_integer_ty(t(1))
        /\ c.op \in {"lnot", "bconst"} => c.ty.kind = "_bool"
        /\ c.op = "phi" => \A v \in Incoming(f, i) : f.code[v].ty = c.ty

\* On a well-typed function no assertion of the pass fails, nor one of the
\* arithmetic it calls: a boolean value never becomes an integer constant, or
\* the other way round, on its way through folds, phis and branches (sccp.hpp
\* 136, 147, 164-187, 222-228; int_semantics.hpp 24, 53-54).
TypedNeverAborts == pc = "aborted" => ~WellTyped(fn)

\* Every assertion of the pass holds, whatever function it is given.
AssertionsHold == pc # "aborted"

\* transform() leaves def-use lists and successors in step with the code it
\* rewrote: a value lists exactly its readers, a branch has the successors
\* of its opcode (sccp.hpp 275-318).
LeavesWellFormed ==
  /\ BranchesResolved(fn)
  /\ \A i \in Placed(fn), v \in Instrs(fn) :
       i \in Range(fn.users[v]) <=> v \in Reads(fn, i)

\* The pass ends.
Terminates == <>(pc \in {"done", "aborted"})
=============================================================================
