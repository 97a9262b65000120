--------------------------------- MODULE Dce ---------------------------------
(***************************************************************************)
(* Dead code elimination, analysis/dce.hpp: get_useful() marks what has    *)
(* side effects, then with a worklist whatever defines an operand of a     *)
(* marked instruction; run() erases the rest, one by one.  pc, at, inst    *)
(* and operand say where its loops stand.                                  *)
(***************************************************************************)
EXTENDS Ir, SequencesExt

CONSTANT Functions           \* the functions the pass may be run on

\* Whatever an instruction that stands in a block reads is defined by one that
\* stands in a block too.
OperandsPlaced(f) == \A i \in Placed(f) : Range(f.code[i].args) \subseteq Placed(f)

ASSUME FunctionsAssumption ==
  \A f \in Functions : IsFunction(f) /\ OperandsPlaced(f)

VARIABLES fn,                \* the function, swept by run
          useful,            \* the instructions marked
          worklist,          \* marked, operands still to look at
          pc,
          at,                \* <<n, k>>: instruction k of the n-th block
          inst, operand      \* the instruction popped, its next operand

vars == <<fn, useful, worklist, pc, at, inst, operand>>

-----------------------------------------------------------------------------
Enqueue_unmarked(i) == worklist' = Append(worklist, i) /\ UNCHANGED useful

\* Mark an instruction and queue it.
Enqueue(i) ==
  /\ useful' = useful \cup {i}
  /\ worklist' = Append(worklist, i)

Init ==
  /\ fn \in Functions
  /\ useful = {}
  /\ worklist = <<>>
  /\ pc = "roots"
  /\ at = <<1, 1>>
  /\ inst = 0
  /\ operand = 1

\* Both loops over the blocks stand at an instruction or at a block's end.
AtBlock == fn.order[at[1]]
AtInstr == at[1] <= Len(fn.order) /\ at[2] <= Len(Ins(fn, AtBlock))
AtBlockEnd == at[1] <= Len(fn.order) /\ at[2] > Len(Ins(fn, AtBlock))
AtEnd == at[1] > Len(fn.order)

NextInstr == at' = <<at[1], at[2] + 1>>
NextBlock == at' = <<at[1] + 1, 1>>

ScanInstr_not_call ==
  /\ pc = "roots" /\ AtInstr
  /\ LET i == Ins(fn, AtBlock)[at[2]]
     IN  IF HasSideEffects(fn.code[i].op) /\ fn.code[i].op # "call"
         THEN Enqueue(i) ELSE UNCHANGED <<useful, worklist>>
  /\ NextInstr
  /\ UNCHANGED <<fn, pc, inst, operand>>

\* What has side effects is a root.
ScanInstr ==
  /\ pc = "roots" /\ AtInstr
  /\ LET i == Ins(fn, AtBlock)[at[2]]
     IN  IF HasSideEffects(fn.code[i].op) THEN Enqueue(i)
         ELSE UNCHANGED <<useful, worklist>>
  /\ NextInstr
  /\ UNCHANGED <<fn, pc, inst, operand>>

ScanBlock ==
  /\ pc = "roots" /\ AtBlockEnd
  /\ NextBlock
  /\ UNCHANGED <<fn, useful, worklist, pc, inst, operand>>

ScanDone ==
  /\ pc = "roots" /\ AtEnd
  /\ pc' = "worklist"
  /\ UNCHANGED <<fn, useful, worklist, at, inst, operand>>

Pop ==
  /\ pc = "worklist" /\ worklist # <<>>
  /\ inst' = Head(worklist)
  /\ worklist' = Tail(worklist)
  /\ operand' = 1
  /\ pc' = "operands"
  /\ UNCHANGED <<fn, useful, at>>

VisitOperand_not_queued ==
  /\ pc = "operands" /\ operand <= Len(fn.code[inst].args)
  /\ useful' = useful \cup {fn.code[inst].args[operand]}
  /\ operand' = operand + 1
  /\ UNCHANGED <<fn, worklist, pc, at, inst>>

\* The instruction that defines the operand is needed too.
VisitOperand ==
  /\ pc = "operands" /\ operand <= Len(fn.code[inst].args)
  /\ LET def_instr == fn.code[inst].args[operand]
     IN  IF def_instr \notin useful THEN Enqueue(def_instr)
         ELSE UNCHANGED <<useful, worklist>>
  /\ operand' = operand + 1
  /\ UNCHANGED <<fn, pc, at, inst>>

OperandsDone ==
  /\ pc = "operands" /\ operand > Len(fn.code[inst].args)
  /\ pc' = "worklist"
  /\ UNCHANGED <<fn, useful, worklist, at, inst, operand>>

\* The worklist is empty: run() goes over the blocks again.
Marked ==
  /\ pc = "worklist" /\ worklist = <<>>
  /\ pc' = "sweep"
  /\ at' = <<1, 1>>
  /\ UNCHANGED <<fn, useful, worklist, inst, operand>>

Without(f, b, k) == [f EXCEPT !.block[b].ins = RemoveAt(@, k)]

SweepInstr ==
  /\ pc = "sweep" /\ AtInstr
  /\ IF Ins(fn, AtBlock)[at[2]] \in useful THEN NextInstr /\ UNCHANGED fn
     ELSE fn' = Without(fn, AtBlock, at[2]) /\ UNCHANGED at
  /\ UNCHANGED <<useful, worklist, pc, inst, operand>>

SweepBlock ==
  /\ pc = "sweep" /\ AtBlockEnd
  /\ NextBlock
  /\ UNCHANGED <<fn, useful, worklist, pc, inst, operand>>

SweepDone ==
  /\ pc = "sweep" /\ AtEnd
  /\ pc' = "done"
  /\ UNCHANGED <<fn, useful, worklist, at, inst, operand>>

Terminated == pc = "done" /\ UNCHANGED vars

Next == \/ ScanInstr \/ ScanBlock \/ ScanDone
        \/ Pop \/ VisitOperand \/ OperandsDone \/ Marked
        \/ SweepInstr \/ SweepBlock \/ SweepDone \/ Terminated

Spec == Init /\ [][Next]_vars /\ WF_vars(Next)

-----------------------------------------------------------------------------
TypeOK ==
  /\ pc \in {"roots", "worklist", "operands", "sweep", "done"}
  /\ IsFunction(fn)
  /\ useful \subseteq Instrs(fn)
  /\ worklist \in Seq(useful)
  /\ at \in (1 .. Len(fn.order) + 1) \X (Nat \ {0})
  /\ pc = "operands" => inst \in useful
  /\ operand \in Nat \ {0}

Roots == {i \in Placed(fn) : HasSideEffects(fn.code[i].op)}

\* An operand of a marked instruction is marked, unless the worklist or the
\* loop over the operands still gets to it: the closure the sweep needs is
\* never lost (dce.hpp 21-33).
NothingLost ==
  \A i \in useful : \A k \in DOMAIN fn.code[i].args :
    \/ fn.code[i].args[k] \in useful
    \/ i \in Range(worklist)
    \/ pc = "operands" /\ inst = i /\ operand <= k

\* After the sweep no instruction that stays reads a value whose definition
\* was erased, a phi in a loop included (dce.hpp 37-43).
NoDanglingOperand ==
  pc = "done" => \A i \in Placed(fn) : Range(fn.code[i].args) \subseteq Placed(fn)

\* The marking loop marks what the side effects need, transitively, and
\* nothing else: code is erased exactly when no effect depends on it.
Marking ==
  INSTANCE Closure WITH
    graph <- [roots |-> Roots,
              to |-> [i \in Instrs(fn) |-> Range(fn.code[i].args)]],
    marked <- useful,
    complete <- pc \in {"sweep", "done"}

MarksClosure == Marking!Spec
=============================================================================
