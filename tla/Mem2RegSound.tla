---------------------------- MODULE Mem2RegSound ----------------------------
(***************************************************************************)
(* Promotion to SSA values composed with the runs of the function it was   *)
(* given and of the function it made.                                      *)
(***************************************************************************)
EXTENDS Mem2Reg, Preservation

\* What promotion relies on for the runs of a function, as lowering makes it
\* (hir2ir.hpp 96-147, 211-247, 301-305) and control-flow simplification leaves
\* it, which comes first (pipeline.hpp 13).

\* Lowering makes no phis: it goes through memory where ways meet.
Unphied(f) == \A i \in Instrs(f) : ~IsPhi(f, i)

\* A block is listed once and an instruction stands in one place of a block.
ListedOnce(f) == IsInjective(f.order) /\ \A b \in Blocks(f) : IsInjective(Ins(f, b))

\* The address of a variable is only loaded from and stored to.
AddressesOnly(f) ==
  \A i \in Placed(f) : \A n \in DOMAIN f.code[i].args :
    f.code[f.code[i].args[n]].op = "alloca" => f.code[i].op \in {"load", "store"} /\ n = 1

\* An operand is computed on every way to the instruction that reads it.
DefinedBefore(f, v, b, k) ==
  \/ \E j \in 1 .. k - 1 : Ins(f, b)[j] = v
  \/ \E c \in Range(f.order) : StrictlyDominates(f, c, b) /\ v \in Range(Ins(f, c))

ReadsDefined(f) ==
  \A b \in Reachable(f) : \A k \in DOMAIN Ins(f, b) :
    \A v \in Range(f.code[Ins(f, b)[k]].args) : DefinedBefore(f, v, b, k)

\* Two blocks go back to the entry of a function without variables at most
\* (simplify_cfg.hpp 177 can make the head of a loop the entry): a phi there
\* has no value for the way in from the caller.
EnteredOnce(f) ==
  Len(Pred(f, f.entry)) < 2 \/ \A i \in Placed(f) : f.code[i].op # "alloca"

ASSUME RenamingAssumption ==
  \A f \in Functions :
    /\ Unphied(f) /\ ListedOnce(f) /\ AddressesOnly(f) /\ ReadsDefined(f) /\ EnteredOnce(f)
    /\ BranchesResolved(f) /\ UsersComplete(f)

allvars == <<vars, source, before, after>>

SoundInit == Init /\ source = fn /\ Uncalled

Promote ==
  /\ pc # "done"
  /\ Next
  /\ UNCHANGED <<source, before, after>>

Observe ==
  /\ pc = "done"
  /\ Compare(fn)
  /\ UNCHANGED <<fn, pc, at, changed, idom, df, worklist, phis, stacks, frames>>

SoundNext == Promote \/ Observe

SoundSpec == SoundInit /\ [][SoundNext]_allvars /\ WF_allvars(Promote)

-----------------------------------------------------------------------------
\* The function on SSA values makes the calls of the one that kept its
\* variables in memory and returns what it returns (mem2reg.hpp 160-207).
BehaviourPreserved ==
  (before.status # "idle" /\ after.status # "idle") => SameCalls /\ SameEnd
=============================================================================
