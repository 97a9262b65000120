------------------------------ MODULE Pipeline ------------------------------
(***************************************************************************)
(* One function on its way through a schedule of passes, run one after the *)
(* other on the same data: the default pipeline of analysis/pipeline.hpp   *)
(* (pass_manager.hpp runs it, compiler.cpp calls that for every function), *)
(* or the passes a user of the web page has asked for (wasm/api.cpp).      *)
(* After the last pass the function as lowered and as optimised are run.   *)
(*                                                                         *)
(* Only one pass is at work at a time, so passes share the variables for   *)
(* what they call alike.  Blocks that simplify_cfg takes out of the list   *)
(* are freed; the instructions that stood in them stay allocated, and      *)
(* registered with the values they read.                                   *)
(***************************************************************************)
EXTENDS Preservation

CONSTANT Jobs                \* pairs <<function, schedule>>

VARIABLES fn,
          schedule, turn,    \* the passes to run, the index of the one at work
          pc, at, changed, worklist,
          slots, slot,                            \* simplify_cfg
          idom, df, phis, stacks, frames,         \* mem2reg
          values, flow_worklist, ssa_worklist, executable_blocks,
          executable_edges, current, next,        \* sccp
          useful, place, inst, operand            \* dce

simplify_cfg == INSTANCE SimplifyCfg WITH Functions <- {}
mem2reg == INSTANCE Mem2Reg WITH Functions <- {}
sccp == INSTANCE Sccp WITH Functions <- {}
dce == INSTANCE Dce WITH Functions <- {}, at <- place

simplify_vars == <<slots, slot>>
mem2reg_vars == <<idom, df, phis, stacks, frames>>
sccp_vars == <<values, flow_worklist, ssa_worklist, executable_blocks,
               executable_edges, current, next>>
dce_vars == <<useful, place, inst, operand>>
run_vars == <<source, before, after>>
vars == <<fn, schedule, turn, pc, at, changed, worklist, simplify_vars, mem2reg_vars,
          sccp_vars, dce_vars, run_vars>>

-----------------------------------------------------------------------------
default_pipeline_no_cleanup == <<"mem2reg", "sccp", "dce", "simplify_cfg", "reg2mem">>

\* get_default_pipeline; reg2mem does nothing yet.
default_pipeline == <<"simplify_cfg", "mem2reg", "sccp", "dce", "simplify_cfg", "reg2mem">>

\* optimize: mem2reg, on the graph as it was built, and what is enabled.
optimize(enabled) ==
  <<"mem2reg">> \o SelectSeq(<<"sccp", "dce", "simplify_cfg">>, LAMBDA p : p \in enabled)

Pass == schedule[turn]
Working(p) == turn \in DOMAIN schedule /\ Pass = p
Failed == pc \in {"aborted", "refused", "crashed"}

Init ==
  /\ \E job \in Jobs : fn = job[1] /\ schedule = job[2]
  /\ turn = 0 /\ pc = "done" /\ at = 1 /\ changed = FALSE /\ worklist = <<>>
  /\ slots = <<>> /\ slot = 1
  /\ idom = <<>> /\ df = <<>> /\ phis = <<>> /\ stacks = <<>> /\ frames = <<>>
  /\ values = <<>> /\ flow_worklist = <<>> /\ ssa_worklist = <<>>
  /\ executable_blocks = {} /\ executable_edges = {} /\ current = fn.entry /\ next = 1
  /\ useful = {} /\ place = <<1, 1>> /\ inst = 0 /\ operand = 1
  /\ source = fn /\ Uncalled

\* pass_manager::run turns to the next pass.
Turn(p) ==
  /\ pc = "done" /\ turn < Len(schedule) /\ schedule[turn + 1] = p
  /\ turn' = turn + 1
  /\ UNCHANGED <<fn, schedule, run_vars>>

EnterSimplify ==
  /\ Turn("simplify_cfg")
  /\ pc' = "unreachable" /\ at' = 1 /\ changed' = FALSE
  /\ slots' = <<>> /\ slot' = 1
  /\ UNCHANGED <<worklist, mem2reg_vars, sccp_vars, dce_vars>>

EnterMem2Reg ==
  /\ Turn("mem2reg")
  /\ pc' = "idoms" /\ at' = 1 /\ changed' = FALSE /\ worklist' = <<>>
  /\ idom' = [b \in Blocks(fn) |-> IF b = fn.entry THEN b ELSE mem2reg!NoBlock]
  /\ df' = [b \in Blocks(fn) |-> {}]
  /\ phis' = [b \in Blocks(fn) |-> <<>>]
  /\ stacks' = <<>> /\ frames' = <<>>
  /\ UNCHANGED <<simplify_vars, sccp_vars, dce_vars>>

EnterSccp ==
  /\ Turn("sccp")
  /\ pc' = "loop"
  /\ values' = [i \in Instrs(fn) |-> sccp!Top]
  /\ flow_worklist' = <<fn.entry>> /\ ssa_worklist' = <<>>
  /\ executable_blocks' = {fn.entry} /\ executable_edges' = {}
  /\ current' = fn.entry /\ next' = 1
  /\ UNCHANGED <<at, changed, worklist, simplify_vars, mem2reg_vars, dce_vars>>

EnterDce ==
  /\ Turn("dce")
  /\ pc' = "roots" /\ place' = <<1, 1>> /\ worklist' = <<>>
  /\ useful' = {} /\ inst' = 0 /\ operand' = 1
  /\ UNCHANGED <<at, changed, simplify_vars, mem2reg_vars, sccp_vars>>

EnterReg2Mem ==
  /\ Turn("reg2mem")
  /\ UNCHANGED <<pc, at, changed, worklist, simplify_vars, mem2reg_vars, sccp_vars, dce_vars>>

-----------------------------------------------------------------------------
Others == <<schedule, turn, run_vars>>

Simplify ==
  /\ Working("simplify_cfg") /\ pc # "done" /\ simplify_cfg!Next
  /\ UNCHANGED <<Others, worklist, mem2reg_vars, sccp_vars, dce_vars>>

Promote ==
  /\ Working("mem2reg") /\ pc # "done" /\ mem2reg!Next
  /\ UNCHANGED <<Others, simplify_vars, sccp_vars, dce_vars>>

\* The instruction sccp takes from ssa_worklist is a branch that stood in a
\* block that has been freed, and visit reads the successors of that block.
ReadsFreedBlock ==
  /\ sccp!AtUsers /\ ssa_worklist # <<>>
  /\ sccp!IsBranch(Head(ssa_worklist))
  /\ fn.code[Head(ssa_worklist)].parent \notin Range(fn.order)

Propagate ==
  /\ Working("sccp") /\ pc # "done"
  /\ IF ReadsFreedBlock THEN pc' = "crashed" /\ UNCHANGED <<fn, sccp_vars>> ELSE sccp!Next
  /\ UNCHANGED <<Others, at, changed, worklist, simplify_vars, mem2reg_vars, dce_vars>>

Eliminate ==
  /\ Working("dce") /\ pc # "done" /\ dce!Next
  /\ UNCHANGED <<Others, at, changed, simplify_vars, mem2reg_vars, sccp_vars>>

\* The last pass is done: both functions run.
Observe ==
  /\ turn = Len(schedule) /\ pc = "done"
  /\ Compare(fn)
  /\ UNCHANGED <<fn, schedule, turn, pc, at, changed, worklist, simplify_vars, mem2reg_vars,
                 sccp_vars, dce_vars>>

Compile == \/ EnterSimplify \/ EnterMem2Reg \/ EnterSccp \/ EnterDce \/ EnterReg2Mem
           \/ Simplify \/ Promote \/ Propagate \/ Eliminate

Next == (~Failed /\ Compile) \/ Observe

Spec == Init /\ [][Next]_vars
-----------------------------------------------------------------------------
\* The function without the blocks that have been freed.
Kept(f) == [f EXCEPT !.block = [b \in Range(f.order) |-> @[b]]]

\* What each pass relies on and another one established: mem2reg that every
\* block can be reached and knows just the blocks that control comes from and
\* that no address is computed, sccp that branches fit the edges and that
\* whoever reads a value is registered as its user, dce that nothing reads an
\* erased instruction, simplify_cfg that lists and phis fit the edges and that
\* no loop is out of reach of its rewrites, also after sccp has cut edges
\* (pipeline.hpp 10, 13-18).
Preconditions ==
  /\ pc = "unreachable" => /\ Linked(fn) /\ simplify_cfg!PhisComplete(fn)
                           /\ simplify_cfg!LabelsNameBlocks(fn)
                           /\ simplify_cfg!EmptyLoopsAreEntered(fn)
  /\ pc = "idoms" => /\ Reachable(fn) = Range(fn.order)
                     /\ Linked(fn) /\ mem2reg!PredsBranchHere(fn) /\ mem2reg!CellsAreNamed(fn)
  /\ Working("sccp") /\ pc = "loop" =>
       LET f == Kept(fn)
       IN  PhisFirst(f) /\ BranchesResolved(f) /\ UsersComplete(f) /\ UsersRead(f)
  /\ pc = "roots" => dce!OperandsPlaced(fn)

\* No pass aborts, refuses the function or reads freed memory.
NeverFails == ~Failed

\* The passes come to an end with a function, and it makes the calls of the
\* function as it was lowered, with the same arguments, and returns what that
\* returns.
BehaviourPreserved ==
  /\ NeverFails
  /\ (before.status # "idle" /\ after.status # "idle") => SameCalls /\ SameEnd
=============================================================================
