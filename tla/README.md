# Formal verification of compiler-dungeon

TLA+ models of the compiler in this repository, TLC configurations that check
them on small instances, and TLAPS proofs of what matters most for every
instance. Line numbers refer to the sources under `src/`.

## 1. The system

compiler-dungeon compiles Kerosene, a small expression language. One process
runs the stages in order (`driver/compiler.cpp`); each stage reads the result
of the one before and nothing is stored between runs.

| Component | Source | State it keeps | Operations |
|---|---|---|---|
| lexer | `frontend/lexer.*` | position, rest of the text, tokens | `next`, `advance`, `try_drop` |
| parser | `frontend/parser.*` | token index, `parsing_control_condition` | one function per grammar rule |
| semantic analysis | `sema/` | scopes, symbols, functions, type of each expression | `declare`, `lookup_symbol`, `check`, `infer`, `analyze` |
| HIR lowering | `hir/ast2hir.hpp` | the HIR under construction | `lower_stmt`, `lower_expr` |
| IR lowering | `ir/hir2ir.hpp` | instruction list, labels, jump table | `lower_hir_expr`, `lower_hir_stmt`, short circuits |
| CFG builder | `ir/cfg_builder.hpp` | blocks, `succ`, `pred` | `build`, `connect` |
| IR | `ir/instruction.hpp`, `basic_block.hpp`, `function.hpp` | instructions, operands, users, blocks | `erase_operands`, `replace_all_uses_with`, `replace_successor` |
| integer semantics | `ir/int_semantics.hpp`, `sema/types.hpp` | none | `normalize`, `eval_cmp`, `eval_arith`, `is_within_bounds` |
| simplify_cfg | `analysis/simplify_cfg.hpp` | the function it rewrites | five rewrites until nothing changes |
| mem2reg | `analysis/mem2reg.hpp` | dominators, frontiers, phis, stacks of values | `compute_idom_tree`, `insert_phi`, `rename`, `verify_ssa` |
| sccp | `analysis/sccp.hpp` | lattice, two worklists, executable blocks and edges | `initialize`, `visit`, `mark_executable`, `transform` |
| dce | `analysis/dce.hpp` | marks, worklist | `get_useful`, `run` |
| pass manager, pipeline | `analysis/pass_manager.hpp`, `pipeline.hpp` | the schedule | `run` |
| driver, web binding | `driver/`, `wasm/api.cpp` | none | run the stages, print |
| printer, files, diagnostics | `common/`, `diag/` | none | input and output |

The passes interact through shared, mutable, redundant data: an operand of an
instruction and the `users` list of a value say the same thing from two sides,
and so do `succ` and `pred`, a phi's `incoming` and its `operands`, the label
ids of a branch and the `succ` of its block. Every pass keeps these in step by
hand and relies on the previous pass having done so.

Nothing runs concurrently and nothing is persisted. What is hard here is
**order** (worklists that must lose nothing, whatever the order of the work),
**stale state** (redundant lists that fall out of step, references read after
what they refer to moved), **termination** of loops that run to a fixpoint,
**numeric edges** (integers of six widths in a 64-bit word) and
**assumptions between components** (the types that folding takes for granted).
`PROJECT.json` lists each hazard at its line.

What makes each component correct:

- integer semantics: a folded result is the integer the operation has in the
  type, or is refused exactly where there is none; words stay normalised.
- sccp: when it ends, what it claims holds of every run; it ends; it never
  aborts on a well-typed function; the rewritten function behaves the same and
  its def-use lists agree with its operands.
- dce: exactly what no effect depends on is erased; no operand is left without
  a definition; the function behaves the same.
- simplify_cfg: ends; no edge is missing from a `pred` list and no way in from a phi;
  nothing names an erased block or value; same behaviour.
- mem2reg: idom and frontiers are those of the definition; each phi has a value
  from every predecessor; each use is dominated by its definition; same behaviour.
- lowering and CFG builder: every label is placed once, every block ends in at
  most one terminator, the graph has the edges of the branches.
- semantic analysis: what is accepted is well typed, with the types recorded
  for it, and every node the lowering will ask for has one.
- lexer: the longest token, always. parser: what it reads, written down again
  with the parentheses the grammar needs, is the same program.

## 2. Modules

| Module | Models | State and actions |
|---|---|---|
| `Lexer` | `lexer.*` | operators: `next`, one per branch of the code's |
| `Ast`, `Parser` | `ast.hpp`, `parser.*` | a record for the parser (tokens, position, `cond`, `failed`); an operator per parse function |
| `Semantic` | `semantic.hpp`, `symbol_table.hpp`, `operations.hpp`, `types.hpp` | a record `z` for the analysis (scopes, symbols, functions, status); `check`, `infer`, `declare`, `analyze` |
| `Hir` | `hir.hpp`, `ast2hir.hpp` | operators from typed syntax to HIR |
| `Lowering` | `hir2ir.hpp`, `cfg_builder.hpp` | a record for the builder (code, cells, loops, label counter, status); `lower_hir_expr`, `build`, `build_cfg` |
| `Compiler` | `driver/compiler.cpp` up to the graph | `stage` and what there is of the program; one action per stage, then one function of the program runs |
| `SourceText`, `SourceTypes`, `SourceMeaning` | references the front end is compared with | longest tokens; a printer; the typing rules; a big-step evaluator of the syntax |
| `IntSemantics` | `int_semantics.hpp`, the literal check of `types.hpp`, `neg` of `sccp.hpp` | operators; the word width is a constant |
| `IntFolding` | a chain of literals and folded operations of one type | `Literal` (type check, `iconst`, `neg`), `Fold`, `Negate` |
| `Ir` | the data of `ir/`, and the predicates a pass may rely on | operators |
| `SimplifyCfg` | `simplify_cfg.hpp`, `replace_successor`, `replace_all_uses_with` | `pc` names the rewrite at work, `at` the block of its loop; one action per block merged or bypassed and per phi erased |
| `Mem2Reg` | `mem2reg.hpp` | `pc` names the phase; one action per block of the dominator rounds and of the frontiers, one per instruction renamed, per successor wired, per call and return of `rename` (`frames` is the call stack) |
| `Sccp` | `sccp.hpp` | the members of the pass, `pc`, and the instruction a loop stands at; one action per visited instruction, per block taken, per user taken; `Transform` is the rewrite |
| `Closure` | what a marking loop promises | `Mark`, `Finish` (abstract specification) |
| `Dce` | `dce.hpp` | one action per iteration of each loop of `get_useful` and `run` |
| `IrExec` | the meaning of a function: a machine that runs it | operators on a function and a machine: `Start`, `Execute`, `Steps`; external, since the repository has no back end |
| `Preservation` | two runs with the same arguments and replies, before and after a pass | the two machines `before` and `after`; a call and a step of each |
| `SccpSound`, `SimplifySound`, `Mem2RegSound` | a pass composed with `Preservation` | the pass runs, then both functions run |
| `Pipeline` | `pass_manager.hpp`, `pipeline.hpp`, `wasm/api.cpp` | composes `SimplifyCfg`, `Mem2Reg`, `Sccp`, `Dce` and `Preservation` on one function; `schedule`, `turn`; an action per pass entered |
| `Programs` | functions that the compiler built, in the form each pass sees them | constants for the MC modules |
| `MC*` | the constants of each run | |
| `Facts`, `FoldingProofs`, `SccpProofs`, `DceProofs`, `ClosureProofs`, `SimplifyProofs`, `Mem2RegProofs`, `Mem2RegSoundProofs` | theorems and proofs | |

**Front end.** The stages before the IR are recursive descent over trees, with no
choice and nobody to interleave with: the models are operators that thread a
record, and `Compiler` makes each stage a step. Where the code reports an error
(it throws) the record gets a failed status and the rest of its content no longer
matters; an assertion that fails, a lookup that throws and a null pointer that is
followed are statuses of their own (`aborted`, `thrown`, `crashed`). In `Parser` a
reading is a pair of what was read and the parser after it; `Then` reads on and
`Make` builds a node of all that was read.

`semantic.hpp` keeps pointers and references into vectors while it appends to
them, and reads through them afterwards, in three places: the function that is
called, over its arguments (358-370); the variable that is assigned, over its new
value (340-350); and `curr_scope`, whose function the scopes of both branches of an
`if` and of the body of a `while` get, over the condition and the first branch
(270-275, 384-389, 403). `Capacity` is the capacity of a vector grown one by one.
When it has changed, `Through` notes in `z.dangling` that freed memory was read, and
`Compiler!Analyze` has two outcomes. In one the analysis went on with what the vector
left there when it moved: a scope still names its function, a symbol its type, and
a signature is empty, so that the argument loop ends, as it does in the built compiler. The
other is the stage `undefined`, from which nothing follows and of which the
properties say nothing: the memory may have been used again. Most `if`s with an `else` in the runs'
texts have both outcomes, and the block assigned to `x` in
`let mut x = 2; x = { let y = x * 2; y + 1 };`, whose `y` is the third symbol. The
built compiler mostly does the first. It was seen to do the second for an assignment whose
value declares the 17th or the 33rd symbol (`map::at`, since `sym.id` was read from
freed memory) and for an `if` after five to eight blocks, whose condition or first
branch makes the scopes move: a correct program is then rejected with "Return statement
used outside of a function body".

The parser reads what the code reads: a literal `unit` (`language.md` 938-945) has
no rule in it, `/*/` counts as a complete comment, and a nested condition clears
`parsing_control_condition` for what follows in the outer one, so
`while if a { b } else { c } && d { }` is rejected. `check` of a binary expression
does not look at the operator. `>` and `<=` evaluate their right operand first;
`SourceMeaning` takes that order as given, the language leaves it open. A `break`
in the condition of a `while` belongs to the outer loop for the analysis and
leaves the inner one in `hir2ir.hpp`; the programs of the runs have none there.

**Passes.** A value of the code is the result of one instruction, so `values` is a
function from instructions to lattice elements and an operand is the number of its
defining instruction. `flow_worklist` and `ssa_worklist` are sequences, as the
queues are; `executable_blocks` and `executable_edges` are sets. A meet over the
incoming values of a phi does not depend on their order, so `NewElement` uses the
meet of a set (the code walks a map keyed by pointers, whose order varies between
runs). A value whose type has no size (`result == nullptr` in the code) has the
type `NoType`. A failing assertion or `std::get` ends the process: action `Abort`.

`simplify_phis` erases from the vector it iterates over. The variable `slots` is
the memory of that vector up to the end the loop remembers: after an erasure the
instructions have moved up, the iterator skips one, and the last slot still holds
what it held. In `Mem2Reg` a phi has its number from the moment its value is
created, and stands in its block when `add_phi_instrs` puts it there. In `Pipeline`
a block that `simplify_cfg` takes out of the list is freed; its instructions remain
registered as users, and `ReadsFreedBlock` is where sccp reads through one.

**Fidelity.** The functions of `Programs` are those the compiler produced for the
source text above each, dumped as the graph builder (`_cfg`), the first
simplification (`_scfg`), mem2reg (`_ssa`), sccp (`_sccp`) or dce (`_dce`) left them,
with the integer types scaled down (`i32` to 12 bits in a word of 14) because TLC
computes in 32 bits. `Lexer`, `Parser`, `Semantic`, `Hir` and `Lowering` applied to
these texts give exactly the `_cfg` dumps, instruction by instruction; on the 172
programs of `test/` that TLA+ strings can hold, the models accept and reject what
the built compiler accepts and rejects, at the same stage. The functions that
`SimplifyCfg` and `Sccp` end with were compared with the dumps in the same way.

## 3. Runs

| Run | What it asks | Bounds |
|---|---|---|
| `compiler` | every stage of the front end against a definition of its own, and the graph against the meaning of the text | 86 texts: 17 functions through every construct, 4 of declarations and expressions only the parser knows, 16 to be rejected, 49 pairs of operators in every grouping; 3 sample integers, 30 blocks |
| `int_folding` | literals, arithmetic and comparisons against integer arithmetic | word of 5 bits; signed and unsigned types of 2, 3 and 5 bits; every operand |
| `simplify` | the five rewrites step by step, and the function they make against runs of the original | 6 functions as the graph builder leaves them and 7 as dce does; 5 sample integers |
| `mem2reg` | promotion step by step, and the function it makes against runs of the original | 6 functions after simplification; every connected graph of 4 blocks with at most two ways out of each, and of 3 blocks around one variable that any of them may store to (the order of the two ways apart); 3 sample integers, 5 blocks |
| `sccp` | the worklist algorithm step by step, the analysis and the rewritten function against runs | 14 well-typed functions and 2 that are not; 5 sample integers |
| `dce` | the marking and the sweep step by step, and the refinement of `Closure` | 9 functions, before and after sccp |
| `pipeline` | every pass of a schedule after the others, from the lowered function to the last pass, and both against each other | 14 functions through the default pipeline and, where every block can be reached, through three choices of the web page; 3 sample integers, 10 blocks |
| `sccp_ill_typed`, `simplify_max`, `pipeline_scope`, `pipeline_dead`, `compiler_stale` | one program each on which the code goes wrong | violations |

What the properties say:

- `LongestMatch`: the tokens are the longest ones, by a definition that tries every
  prefix. `RoundTrip`: the program that was read, printed with no more parentheses
  than the grammar calls for, is read as itself; regrouping an operator breaks it.
- `WellTyped`: what the analysis accepts satisfies the typing rules with the types
  it recorded. `AcceptedLowers`: what it accepts never makes a lowering fail.
- `WellFormed`: edges are where the branches go, users are the readers, every
  operand stands somewhere, and a block without successors ends in a return: what
  the passes and the proofs assume. `BehaviourPreserved` of `compiler`: the graph
  makes the calls and returns the value the text means.
- `Canonical`, `LiteralExact`, `FoldExact`, `CompareExact` relate words to the
  integers they stand for, through any chain of operations. Widths 2 and 3 in a
  word of 5 have the sign extension, truncation and overflow of `i8`..`i32` in
  64 bits, and width 5 is the case `bits >= 64` of `normalize`.
- `DominatorsNeverLost`: while the dominator rounds run, a guess errs only on one
  side. `DominatorsExact`, `FrontiersExact`: what comes out is what the definitions
  by paths say, in irreducible graphs too. `PhisExact`: the phis of a variable are in the
  iterated frontier of its stores, one in a block, whichever block the worklist gives
  next. `NoAccessLeft`: rename, which goes down the dominator tree, has come to every
  block. `LeavesSsa`: every value read is defined on every way to its reader, every phi
  is complete.
- `NothingForgotten` is the heart of sccp: an instruction of an executable block
  agrees with its operands, or a worklist (or the loop over the current block)
  still gets to it. `FixpointReached` is what follows when both are empty (a theorem
  of section 4); `OnlyDescends` and `Terminates` say that this happens. `TypedNeverAborts`: on a
  function typed as `infer_op` types it, with the opcodes `from_opkind` chooses by signedness
  (`hir2ir.hpp` 31-46), no assertion fails, those of the arithmetic included
  (`int_semantics.hpp` 24, 53-54). `AnalysisSound`: a run
  enters only executable blocks and computes only values that agree with the
  lattice.
- `NothingLost`, `NoDanglingOperand`, `MarksClosure`: the marks are the transitive
  closure of the effects, and the sweep leaves nothing dangling.
- `StaysLinked`, `PhisStayComplete`, `NothingDangles` hold at every step of
  simplification, not only at its end. The lists may name too much: sccp leaves
  predecessors that no longer branch to a block, and the pass keeps them.
  `NothingLeft`: it ends in a function none of its rewrites would change.
- `Preconditions` of `pipeline`: each pass finds what it relies on (reachable
  blocks and named cells for mem2reg, complete users and resolved branches for sccp, operands that
  stand for dce, lists and phis that fit for simplify_cfg). These are the facts the
  comment at `pipeline.hpp` 10 worries about and nothing in the code checks.
  `NeverFails`: no pass aborts, refuses the function or reads freed memory; the
  pipeline's `BehaviourPreserved` asks for it too.

**Why the bounds are enough.** Every loop of the programs runs at least twice within
the cut-off, which is when a phi gets its second value; the 30 blocks of `compiler`
let every loop end. Four blocks are the least that hold an irreducible loop with an
entry and an exit, three with a variable the least that hold a join behind a join.
A run that traps (division by zero, a read of a cell never written) promises
nothing afterwards; one that is cut off is compared as far as it went. The sample
integers hit both sides of the comparisons, zero divisors and the extremes of the
scaled types. The sizes of the types, `Scaled`, keep their order, and the widest
fills the word.

**Functions that are left out**, because the code goes wrong on them in ways the
findings do not repeat: `fn f() { loop { } }`, on which `simplify_cfg` reports a
change in every round and never ends, and which `LoopsAssumption` excludes (an empty
loop elsewhere, `spinif_cfg`, aborts in `replace_successor` and is in the run); a function without parameters that
begins with a loop, whose entry block the latch takes over (`simplify_cfg.hpp` 84),
so that the rest is erased; a phi that reads a phi that is erased, whose incoming
map keeps the erased value (`simplify_cfg.hpp` 136); a block without a trailing
expression, a `while`, a `loop` or an `if` of type unit as an operand, an argument or a
return value (`return {};`), for which a null pointer is followed (`hir2ir.hpp` 72; the
call of a unit function does have a value, 202-208, and is in the run); a `static` read
in a function, which `hir2ir.hpp` finds no cell for (`language.md` 104-117).
Two functions abort in `simplify_cfg` after constant propagation:
`fn f(a: i32) -> i32 { let mut x: i32 = 1; let mut y: i32 = 2; if true { x = a; y = a; }
else { x = 3; } if false { x = 4; y = 4; } x + y }`, where `merge_blocks` moves a phi twice
without rekeying it, `simplify_phis` skips it, and it has lost its last value when line 133
asserts that it has one; and `fn f(a: i32) -> i32 { while 1 < 2 { } return a; }`, where the
head of the empty loop is bypassed and `replace_successor` (`basic_block.hpp` 61) asserts
that the block before it ends in a branch.
`simplify_terminators` never changes any function: no rewrite makes the two labels of
a branch equal, since `replace_successor` changes a copy of them.

**Deadlock.** `int_folding` and `dce` check it (the chain of `IntFolding` can always
start again; a finished pass stutters through `Terminated`). The other runs end with
the run of a function, so deadlock is not checked there; that a pass ends is said by
`Terminates`.

**Fairness.** `Mem2Reg`, `SimplifyCfg`, `Sccp`, `Dce` and `Closure` assume weak
fairness of the pass's own steps: it is a sequential loop that takes its next step
as long as there is one. Nothing stronger is assumed, and nothing is assumed of
the functions that run afterwards. `Terminates` and `MarksClosure` rest on it.
`Compiler` and `Pipeline` are checked for safety only.

**Findings.** Each was confirmed with the compiler built from this source.

- `sccp_ill_typed`. `check()` of a binary expression (`semantic.hpp` 260-264)
  never asks `infer_op` whether the operator applies, so
  `fn f() -> bool { true + false }` passes the type checker and aborts the
  compiler at `assert(ilhs && irhs)`, `sccp.hpp` 186; `fn f() -> i32 { 1 && 2 }`
  fails in `std::get<bcons>`, `sccp.hpp` 225.
- `simplify_max`. The language document's own example of an `if` expression
  (`language.md` 442), with local variables: both arms become empty blocks, and
  bypassing the second overwrites the value the first gave to the phi
  (`simplify_cfg.hpp` 165). The function always returns the second variable.
- `pipeline_scope`. A variable declared in the body of a loop: `insert_phi` wants a
  phi of it at the loop's head, which has no value from before the loop, and
  `verify_ssa` rejects the program. `test/parser/good/nested_if.ks` is one.
- `pipeline_dead`. Statements after a `return`: the blocks are freed, the branch in
  one of them stays a user of the parameter, and sccp reads its successors.
- `compiler_stale`. A call whose first argument is a block with a `let`: the symbols
  move while the callee's signature is being read, the second argument is never
  checked and the lowering throws.

## 4. Proofs

TLAPS checks the following for every value of the constants.

*Assumptions.* `WordBits` is a positive number. The functions sccp runs on satisfy
`IsSsa`: operands, users, branches and constants have the shape that lowering and
mem2reg give them; and `UsersRead`: a user of a value reads it, and the operands of a
phi are its incoming values (`Preconditions` of the `pipeline` run asks for both). The functions dce runs on are functions whose operands stand in
blocks. simplify_cfg is given functions that are linked, whose branches
are resolved and whose phis are complete (`FunctionsAssumption`), and in which a
conditional branch to one label has one successor twice and a loop that does nothing
is entered by falling through (`LoopsAssumption`: `fn f() { loop { } }`, on which the
pass does not end, is not such a function). mem2reg is given linked functions whose lists of predecessors name no
block that control cannot come from, and no block of which is the null pointer; whose
instructions have the operands of their opcodes; and in which a load or a store names a
cell or a parameter and no value that was computed (`CellsAreNamed`: lowering knows no
pointers), since replacing a load by a value would otherwise change which cell a later
access names. For its runs (`RenamingAssumption`) such a function moreover

- has no phis yet, and addresses are only loaded from and stored to: where ways meet,
  lowering goes through a cell (`hir2ir.hpp` 96-147, 211-247, 301-305);
- lists a block or an instruction once, has its edges where its branches go and
  its users complete, which is what simplify_cfg leaves (`pipeline.hpp` 13);
- computes an operand on every way to the instruction that reads it (`ReadsDefined`).
  It says nothing of what is stored in a cell: a variable may be read before it is
  written;
- has at most one block that goes back to the entry, or no variables (`EnteredOnce`).
  simplify_cfg can make the head of a loop the entry (`simplify_cfg.hpp` 177), and
  the code would put a phi there that has no value for the way in from the caller.
  For such functions the theorem says nothing.

TLC
evaluates every assumption on the functions of its runs, and `Pipeline` and `Compiler`
check that the passes and the lowering hand over such functions. `RenamingAssumption`
is evaluated on the functions of the `mem2reg` run: those the compiler built for the
programs, after simplify_cfg, and the shapes around one variable.

*Facts* (`Facts`): the lemmas the other modules share. `normalize`, `eval_arith` and
`eval_neg` take words to words (or to no result), whatever the width. Powers of two
are cardinalities of sets of subsets; induction over the numbers comes from their
least elements (`NatSetInduction`). `Filtered`, flattening and concatenation of lists, the blocks
`Reachable` finds (the least set that holds the entry and the successors of its blocks).

*Integers* (`FoldingProofs`): `ChainIsCanonical`, `LiteralsAreExact`, `FoldingIsExact`,
`ComparisonsAreExact`, for every width, type and operand: a word in canonical form
stands for one integer of its type, and the compiler's arithmetic on words is that of
the integers, or says where there is none. The operations a chain is folded from meet the
assertions of `eval_arith` (`OpsMeetAsserts`), so that none of these stops the compiler.

*sccp* (`SccpProofs`): `TypeCorrect`, `NothingIsForgotten`, `FixpointIsReached`,
`WellTypedNeverAborts`, `OnlyDescending`. The inductive invariant `IInv` is

- `TypeOK`;
- `NothingForgotten` — needed because `FixpointReached` says something only at
  the end; inductive because a visit settles what it visits (`VisitSettles`),
  and what it unsettles is queued: the users of the value it lowers, the phis
  behind the edges it adds (`VisitKeeps`), the blocks it reaches;
- both worklists are empty when the rewrite begins;
- `KindsMatch`: integers only in values of integer type, booleans only in values
  of type `bool`, if the function is well typed — needed for `TypedNeverAborts`,
  which by itself says nothing about the state before the abort. A fold, a phi
  and a meet keep it (`NewElementOfType`), and under it no assertion fails
  (`NoAssertFails`).

`TransformLeavesWellFormed` says what the rewrite leaves behind: edges are where the
branches go, and the users are again the readers. Its invariant `GivenWellFormed` is
that the function is untouched until the rewrite and that only values with a result
were found constant, so that no terminator and no store turns into a constant;
filtering the users then removes those who stopped reading, and no others.

*The runs of a function* (also `SccpProofs`): `AnalysisIsSound` and
`BehaviourIsPreserved`, for every function, every sequence of arguments and replies and
every length of the run. Under `IInv` a finished analysis solves its equations over the
original function (`Solved`), although the rewrite has begun to change the other one.
The invariant says of the machine's state (`RunAgrees`): it stands in an executable
block, came there along an executable edge (or holds no value yet), and what it holds,
and held when it entered the block, agrees with the lattice.

`BehaviourIsPreserved` compares two runs that the model makes one after the other, so
that the second has to be held against a state the first has left long ago. `SoundInv`
therefore keeps the path of the first run from that state to the present (`Ahead`), and
each step of the second run takes the first state off it. The two machines are then in
step (`Matches`: same place, same cells, calls and result, and the new one holds what
the old one holds), because the rewrite leaves every instruction where it is; a step of both
(`LockStep`) is one of three: the instruction is as it was (`UnchangedStep`), it became
a constant, which is the value the old machine computes by `RunAgrees` (`ConstantStep`),
or a branch whose condition is known became the branch that the old machine takes
(`BranchStep`). Where the old run stops without returning, the new one may go on
(`Follows`): the instruction at which a name without a value is read may have become a
constant, which reads nothing. Two more parts of the invariant are needed: only
instructions with a result are constant (`Resulting`), and a constant found for a type is
normalised to it (`Fits`), since an `iconst` is normalised when it is computed.

The theorem is about functions that are well typed. `WellTyped` also says that divisions
and right shifts have the opcode of their type's signedness, which `eval_arith` asserts
(`int_semantics.hpp` 53-54) and `from_opkind` sees to (`hir2ir.hpp` 31-46). On the others
the pass may abort; and where assertions are compiled out, a constant found by `shr` may
have bits above its signed type, which the rewritten `iconst` would lose. The well-typed
functions of the run satisfy it; TLC evaluates this as an assumption
(`WellTypedAssumption`).

*simplify_cfg* (`SimplifyProofs`): `TypeCorrect`, `SuccAndPredAgree`: at every step the
pass has a function in which each edge that can be taken is known at its other end.
The invariant `SimplifyInv` is `WellLinked` and where the loops stand (`InLoops`).
`WellLinked` adds to `Linked` what the rewrites rely on: instructions know their block,
branches are last, a conditional branch has two successors and the same one twice if
its labels are equal, and `EmptyLoopsAreEntered`: a ring of blocks that do nothing is
entered by falling through. Without the last a bypass could reach the block it
started from and cut a loop off. Each rewrite has a lemma about what it does to the
parts of the function and one that the function stays well linked.

`NothingIsLeft`: the pass ends in a function none of its rewrites would change. Its
invariant `Quiet` is that a round in which nothing has changed so far has left
nothing behind: no block can be erased or merged, no phi of a block it visited is
without a second value. It rests on what `run` repeats a round for
(`simplify_cfg.hpp` 187-195).

*mem2reg* (`Mem2RegProofs`): `NoDominatorIsLost`, `DominatorTreeIsExact`,
`FrontiersAreExact`, `PhisAreExact`, `TypeCorrect`, `NothingIsAccessed`, for every graph. The argument
about the tree goes from the bottom up:

- `reverse_postorder` (`RpoFacts`): an invariant of the walk, `WalkOK`, gives every block
  that can be reached one number, and one of its predecessors a smaller one.
- A tree (`IsTree`): above a block stand smaller numbers only, so that the fingers of
  `intersect` meet in fewer steps than twice the number of blocks, where the two
  ways up (`Up`) come together (`IntersectFacts`). The guess for a block has above it
  what all its known predecessors have above them (`NewIdomFacts`).
- `Leads`: a block is reached from its guess through blocks of larger numbers.
  `LosesNone`: every dominator of a block is above it. One step of a round keeps both
  (`UpdateKeepsLeads`, `UpdateLosesNone`): if a block x lost a dominator n because b above
  it moved, n had been above b and has a smaller number; then b is reached without n, and by `Leads`
  so is x. Without `Leads`, `LosesNone` is not inductive.
- A round without a change is a fixpoint (`Fixed`), and there nothing but dominators
  is left above a block (`FixedIsExact`): the blocks that n is not above are
  closed under the edges that do not end in n.
- A runner collects what is above its start and not above the dominator it
  stops at (`ClimbFacts`); with one predecessor that is nothing, which is why the
  code may skip such blocks (`FrontierFacts`).

`TypeCorrect` follows from `TypeInv`, which gives a type to every list the pass keeps.
Each rewrite of the function (`InsertedFacts`, `WithoutFacts`, `ReplacedFacts`,
`WiredFacts`, `PlacedFacts`) keeps its blocks, makes phis only, and leaves an access what
and where it reads and writes (`Keeps`), so that it also keeps all that names its
instructions (`KeptTypes`).

`PhisAreExact` rests on `PhiInv`: a block that stores a variable or has a phi of it is on
the variable's worklist, or all of its frontier has the phi. A block that has a store
is not put back when it gets a phi (`mem2reg.hpp` 148), which is right because it has
been taken already or will be. None is too many: a phi is set only in the frontier of
a block with a store or a phi, so the phis stay within every set that wants no more.

`NothingIsAccessed` needs an invariant over the calls of `rename` that have not returned
(`Renaming`): only the last one is still in its block, and there what it has passed is
clean; the blocks of the others are clean; and a block that is not clean lies, in the
tree, below a child that one of the calls has yet to make (`WillReach`). Wiring the
successors turns "below my block" into "below one of my children", which is right because
the tree is exact and so hangs every block of the list below the entry (`Spanned`, from
`FixedIsExact`); a call hands its child's part to the call it makes; and when the last
call returns nobody is left who could still come to a block, so all are clean.

*The runs of a promoted function* (`Mem2RegProofs` from the section on lists on,
`Mem2RegSoundProofs`): `BehaviourIsPreserved`, for every function that satisfies the
assumptions, all arguments and replies and runs of every length. The argument has three
parts.

- *Names.* `rename` gives every variable a name at every place of the function: the value
  stored last, or a phi. The names are never kept by the code; they are on its stacks while it
  passes, and gone. The invariant (`Certified`) therefore says that there are two
  functions: d, the name of each variable at each place that has been passed, and
  r, the value that every instruction that has gone was replaced by. Every step of the
  pass extends them: what is on top of the stacks of the last call is d at its place, and the
  stacks of the calls before it are found again below what has been pushed since; what is left
  of the code is the original code read through r; a phi has learnt d at the end of the
  blocks that have wired their successors. It also needs that a name is only
  used where it has been computed (`Named`, `Avail`), in the dominator tree, since
  otherwise the value a load is replaced by could be undefined or from an earlier round.
- *The function on names.* When the pass is through, `Promoted` and `Complete` say of the
  function it made, without a word about the pass, that it is the original one on names:
  phis where `PhisAreExact` has them, one incoming value for each edge, and names that agree
  along every edge into a block without a phi (this is where the frontiers are needed:
  the blocks such a block is entered from hang below the one above it, and no name
  changes on the way). `verify_ssa` contributes that no phi lacks a value.
- *The runs.* The two runs are made one after the other, and are held against each other as
  for sccp, over the path of the first one. This time the machines are not in step:
  the old one executes accesses that have gone, and the new one phis that were not there.
  `Match` relates them where the old one stands at a place and the new one is past
  the phis and at what is left of the code before that place: a name holds in the
  new run what the instruction, or the cell of the variable, holds in the old one.
  Entering a block keeps this since all phis of a block read their values on entry.
  While the new run computes its phis it is on the way to such a match (`OnTheWay`), and
  `Follows` allows that the old run stopped without returning.

*Model-checked only.* The front end (its operators are recursive over syntax, and
induction over data is out of the prover's reach) and the pipeline. Liveness
(`Terminates`, the fairness part of `MarksClosure`). Three properties hold of the
functions of the runs and not of all the functions the assumptions allow, so that
they are no theorems, and the findings are the reason:

- `PhisStayComplete`: of the two `if`s with constant conditions in section 3 sccp and dce
  make a function that satisfies every assumption, and a phi that `merge_blocks` moved
  twice is keyed by a block that is gone.
- `NothingDangles`: a phi that reads an erased phi keeps it in its incoming map
  (`simplify_cfg.hpp` 136).
- `LeavesSsa`: `pipeline_scope`, and loads no store reaches.

`BehaviourPreserved` of simplify_cfg, of the pipeline and of
the front end are checked over the runs of the programs.

## 5. Plan

Proofs still worth having, in order of importance:

1. That the passes of `Pipeline` keep each other's preconditions, as far as the
   findings leave it true.
2. `PhisFirst` after mem2reg, and the rest of `LeavesSsa` for functions in which every
   load has a store before it and no variable goes out of scope in a loop.
3. `BehaviourPreserved` of simplify_cfg, for functions without the `if`s of section 3. The
   path of the first run and `Match` carry over, but blocks disappear there, so that
   the two runs are at the same place only where a block that stays is entered.
4. What `EnteredOnce` leaves out: that the phis of an entry that blocks go back to
   have no reader on the way in from the caller.

## 6. Not modelled

- The pretty printer, file reading, the options of the driver, the timings it prints
  and the traces of the web binding: input and output, no state of the compiler.
- Diagnostics: a failed status stands for a message and an exception; source
  locations are left out everywhere.
- In the analysis, the expressions the code leaves to do (match, field access, index,
  struct literals, for which `infer` returns a null type), and floats and strings, for
  which it fails an assertion: the model stops at them with a status of its own.
  `hir` and `hir2ir` therefore never see them.
- Vertical tabs, which a TLA+ string cannot hold.
- `reg2mem` does nothing in the source (the schedule has it); `ir_verifier` and
  `dataflow_driver` are empty.
- In `Pipeline` one function goes through the passes, as in `pass_manager::run`. The
  driver sends every function of a module through the same pass objects, and `sccp`
  never empties its members; but its worklists are empty when it ends
  (`FixpointReached`) and the rest is keyed by values, blocks and edges of the
  function, so that what one leaves behind says nothing about the next.
