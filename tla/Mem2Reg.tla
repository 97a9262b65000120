------------------------------- MODULE Mem2Reg -------------------------------
(***************************************************************************)
(* Promotion of allocas to SSA values, analysis/mem2reg.hpp: the dominator *)
(* tree by iteration, the dominance frontiers, a phi wherever the stores   *)
(* of a variable meet, the walk over the dominator tree that renames, and  *)
(* the check of the result.                                                *)
(*                                                                         *)
(* A phi is given its instruction number when its value is created and     *)
(* its incoming values while the walk goes on, but stands in its block     *)
(* only when add_phi_instrs has put it there.                              *)
(***************************************************************************)
EXTENDS Ir, SequencesExt

CONSTANT Functions           \* the functions the pass may be run on

NoBlock == 0                 \* the null pointer

\* The lists of predecessors name no block that control cannot come from.
PredsBranchHere(f) ==
  \A b \in Reachable(f) : \A p \in Range(Pred(f, b)) : b \in Range(Succ(f, p))

\* Loads and stores name a cell and not a value that was computed; lowering
\* knows no pointers (hir2ir.hpp 96-147, 164-195, 211-247, 301-305).
CellsAreNamed(f) ==
  \A i \in Instrs(f) :
    f.code[i].op \in {"load", "store"} => f.code[f.code[i].args[1]].op \in {"alloca", "param"}

\* Instructions are numbered from 1, so that the next phi is the next number.
Numbered(f) == f.code \in Seq(Range(f.code)) /\ f.users \in Seq(Range(f.users))

ASSUME FunctionsAssumption ==
  \A f \in Functions :
    /\ IsFunction(f) /\ Numbered(f) /\ Linked(f) /\ PredsBranchHere(f) /\ NoBlock \notin Blocks(f)
    /\ CellsAreNamed(f) /\ \A i \in Instrs(f) : MatchesOpcode(f.code[i])

VARIABLES fn,                \* the function, rewritten in place
          pc, at,              \* the phase, the index of its next block
          changed,           \* has this round changed the dominator tree?
          idom, df,          \* of each block, NoBlock and {} at first
          worklist,          \* per variable, blocks whose frontier wants a phi
          phis,              \* per block, pairs <<variable, phi>>
          stacks,            \* per variable, its values on the way to here
          frames             \* the calls of rename that have not returned

vars == <<fn, pc, at, changed, idom, df, worklist, phis, stacks, frames>>

Least(S) == {x \in S : \A y \in S : x <= y}

-----------------------------------------------------------------------------
\* The state of a loop that has turned n times.
Turned(step, a, n) ==
  LET state[k \in Nat] == IF k = 0 THEN a ELSE step[state[k - 1]]
  IN  state[n]

\* dfs: path is the stack of its calls, seen its visited set.  A block is put
\* before those that were finished earlier, so that nothing is left to reverse.
Walks(f) == [path : Seq(Blocks(f)), seen : SUBSET Blocks(f), out : Seq(Blocks(f))]
Unseen(f, w) == Filtered(Succ(f, Last(w.path)), Blocks(f) \ w.seen)
dfs(f, w) ==
  IF w.path = <<>> THEN w
  ELSE IF Unseen(f, w) = <<>>
  THEN [w EXCEPT !.path = Front(w.path), !.out = <<Last(w.path)>> \o w.out]
  ELSE [w EXCEPT !.path = Append(w.path, Head(Unseen(f, w))),
                 !.seen = w.seen \cup {Head(Unseen(f, w))}]

\* reverse_postorder: a block is entered once and left once.
reverse_postorder(f) ==
  Turned([w \in Walks(f) |-> dfs(f, w)],
         [path |-> <<f.entry>>, seen |-> {f.entry}, out |-> <<>>],
         2 * Len(f.order)).out

Rpo == reverse_postorder(fn)

\* The loops of intersect: the finger whose number is higher climbs.
number(rpo, b) == CHOOSE n \in DOMAIN rpo : rpo[n] = b
Climbing(f, rpo, tree) ==
  [p \in Blocks(f) \X Blocks(f) |->
     IF p[1] = p[2] THEN p
     ELSE IF number(rpo, p[1]) > number(rpo, p[2]) THEN <<tree[p[1]], p[2]>>
     ELSE <<p[1], tree[p[2]]>>]

intersect_one_too_far(f, rpo, tree, b1, b2) ==
  tree[Turned(Climbing(f, rpo, tree), <<b1, b2>>, 2 * Len(rpo))[1]]

\* intersect: neither finger climbs more often than there are blocks.
intersect(f, rpo, tree, b1, b2) ==
  Turned(Climbing(f, rpo, tree), <<b1, b2>>, 2 * Len(rpo))[1]

\* The predecessors that have been reached, met.
Known(f, tree, b) == Filtered(Pred(f, b), {p \in Blocks(f) : tree[p] # NoBlock})
new_idom(f, rpo, tree, b) ==
  Turned([m \in Seq(Blocks(f)) \X Blocks(f) |->
            IF m[1] = <<>> THEN m
            ELSE <<Tail(m[1]), intersect(f, rpo, tree, Head(m[1]), m[2])>>],
         <<Known(f, tree, b), Head(Known(f, tree, b))>>, Len(Known(f, tree, b)))[2]

dom_children_by_edges(b) == Filtered(Succ(fn, b), {c \in Blocks(fn) \ {fn.entry} : idom[c] = b})
dom_children(b) == Filtered(fn.order, {c \in Blocks(fn) \ {fn.entry} : idom[c] = b})

Climb_once(f, tree, p, b) == {p} \ {tree[b]}

\* The blocks a runner meets from p up to the immediate dominator of b.
Climb(f, tree, p, b) ==
  Turned([r \in Blocks(f) \X SUBSET Blocks(f) |->
            IF r[1] = tree[b] THEN r ELSE <<tree[r[1]], r[2] \cup {r[1]}>>],
         <<p, {}>>, Len(f.order))[2]

InFrontier(f, tree, n, b) ==
  Len(Pred(f, b)) >= 2 /\ \E p \in Range(Pred(f, b)) : n \in Climb(f, tree, p, b)

-----------------------------------------------------------------------------
\* collect_promotable_vars: every alloca.
Promotable == {i \in Placed(fn) : fn.code[i].op = "alloca"}

Uses(i, op, v) == fn.code[i].op = op /\ fn.code[i].args[1] = v

DefBlocks(v) ==
  {b \in Range(fn.order) : \E i \in Range(Ins(fn, b)) : Uses(i, "store", v)}

Vars == DOMAIN worklist      \* once their stores have been collected

HasPhi(v) == {b \in Blocks(fn) : \E p \in Range(phis[b]) : p[1] = v}

NewPhi_no_parent(v, b) ==
  [op |-> "phi", ty |-> fn.code[v].ty, args |-> <<>>, k |-> 0, tgt |-> <<>>,
   inc |-> <<>>, parent |-> NoBlock]

\* create_value: a phi of variable v that will stand in block b.
NewPhi(v, b) ==
  [op |-> "phi", ty |-> fn.code[v].ty, args |-> <<>>, k |-> 0, tgt |-> <<>>,
   inc |-> <<>>, parent |-> b]

Init ==
  /\ fn \in Functions
  /\ pc = "idoms" /\ at = 1 /\ changed = FALSE
  /\ idom = [b \in Blocks(fn) |-> IF b = fn.entry THEN b ELSE NoBlock]
  /\ df = [b \in Blocks(fn) |-> {}]
  /\ phis = [b \in Blocks(fn) |-> <<>>]
  /\ worklist = <<>> /\ stacks = <<>> /\ frames = <<>>

ComputeIdom ==
  /\ pc = "idoms" /\ at <= Len(Rpo)
  /\ LET b == Rpo[at]
     IN  /\ idom' = IF b = fn.entry THEN idom
                    ELSE [idom EXCEPT ![b] = new_idom(fn, Rpo, idom, b)]
         /\ changed' = (changed \/ idom' # idom)
  /\ at' = at + 1
  /\ UNCHANGED <<fn, pc, df, worklist, phis, stacks, frames>>

IdomRoundDone_once ==
  /\ pc = "idoms" /\ at > Len(Rpo)
  /\ pc' = "frontiers"
  /\ at' = 1 /\ changed' = FALSE
  /\ UNCHANGED <<fn, idom, df, worklist, phis, stacks, frames>>

IdomRoundDone_no_reset ==
  /\ pc = "idoms" /\ at > Len(Rpo)
  /\ pc' = IF changed THEN "idoms" ELSE "frontiers"
  /\ at' = 1
  /\ UNCHANGED <<fn, changed, idom, df, worklist, phis, stacks, frames>>

\* A block without an immediate dominator is dereferenced as a null pointer.
IdomRoundDone ==
  /\ pc = "idoms" /\ at > Len(Rpo)
  /\ pc' = IF changed THEN "idoms"
           ELSE IF NoBlock \in {idom[b] : b \in Range(fn.order)} THEN "crashed"
           ELSE "frontiers"
  /\ at' = 1 /\ changed' = FALSE
  /\ UNCHANGED <<fn, idom, df, worklist, phis, stacks, frames>>

ComputeFrontier ==
  /\ pc = "frontiers" /\ at <= Len(fn.order)
  /\ LET b == fn.order[at]
     IN  df' = [n \in Blocks(fn) |-> IF InFrontier(fn, idom, n, b) THEN df[n] \cup {b} ELSE df[n]]
  /\ at' = at + 1
  /\ UNCHANGED <<fn, pc, changed, idom, worklist, phis, stacks, frames>>

FrontiersDone ==
  /\ pc = "frontiers" /\ at > Len(fn.order)
  /\ worklist' = [v \in Promotable |-> DefBlocks(v)]
  /\ stacks' = [v \in Promotable |-> <<>>]
  /\ pc' = "phis"
  /\ UNCHANGED <<fn, at, changed, idom, df, phis, frames>>

InsertPhis_not_iterated ==
  /\ pc = "phis"
  /\ \E v \in Least({u \in Vars : worklist[u] # {}}) : \E n \in worklist[v] :
       LET ys == Filtered(fn.order, df[n] \ HasPhi(v))
           id(y) == Len(fn.code) + CHOOSE k \in DOMAIN ys : ys[k] = y
       IN  /\ phis' = [b \in Blocks(fn) |->
                         IF b \in Range(ys) THEN Append(phis[b], <<v, id(b)>>) ELSE phis[b]]
           /\ fn' = [fn EXCEPT !.code = @ \o [k \in DOMAIN ys |-> NewPhi(v, ys[k])],
                               !.users = @ \o [k \in DOMAIN ys |-> <<>>]]
           /\ worklist' = [worklist EXCEPT ![v] = @ \ {n}]
  /\ UNCHANGED <<pc, at, changed, idom, df, stacks, frames>>

\* insert_phi: variable by variable, its blocks in whatever order the set of
\* pointers gives.  A block that gets a phi is a definition of the variable.
InsertPhis ==
  /\ pc = "phis"
  /\ \E v \in Least({u \in Vars : worklist[u] # {}}) : \E n \in worklist[v] :
       LET ys == Filtered(fn.order, df[n] \ HasPhi(v))
           id(y) == Len(fn.code) + CHOOSE k \in DOMAIN ys : ys[k] = y
       IN  /\ phis' = [b \in Blocks(fn) |->
                         IF b \in Range(ys) THEN Append(phis[b], <<v, id(b)>>) ELSE phis[b]]
           /\ fn' = [fn EXCEPT !.code = @ \o [k \in DOMAIN ys |-> NewPhi(v, ys[k])],
                               !.users = @ \o [k \in DOMAIN ys |-> <<>>]]
           /\ worklist' = [worklist EXCEPT ![v] = (@ \ {n}) \cup (Range(ys) \ DefBlocks(v))]
  /\ UNCHANGED <<pc, at, changed, idom, df, stacks, frames>>

-----------------------------------------------------------------------------
\* A call of rename: the block, its next instruction, its next child in the
\* dominator tree (0 until the successors are wired), and what it has pushed.
Frame(b) ==
  [block |-> b, next |-> 1, child |-> 0,
   pushed |-> [v \in Vars |-> IF b \in HasPhi(v) THEN 1 ELSE 0]]

\* The stacks when rename(b) has pushed the phis of b.
Entered(s, b) ==
  [v \in DOMAIN s |->
     IF b \in HasPhi(v)
     THEN Append(s[v], (CHOOSE p \in Range(phis[b]) : p[1] = v)[2]) ELSE s[v]]

StartRename ==
  /\ pc = "phis" /\ \A v \in Vars : worklist[v] = {}
  /\ stacks' = Entered(stacks, fn.entry)
  /\ frames' = <<Frame(fn.entry)>>
  /\ pc' = "rename"
  /\ UNCHANGED <<fn, at, changed, idom, df, worklist, phis>>

Top == Last(frames)
InCall == pc = "rename"
SetCall(c) == frames' = Append(Front(frames), c)
Body == Ins(fn, Top.block)
InBody == InCall /\ Top.next <= Len(Body)

\* An instruction that is dropped is taken off the users of what it reads.
WithoutInstr(f, b, i) ==
  [f EXCEPT !.block[b].ins = Filtered(@, Instrs(f) \ {i}),
            !.users = [v \in Instrs(f) |-> IF v \in Range(f.code[i].args)
                                           THEN Filtered(f.users[v], Instrs(f) \ {i})
                                           ELSE f.users[v]]]

Replaced(args, old, new) == [n \in DOMAIN args |-> IF args[n] = old THEN new ELSE args[n]]

\* replace_all_uses_with: the operands of the users, not their incoming maps.
UsesReplaced(f, old, new) ==
  [f EXCEPT !.code = [i \in Instrs(f) |->
                        IF i \in Range(f.users[old])
                        THEN [f.code[i] EXCEPT !.args = Replaced(@, old, new)]
                        ELSE f.code[i]],
            !.users = [v \in Instrs(f) |-> IF v = old THEN <<>>
                                           ELSE IF v = new THEN f.users[v] \o f.users[old]
                                           ELSE f.users[v]]]

IsMemory(i) ==
  \/ fn.code[i].op = "alloca"
  \/ fn.code[i].op \in {"load", "store"} /\ fn.code[i].args[1] \in Vars

KeepInstr ==
  /\ InBody /\ ~IsMemory(Body[Top.next])
  /\ SetCall([Top EXCEPT !.next = @ + 1])
  /\ UNCHANGED <<fn, pc, at, changed, idom, df, worklist, phis, stacks>>

DropAlloca ==
  /\ InBody /\ fn.code[Body[Top.next]].op = "alloca"
  /\ fn' = WithoutInstr(fn, Top.block, Body[Top.next])
  /\ UNCHANGED <<pc, at, changed, idom, df, worklist, phis, stacks, frames>>

DropStore ==
  /\ InBody /\ IsMemory(Body[Top.next]) /\ fn.code[Body[Top.next]].op = "store"
  /\ LET i == Body[Top.next]
         v == fn.code[i].args[1]
     IN  /\ fn' = WithoutInstr(fn, Top.block, i)
         /\ stacks' = [stacks EXCEPT ![v] = Append(@, fn.code[i].args[2])]
         /\ SetCall([Top EXCEPT !.pushed[v] = @ + 1])
  /\ UNCHANGED <<pc, at, changed, idom, df, worklist, phis>>

\* A load that no store reaches is dropped and its users are left alone.
DropLoad ==
  /\ InBody /\ IsMemory(Body[Top.next]) /\ fn.code[Body[Top.next]].op = "load"
  /\ LET i == Body[Top.next]
         s == stacks[fn.code[i].args[1]]
         f == WithoutInstr(fn, Top.block, i)
     IN  fn' = IF s = <<>> THEN f ELSE UsesReplaced(f, i, Last(s))
  /\ UNCHANGED <<pc, at, changed, idom, df, worklist, phis, stacks, frames>>

Wired(inc, b, v) == [p \in DOMAIN inc \cup {b} |-> IF p = b THEN v ELSE inc[p]]

\* The phis of the successors learn the values at the end of the block.
WireSuccessors ==
  /\ InCall /\ Top.next > Len(Body) /\ Top.child = 0
  /\ LET b == Top.block
         wanted == UNION {Range(phis[s]) : s \in Range(Succ(fn, b))}
         wires(i) == {p \in wanted : p[2] = i /\ stacks[p[1]] # <<>>}
         value(i) == Last(stacks[(CHOOSE p \in wires(i) : TRUE)[1]])
     IN  fn' = [fn EXCEPT !.code = [i \in Instrs(fn) |->
                  IF wires(i) = {} THEN fn.code[i]
                  ELSE [fn.code[i] EXCEPT !.inc = Wired(@, b, value(i))]]]
  /\ SetCall([Top EXCEPT !.child = 1])
  /\ UNCHANGED <<pc, at, changed, idom, df, worklist, phis, stacks>>

RenameChild ==
  /\ InCall /\ Top.child \in DOMAIN dom_children(Top.block)
  /\ LET c == dom_children(Top.block)[Top.child]
     IN  /\ stacks' = Entered(stacks, c)
         /\ frames' = Append(Append(Front(frames), [Top EXCEPT !.child = @ + 1]), Frame(c))
  /\ UNCHANGED <<fn, pc, at, changed, idom, df, worklist, phis>>

Popped_nothing(s, n) == s
Popped(s, n) == SubSeq(s, 1, Len(s) - n)

Return ==
  /\ InCall /\ Top.child > Len(dom_children(Top.block))
  /\ stacks' = [v \in Vars |-> Popped(stacks[v], Top.pushed[v])]
  /\ frames' = Front(frames)
  /\ pc' = IF Len(frames) = 1 THEN "place" ELSE pc
  /\ UNCHANGED <<fn, at, changed, idom, df, worklist, phis>>

-----------------------------------------------------------------------------
\* add_phi_instrs: the phis go to the front of their blocks, with their
\* incoming values as operands, in whatever order the pointers give.
PhisPlaced ==
  LET new(b) == [n \in DOMAIN phis[b] |-> phis[b][n][2]]
      ids == UNION {Range(new(b)) : b \in Blocks(fn)}
      from(i) == Filtered(fn.order, DOMAIN fn.code[i].inc)
      reads(v) == Filtered(FlattenSeq([k \in DOMAIN fn.order |-> new(fn.order[k])]),
                           {i \in ids : v \in Incoming(fn, i)})
  IN  [fn EXCEPT
         !.code = [i \in Instrs(fn) |->
                     IF i \in ids
                     THEN [fn.code[i] EXCEPT !.args =
                             [n \in DOMAIN from(i) |-> fn.code[i].inc[from(i)[n]]]]
                     ELSE fn.code[i]],
         !.users = [v \in Instrs(fn) |-> fn.users[v] \o reads(v)],
         !.block = [b \in Blocks(fn) |->
                      [fn.block[b] EXCEPT !.ins = new(b) \o @]]]

AddPhiInstrs ==
  /\ pc = "place"
  /\ fn' = PhisPlaced
  /\ phis' = [b \in Blocks(fn) |-> <<>>]
  /\ pc' = "verify"
  /\ UNCHANGED <<at, changed, idom, df, worklist, stacks, frames>>

\* The phi and the predecessor that verify_ssa reports.
Missing(f, b, i, p) ==
  IsPhi(f, i) /\ i \in Range(Ins(f, b)) /\ p \in Range(Pred(f, b)) \ DOMAIN f.code[i].inc

verify_ssa ==
  /\ pc = "verify"
  /\ pc' = IF \E b, p \in Range(fn.order), i \in Instrs(fn) : Missing(fn, b, i, p)
           THEN "refused" ELSE "done"
  /\ UNCHANGED <<fn, at, changed, idom, df, worklist, phis, stacks, frames>>

Next == \/ ComputeIdom \/ IdomRoundDone \/ ComputeFrontier \/ FrontiersDone
        \/ InsertPhis \/ StartRename \/ KeepInstr \/ DropAlloca \/ DropStore \/ DropLoad
        \/ WireSuccessors \/ RenameChild \/ Return \/ AddPhiInstrs \/ verify_ssa

Spec == Init /\ [][Next]_vars /\ WF_vars(Next)

-----------------------------------------------------------------------------
\* What domination means: n stands on every way from the entry to b.
ReachedWithout(f, n) ==
  Turned([R \in SUBSET Blocks(f) |-> R \cup ((UNION {Range(Succ(f, b)) : b \in R}) \ {n})],
         {f.entry} \ {n}, Len(f.order))

Dominates(f, n, b) == b \notin ReachedWithout(f, n)
StrictlyDominates(f, n, b) == n # b /\ Dominates(f, n, b)

\* The chain of immediate dominators found so far, from b to the entry.
Chain(b) ==
  Turned([S \in SUBSET Blocks(fn) |-> S \cup {idom[c] : c \in S}], {b}, Len(fn.order))

TypeOK ==
  /\ IsFunction(fn)
  /\ pc \in {"idoms", "frontiers", "phis", "rename", "place", "verify",
             "done", "refused", "crashed"}
  /\ idom \in [Blocks(fn) -> Blocks(fn) \cup {NoBlock}]
  /\ df \in [Blocks(fn) -> SUBSET Blocks(fn)]
  /\ \A b \in Blocks(fn) : \A p \in Range(phis[b]) : IsPhi(fn, p[2])
  /\ \A v \in Vars : stacks[v] \in Seq(Instrs(fn))
  /\ \A k \in DOMAIN frames : frames[k].block \in Range(fn.order)

\* While the tree is still being built it only errs on one side: every true
\* dominator of a block that has been reached is on its chain, so a climb of
\* intersect never passes one, however the edges of a loop mislead the first
\* round (mem2reg.hpp 39-48, 67-86).
DominatorsNeverLost ==
  pc = "idoms" =>
    \A b \in Reachable(fn) : idom[b] # NoBlock =>
      \A n \in Reachable(fn) : Dominates(fn, n, b) => n \in Chain(b)

\* When the rounds stop, what is left is exact: the chains are the sets of
\* dominators, in an irreducible graph too (mem2reg.hpp 58-87).
DominatorsExact ==
  pc = "frontiers" =>
    \A b, n \in Reachable(fn) : n \in Chain(b) <=> Dominates(fn, n, b)

\* A block is in the frontier of just those blocks whose domination ends at
\* it, although a runner climbs a tree and looks at no path (mem2reg.hpp
\* 95-106; nothing enters the entry with a value, so it is left out).
FrontiersExact ==
  pc = "phis" =>
    \A n \in Reachable(fn), y \in Reachable(fn) \ {fn.entry} :
      y \in df[n] <=> \E p \in Range(Pred(fn, y)) :
                        Dominates(fn, n, p) /\ ~StrictlyDominates(fn, n, y)

\* A set of blocks that wants no further phi of variable v: it holds every
\* block in the frontier of a store or of one of its own.
WantsNoMore(v, S) == \A n \in DefBlocks(v) \cup S : df[n] \subseteq S

\* A variable gets its phis in the iterated frontier of its stores, one in a
\* block: none too many whichever block is taken next, and none is missing when
\* the worklists are empty, although a block with a store is not put back when
\* it gets a phi (mem2reg.hpp 141-152).
PhisExact ==
  pc = "phis" => \A v \in Vars :
    /\ \A S \in SUBSET Range(fn.order) : WantsNoMore(v, S) => HasPhi(v) \subseteq S
    /\ (\A u \in Vars : worklist[u] = {}) => WantsNoMore(v, HasPhi(v))
    /\ \A b \in HasPhi(v) : \A j, k \in DOMAIN phis[b] : phis[b][j][1] = v /\ phis[b][k][1] = v => j = k

\* The block whose end or the place in a block where i reads v.
ReadsDominated(i, v) ==
  LET b == fn.code[i].parent
      d == fn.code[v].parent
      before == \E j, k \in DOMAIN Ins(fn, b) : Ins(fn, b)[j] = v /\ Ins(fn, b)[k] = i /\ j < k
  IN  IF IsPhi(fn, i) THEN \A p \in DOMAIN fn.code[i].inc :
                             fn.code[i].inc[p] = v => Dominates(fn, d, p)
      ELSE before \/ StrictlyDominates(fn, d, b)

\* No access to a promoted variable is left, although rename reaches the
\* blocks by way of the dominator tree alone and rewrites, for a load, users
\* that it has still to come to (mem2reg.hpp 160-207).
NoAccessLeft == pc = "done" => \A i \in Placed(fn) : ~IsMemory(i)

\* The result is in SSA form: every value read is defined by an instruction
\* that is still there, on every way to the reader, and knows the reader; a
\* phi has a value from every way in, so verify_ssa refuses nothing.  A load
\* without a store before it, a phi missing at a join or a value that a
\* subtree leaves on a stack for its siblings breaks this (mem2reg.hpp
\* 141-152, 184-190, 201-206, 253-267).
LeavesSsa ==
  /\ pc # "refused"
  /\ pc = "done" =>
       /\ PhisFirst(fn)
       /\ \A i \in Placed(fn) : \A v \in Reads(fn, i) :
            v \in Placed(fn) /\ i \in Range(fn.users[v]) /\ ReadsDominated(i, v)

\* The pass ends.
Terminates == <>(pc \in {"done", "refused", "crashed"})
=============================================================================
