---------------------------- MODULE SimplifyCfg -----------------------------
(***************************************************************************)
(* Simplification of the control flow graph, analysis/simplify_cfg.hpp:    *)
(* five rewrites of the function, repeated by run() until a round of them  *)
(* changes nothing.  The rewrites that go over the blocks while they       *)
(* change them take one action per block rewritten; pc says which rewrite  *)
(* is at work and at where its loop over fn.blocks stands.                 *)
(***************************************************************************)
EXTENDS Ir

CONSTANT Functions           \* the functions the pass may be run on

VARIABLES fn,                \* the function, rewritten in place
          changed,           \* has this round changed anything?
          pc,
          at,                \* the index in fn.order of the next block
          slots, slot        \* simplify_phis: the memory of the instruction
                             \* vector it iterates over, and its iterator

vars == <<fn, changed, pc, at, slots, slot>>

-----------------------------------------------------------------------------
\* Sequences
Replaced(s, old, new) == [k \in DOMAIN s |-> IF s[k] = old THEN new ELSE s[k]]
Dropped(s, x) == Filtered(s, Range(s) \ {x})
AllButLast(s) == SubSeq(s, 1, Len(s) - 1)
LastOp(f, b) == f.code[Ins(f, b)[Len(Ins(f, b))]].op

Moved_drops(inc, b, S) == [p \in DOMAIN inc \ {b} |-> inc[p]]

\* An incoming map without block b, and with b's value moved to the blocks of S.
Moved(inc, b, S) ==
  [p \in (DOMAIN inc \ {b}) \cup S |-> IF p \in S THEN inc[b] ELSE inc[p]]

-----------------------------------------------------------------------------
\* remove_unreachable_blocks: lists and phis forget the blocks that cannot be
\* reached, and these are freed.  A phi that loses a value is taken off its
\* users, also where it still has that value from another block.
Pruned(f) ==
  LET R == Reachable(f)
      inc(i) == f.code[i].inc
      kept(i) == DOMAIN inc(i) \cap R
      prunes(i) == i \in Placed(f) /\ IsPhi(f, i) /\ kept(i) # DOMAIN inc(i)
      forgets(i, v) == prunes(i) /\ \E p \in DOMAIN inc(i) \ R : inc(i)[p] = v
      operands(i) == LET s == Filtered(f.order, kept(i))
                     IN  [n \in DOMAIN s |-> inc(i)[s[n]]]
  IN  [f EXCEPT
         !.order = Filtered(f.order, R),
         !.block = [b \in Blocks(f) |->
                      IF b \in Range(f.order)
                      THEN [f.block[b] EXCEPT !.succ = Filtered(@, R), !.pred = Filtered(@, R)]
                      ELSE f.block[b]],
         !.code = [i \in Instrs(f) |->
                     IF prunes(i)
                     THEN [f.code[i] EXCEPT !.inc = [p \in kept(i) |-> inc(i)[p]],
                                            !.args = operands(i)]
                     ELSE f.code[i]],
         !.users = [v \in Instrs(f) |->
                      Filtered(f.users[v], {i \in Range(f.users[v]) : ~forgets(i, v)})]]

\* simplify_terminators: a conditional branch whose two labels are the same
\* becomes unconditional.
TerminatorsSimplified(f) ==
  LET last(b) == Ins(f, b)[Len(Ins(f, b))]
      same(i) == /\ f.code[i].op = "cond_br" /\ f.code[i].tgt[1] = f.code[i].tgt[2]
                 /\ \E b \in Range(f.order) : HasTerminator(f, b) /\ last(b) = i
  IN  [f EXCEPT
         !.code = [i \in Instrs(f) |->
                     IF same(i)
                     THEN [f.code[i] EXCEPT !.op = "br", !.args = <<>>, !.tgt = <<@[1]>>]
                     ELSE f.code[i]],
         !.block = [b \in Blocks(f) |->
                      IF HasTerminator(f, b) /\ same(last(b))
                      THEN [f.block[b] EXCEPT !.succ = <<@[1]>>] ELSE f.block[b]],
         !.users = [v \in Instrs(f) |->
                      Filtered(f.users[v], {i \in Range(f.users[v]) :
                                              ~(same(i) /\ v \in Range(f.code[i].args))})]]

CanMerge_other_ways_in(f, b) == Len(Succ(f, b)) = 1 /\ Succ(f, b)[1] # b

\* merge_blocks: block b takes over its only successor, whose only
\* predecessor it is.
CanMerge(f, b) ==
  /\ Len(Succ(f, b)) = 1
  /\ Succ(f, b)[1] # b
  /\ Pred(f, Succ(f, b)[1]) = <<b>>

\* The parent of an instruction once b has taken over s.
NewParent_as_before(f, i, s, b) == f.code[i].parent
NewParent(f, i, s, b) == IF i \in Range(Ins(f, s)) THEN b ELSE f.code[i].parent

Merged(f, b) ==
  LET s == Succ(f, b)[1]
      body == IF HasTerminator(f, b) THEN AllButLast(Ins(f, b)) ELSE Ins(f, b)
      rekeyed(i) == /\ IsPhi(f, i) /\ s \in DOMAIN f.code[i].inc
                    /\ \E t \in Range(Succ(f, s)) : i \in Range(Ins(f, t))
  IN  [f EXCEPT
         !.block = [c \in Blocks(f) |->
           [ins |-> CASE c = b -> body \o Ins(f, s) [] c = s -> <<>> [] OTHER -> Ins(f, c),
            succ |-> CASE c = b -> Succ(f, s) [] c = s -> <<>> [] OTHER -> Succ(f, c),
            pred |-> IF c \in Range(Succ(f, s)) THEN Replaced(Pred(f, c), s, b)
                     ELSE Pred(f, c)]],
         !.code = [i \in Instrs(f) |->
           [f.code[i] EXCEPT !.parent = NewParent(f, i, s, b),
                             !.inc = IF rekeyed(i) THEN Moved(@, s, {b}) ELSE @]]]

\* Does a phi stand for more than one value?
IsChoice(f, i) == \E p, q \in DOMAIN f.code[i].inc : p # q

WithoutPhi_keeps_readers(f, b, i) ==
  [f EXCEPT !.users[i] = <<>>, !.block[b].ins = Dropped(@, i)]

\* simplify_phis: a phi with one incoming value is erased and its users read
\* that value.  Only their operands are rewritten, not their incoming maps.
\* (A phi that is its own only value would be undefined behaviour; its block
\* would be its own only predecessor.)
WithoutPhi(f, b, i) ==
  LET val == CHOOSE v \in Incoming(f, i) : TRUE
      kept == [v \in Instrs(f) |->
                 IF v \in Range(f.code[i].args) THEN Dropped(f.users[v], i) ELSE f.users[v]]
      readers == kept[i]
  IN  [f EXCEPT
         !.code = [u \in Instrs(f) |->
           [f.code[u] EXCEPT !.args = IF u = i THEN <<>>
                                      ELSE IF u \in Range(readers) THEN Replaced(@, i, val)
                                      ELSE @]],
         !.users = [kept EXCEPT ![val] = @ \o readers, ![i] = <<>>],
         !.block[b].ins = Dropped(@, i)]

\* remove_trivial_blocks: the predecessors of a block that is a single br go
\* straight to its successor.
IsTrivial(f, b) ==
  /\ Len(Ins(f, b)) = 1 /\ LastOp(f, b) = "br"
  /\ Pred(f, b) # <<>> \/ f.entry = b

\* The predecessors of the successor s once b is bypassed.
NewPred_without(f, b, s) == Dropped(Pred(f, s), b)
NewPred(f, b, s) ==
  LET left == Dropped(Pred(f, s), b)
  IN  left \o (IF s = b THEN left ELSE Pred(f, b))

\* For each predecessor the phis of the successor get the value that came
\* through b, whatever they had for it; the predecessor's list of successors
\* is rewritten (its labels are not: replace_successor changes a copy).
Bypassed(f, b) ==
  LET s == Succ(f, b)[1]
      from == Range(Pred(f, b))
      moves(i) == /\ i \in Range(Ins(f, s)) /\ IsPhi(f, i) /\ b \in DOMAIN f.code[i].inc
      movers(v) == Filtered(Ins(f, s), {i \in Range(Ins(f, s)) :
                                          moves(i) /\ f.code[i].inc[b] = v})
      gained(v) == IF from = {} THEN <<>> ELSE movers(v)
  IN  [f EXCEPT
         !.entry = IF @ = b THEN s ELSE @,
         !.code = [i \in Instrs(f) |->
                     IF moves(i) THEN [f.code[i] EXCEPT !.inc = Moved(@, b, from)]
                     ELSE f.code[i]],
         !.users = [v \in Instrs(f) |-> f.users[v] \o gained(v)],
         !.block = [c \in Blocks(f) |->
           [f.block[c] EXCEPT
              !.succ = IF c \in from THEN Replaced(@, b, s) ELSE @,
              !.pred = IF c = s THEN NewPred(f, b, s) ELSE @]]]

-----------------------------------------------------------------------------
\* The assertions of remove_trivial_blocks and replace_successor.  A block
\* that branches to itself is its own successor and the loop over its
\* predecessors appends to the list it reads; the block before a loop falls
\* through into it, so an assertion stops that unless none is left.
BypassAsserts(f, b) ==
  \/ Len(Succ(f, b)) # 1
  \/ \E p \in Range(Pred(f, b)) \ {b} :
       ~(Ins(f, p) # <<>> /\ LastOp(f, p) \in {"br", "cond_br"})

\* The indices, from at on, of the blocks that can be merged or bypassed.
Mergeable == {k \in at .. Len(fn.order) : CanMerge(fn, fn.order[k])}
Bypassable == {k \in at .. Len(fn.order) : IsTrivial(fn, fn.order[k])}
First(S) == {k \in S : \A j \in S : k <= j}

\* The slots from the iterator on that hold a phi to erase.
Erasable == {k \in slot .. Len(slots) :
               IsPhi(fn, slots[k]) /\ ~IsChoice(fn, slots[k])}

\* The assertion of simplify_phis: the phi in slot k has no value at all.
PhiAsserts(k) == DOMAIN fn.code[slots[k]].inc = {}

InstrsAt(k) == IF k <= Len(fn.order) THEN Ins(fn, fn.order[k]) ELSE <<>>

Init ==
  /\ fn \in Functions
  /\ changed = FALSE
  /\ pc = "unreachable"
  /\ at = 1
  /\ slots = <<>> /\ slot = 1

RemoveUnreachableBlocks_no_reset ==
  /\ pc = "unreachable"
  /\ fn' = Pruned(fn)
  /\ changed' = (changed \/ fn' # fn)
  /\ pc' = "terminators"
  /\ UNCHANGED <<at, slots, slot>>

RemoveUnreachableBlocks ==
  /\ pc = "unreachable"
  /\ fn' = Pruned(fn)
  /\ changed' = (fn' # fn)
  /\ pc' = "terminators"
  /\ UNCHANGED <<at, slots, slot>>

SimplifyTerminators ==
  /\ pc = "terminators"
  /\ fn' = TerminatorsSimplified(fn)
  /\ changed' = (changed \/ fn' # fn)
  /\ pc' = "merge" /\ at' = 1
  /\ UNCHANGED <<slots, slot>>

MergeBlock ==
  /\ pc = "merge"
  /\ \E k \in First(Mergeable) :
       fn' = Merged(fn, fn.order[k]) /\ at' = k + 1
  /\ changed' = TRUE
  /\ UNCHANGED <<pc, slots, slot>>

MergeDone ==
  /\ pc = "merge" /\ Mergeable = {}
  /\ pc' = "phis" /\ at' = 1
  /\ slots' = InstrsAt(1) /\ slot' = 1
  /\ UNCHANGED <<fn, changed>>

\* Erasing shifts the vector under the iterator: the instruction after the
\* phi is skipped and the last slot keeps what it held.
ErasePhi ==
  /\ pc = "phis"
  /\ \E k \in First(Erasable) :
       /\ ~PhiAsserts(k)
       /\ fn' = WithoutPhi(fn, fn.order[at], slots[k])
       /\ LET now == Ins(fn', fn.order[at])
          IN  slots' = [j \in DOMAIN slots |-> IF j <= Len(now) THEN now[j] ELSE slots[j]]
       /\ slot' = k + 1
  /\ changed' = TRUE
  /\ UNCHANGED <<pc, at>>

NextBlockOfPhis ==
  /\ pc = "phis" /\ Erasable = {} /\ at <= Len(fn.order)
  /\ at' = at + 1
  /\ slots' = InstrsAt(at + 1) /\ slot' = 1
  /\ UNCHANGED <<fn, changed, pc>>

PhisDone ==
  /\ pc = "phis" /\ at > Len(fn.order)
  /\ pc' = "trivial" /\ at' = 1
  /\ UNCHANGED <<fn, changed, slots, slot>>

BypassBlock ==
  /\ pc = "trivial"
  /\ \E k \in First(Bypassable) :
       /\ ~BypassAsserts(fn, fn.order[k])
       /\ fn' = Bypassed(fn, fn.order[k]) /\ at' = k + 1
  /\ changed' = TRUE
  /\ UNCHANGED <<pc, slots, slot>>

RoundDone_one_round ==
  /\ pc = "trivial" /\ Bypassable = {}
  /\ pc' = "done" /\ at' = 1
  /\ UNCHANGED <<fn, changed, slots, slot>>

\* The end of a round.
RoundDone ==
  /\ pc = "trivial" /\ Bypassable = {}
  /\ pc' = IF changed THEN "unreachable" ELSE "done"
  /\ at' = 1
  /\ UNCHANGED <<fn, changed, slots, slot>>

Abort ==
  /\ \/ pc = "phis" /\ \E k \in First(Erasable) : PhiAsserts(k)
     \/ pc = "trivial" /\ \E k \in First(Bypassable) :
                            BypassAsserts(fn, fn.order[k])
  /\ pc' = "aborted"
  /\ UNCHANGED <<fn, changed, at, slots, slot>>

Terminated == pc \in {"done", "aborted"} /\ UNCHANGED vars

Next == \/ RemoveUnreachableBlocks \/ SimplifyTerminators
        \/ MergeBlock \/ MergeDone \/ ErasePhi \/ NextBlockOfPhis \/ PhisDone
        \/ BypassBlock \/ RoundDone \/ Abort \/ Terminated

Spec == Init /\ [][Next]_vars /\ WF_vars(Next)
-----------------------------------------------------------------------------
\* A phi has a value for every way into its block, unless merge_blocks has
\* moved it: its only value then comes from the block it stands in.
PhisComplete(f) ==
  \A b \in Reachable(f) : \A s \in Range(Succ(f, b)) : \A i \in Range(Ins(f, s)) :
    IsPhi(f, i) /\ DOMAIN f.code[i].inc # {s} => b \in DOMAIN f.code[i].inc

ASSUME FunctionsAssumption ==
  \A f \in Functions :
    IsFunction(f) /\ BranchesResolved(f) /\ Linked(f) /\ PhisComplete(f)

\* A branch whose two labels are the same has the same successor twice.
LabelsNameBlocks(f) ==
  \A b \in Range(f.order) : \A i \in Range(Ins(f, b)) :
    f.code[i].op = "cond_br" /\ f.code[i].tgt[1] = f.code[i].tgt[2] =>
      Succ(f, b)[1] = Succ(f, b)[2]

\* A block that does nothing but choose where to go, and one that goes on
\* to the next block without a branch.
IsHollow(f, b) == \A i \in Range(Ins(f, b)) : IsPhi(f, i) \/ IsTerminator(f.code[i].op)
FallsThrough(f, b) == \A i \in Range(Ins(f, b)) : f.code[i].op \notin {"br", "cond_br"}

\* Blocks that lead from each to another and back.
IsRing(f, C) ==
  /\ C # {}
  /\ \A b \in C : \E c \in C : c \in Range(Succ(f, b))
  /\ \A b \in C : \E c \in C : b \in Range(Succ(f, c))

\* A loop that does nothing at all is entered from a block that falls through
\* into it, as the code before a loop does; a bypass that reached the last block
\* of such a loop would cut it off from itself (loop { } alone in a function).
EmptyLoopsAreEntered(f) ==
  \A C \in SUBSET {b \in Reachable(f) : IsHollow(f, b)} :
    IsRing(f, C) =>
      \E p \in Reachable(f) \ C : FallsThrough(f, p) /\ Range(Succ(f, p)) \cap C # {}

ASSUME LoopsAssumption ==
  \A f \in Functions : LabelsNameBlocks(f) /\ EmptyLoopsAreEntered(f)

TypeOK ==
  /\ IsFunction(fn)
  /\ \A b \in Blocks(fn) : \A i \in Range(Ins(fn, b)) : fn.code[i].parent = b
  /\ changed \in BOOLEAN
  /\ pc \in {"unreachable", "terminators", "merge", "phis", "trivial", "done", "aborted"}
  /\ at \in 1 .. Len(fn.order) + 1
  /\ slots \in Seq(Instrs(fn)) /\ slot \in 1 .. Len(slots) + 1

\* Whatever has been merged, bypassed and freed so far, succ and pred still
\* fit together: a rewrite that misses one side leaves a pointer to a freed
\* block or merges a block that has another way in (simplify_cfg.hpp 19-23,
\* 98-100, 171-176).
StaysLinked == Linked(fn)

\* A phi keeps a value for every way in while edges are moved from one block
\* to another under it (simplify_cfg.hpp 101-110, 156-169).
PhisStayComplete == PhisComplete(fn)

\* Whatever an instruction reads is defined in a block: before a phi is
\* erased the users list has led to every reader, and a freed block took none
\* of the definitions with it (simplify_cfg.hpp 31, 134-136, 167).
NothingDangles ==
  \A b \in Reachable(fn) : \A i \in Range(Ins(fn, b)) : Reads(fn, i) \subseteq Placed(fn)

\* When a round reports no change there is nothing left to do, although each
\* rewrite looks at a block or a phi once and skips some (simplify_cfg.hpp
\* 186-196).
NothingLeft ==
  pc = "done" =>
    /\ Pruned(fn) = fn
    /\ \A b \in Range(fn.order) :
         /\ ~CanMerge(fn, b) /\ ~IsTrivial(fn, b)
         /\ \A i \in Range(Ins(fn, b)) : IsPhi(fn, i) => IsChoice(fn, i)

\* The rounds come to an end.
Terminates == <>(pc \in {"done", "aborted"})
=============================================================================
