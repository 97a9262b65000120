--------------------------- MODULE SimplifyProofs ---------------------------
(***************************************************************************)
(* Control flow simplification keeps the function well formed and its      *)
(* lists of successors and predecessors fitting together, at every step    *)
(* and for every function.                                                 *)
(***************************************************************************)
EXTENDS SimplifyCfg, Facts

LEMMA ReplacedFacts ==
  ASSUME NEW T, NEW s \in Seq(T), NEW old, NEW new \in T
  PROVE  /\ Replaced(s, old, new) \in Seq(T)
         /\ Len(Replaced(s, old, new)) = Len(s)
         /\ \A k \in 1 .. Len(s) :
              Replaced(s, old, new)[k] = IF s[k] = old THEN new ELSE s[k]
         /\ Range(s) \ {old} \subseteq Range(Replaced(s, old, new))
         /\ Range(Replaced(s, old, new)) \subseteq (Range(s) \ {old}) \cup {new}
         /\ old \in Range(s) => new \in Range(Replaced(s, old, new))
         /\ old \notin Range(s) => Range(Replaced(s, old, new)) = Range(s)
<1> DEFINE r == Replaced(s, old, new)
           L == Len(s)
<1>1. DOMAIN s = 1 .. L /\ L \in Nat /\ \A k \in 1 .. L : s[k] \in T
  OBVIOUS
<1>2. r = [k \in 1 .. L |-> IF s[k] = old THEN new ELSE s[k]]
  BY <1>1 DEF Replaced
<1> HIDE DEF r, L
<1>3. r \in [1 .. L -> T] /\ DOMAIN r = 1 .. L
  BY <1>1, <1>2
<1>4. r \in Seq(T) /\ Len(r) = L
  BY <1>1, <1>3
<1>5. \A k \in 1 .. L : r[k] = IF s[k] = old THEN new ELSE s[k]
  BY <1>2
<1>6. /\ Range(s) \ {old} \subseteq Range(r)
      /\ Range(r) \subseteq (Range(s) \ {old}) \cup {new}
      /\ old \in Range(s) => new \in Range(r)
      /\ old \notin Range(s) => Range(r) = Range(s)
  BY <1>1, <1>3, <1>5 DEF Range
<1> QED
  BY <1>4, <1>5, <1>6 DEF r, L

LEMMA AllButLastFacts ==
  ASSUME NEW T, NEW s \in Seq(T), s # <<>>
  PROVE  /\ AllButLast(s) \in Seq(T) /\ Len(AllButLast(s)) = Len(s) - 1
         /\ \A k \in 1 .. Len(s) - 1 : AllButLast(s)[k] = s[k]
         /\ Range(AllButLast(s)) \subseteq Range(s)
         /\ Range(s) \subseteq Range(AllButLast(s)) \cup {s[Len(s)]}
<1> DEFINE r == AllButLast(s)
           L == Len(s)
<1>1. L \in Nat \ {0} /\ DOMAIN s = 1 .. L
  OBVIOUS
<1>2. r \in Seq(T) /\ Len(r) = L - 1 /\ \A k \in 1 .. L - 1 : r[k] = s[k]
  BY <1>1 DEF AllButLast
<1>3. DOMAIN r = 1 .. L - 1
  BY <1>2
<1> HIDE DEF r, L
<1>4. \A k \in 1 .. L - 1 : k \in 1 .. L
  BY <1>1
<1>5. \A k \in 1 .. L : k \in 1 .. L - 1 \/ k = L
  BY <1>1
<1>6. Range(r) \subseteq Range(s)
  BY <1>1, <1>2, <1>3, <1>4 DEF Range
<1>7. Range(s) \subseteq Range(r) \cup {s[L]}
  BY <1>1, <1>2, <1>3, <1>5 DEF Range
<1> QED
  BY <1>2, <1>6, <1>7 DEF r, L

-----------------------------------------------------------------------------
\* Every block holds its own instructions.
InOwnBlock(f) == \A b \in Blocks(f) : \A i \in Range(Ins(f, b)) : f.code[i].parent = b

\* What remove_unreachable_blocks leaves of the blocks and the instructions.
LEMMA PrunedParts ==
  ASSUME NEW f, IsFunction(f), ListsClosed(f)
  PROVE  LET g == Pruned(f)
             R == Reachable(f)
         IN  /\ IsFunction(g)
             /\ Blocks(g) = Blocks(f) /\ Instrs(g) = Instrs(f)
             /\ g.entry = f.entry /\ g.order = Filtered(f.order, R)
             /\ \A b \in Blocks(f) : Ins(g, b) = Ins(f, b)
             /\ \A b \in Range(f.order) : /\ Succ(g, b) = Filtered(Succ(f, b), R)
                                          /\ Pred(g, b) = Filtered(Pred(f, b), R)
             /\ \A i \in Instrs(f) : /\ g.code[i].op = f.code[i].op
                                     /\ g.code[i].tgt = f.code[i].tgt
                                     /\ g.code[i].parent = f.code[i].parent
<1> DEFINE g == Pruned(f)
           R == Reachable(f)
           B == Blocks(f)
           I == Instrs(f)
           inc(i) == f.code[i].inc
           kept(i) == DOMAIN inc(i) \cap R
           prunes(i) == i \in Placed(f) /\ IsPhi(f, i) /\ kept(i) # DOMAIN inc(i)
           forgets(i, v) == prunes(i) /\ \E p \in DOMAIN inc(i) \ R : inc(i)[p] = v
           operands(i) == LET s == Filtered(f.order, kept(i))
                          IN  [n \in DOMAIN s |-> inc(i)[s[n]]]
           block == [b \in B |->
                       IF b \in Range(f.order)
                       THEN [f.block[b] EXCEPT !.succ = Filtered(@, R), !.pred = Filtered(@, R)]
                       ELSE f.block[b]]
           code == [i \in I |->
                      IF prunes(i)
                      THEN [f.code[i] EXCEPT !.inc = [p \in kept(i) |-> inc(i)[p]],
                                             !.args = operands(i)]
                      ELSE f.code[i]]
           users == [v \in I |->
                       Filtered(f.users[v], {i \in Range(f.users[v]) : ~forgets(i, v)})]
<1>1. g = [f EXCEPT !.order = Filtered(f.order, R), !.block = block, !.code = code,
                    !.users = users]
  BY DEF Pruned
<1>2. /\ DOMAIN f = {"entry", "order", "block", "code", "users"}
      /\ f.entry \in B /\ f.order \in Seq(B) /\ Range(f.order) \subseteq B
      /\ f.users \in [I -> Seq(I)]
      /\ f.block \in [B -> [ins : Seq(I), succ : Seq(B), pred : Seq(B)]]
      /\ \A i \in I : IsCode(f, i)
  BY FunctionParts
<1> HIDE DEF g, block, code, users, R, B, I, operands, kept, prunes, forgets
<1>3. /\ DOMAIN g = DOMAIN f
      /\ g.entry = f.entry /\ g.order = Filtered(f.order, R)
      /\ g.block = block /\ g.code = code /\ g.users = users
  BY <1>1, <1>2
<1>4. /\ block \in [B -> [ins : Seq(I), succ : Seq(B), pred : Seq(B)]]
      /\ \A b \in B : block[b].ins = f.block[b].ins
      /\ \A b \in Range(f.order) : /\ block[b].succ = Filtered(f.block[b].succ, R)
                                   /\ block[b].pred = Filtered(f.block[b].pred, R)
  <2>1. \A s \in Seq(B) : Filtered(s, R) \in Seq(B)
    BY FilteredFacts
  <2> QED
    BY <1>2, <2>1 DEF block
<1>5. users \in [I -> Seq(I)]
  <2>1. ASSUME NEW v \in I
        PROVE  Filtered(f.users[v], {i \in Range(f.users[v]) : ~forgets(i, v)}) \in Seq(I)
    <3>1. f.users[v] \in Seq(I)
      BY <1>2
    <3> QED
      BY <3>1, FilteredFacts
  <2> QED
    BY <2>1 DEF users
<1>6. Filtered(f.order, R) \in Seq(B)
  BY <1>2, FilteredFacts
<1>7. ASSUME NEW i \in I
      PROVE  /\ DOMAIN code[i] = DOMAIN f.code[i]
             /\ code[i].op = f.code[i].op /\ code[i].tgt = f.code[i].tgt
             /\ code[i].ty = f.code[i].ty /\ code[i].k = f.code[i].k
             /\ code[i].parent = f.code[i].parent
             /\ code[i].args \in Seq(I)
             /\ DOMAIN code[i].inc \subseteq B /\ Range(code[i].inc) \subseteq I
  <2>1. /\ DOMAIN f.code[i] = {"op", "ty", "args", "k", "tgt", "inc", "parent"}
        /\ f.code[i].args \in Seq(I)
        /\ DOMAIN inc(i) \subseteq B /\ Range(inc(i)) \subseteq I
    BY <1>2 DEF IsCode, B, I
  <2>2. CASE prunes(i)
    <3> DEFINE d == [p \in kept(i) |-> inc(i)[p]]
    <3>1. code[i] = [f.code[i] EXCEPT !.inc = d, !.args = operands(i)]
      BY <2>2 DEF code
    <3>2. DOMAIN d \subseteq B /\ Range(d) \subseteq I
      BY <2>1 DEF kept, Range
    <3>3. operands(i) \in Seq(I)
      <4> DEFINE s == Filtered(f.order, kept(i))
      <4>1. s \in Seq(B) /\ Range(s) \subseteq kept(i)
        BY <1>2, FilteredFacts
      <4>2. \A n \in DOMAIN s : s[n] \in kept(i)
        BY <4>1 DEF Range
      <4>3. \A p \in kept(i) : inc(i)[p] \in I
        BY <2>1 DEF kept, Range
      <4>4. operands(i) = [n \in DOMAIN s |-> inc(i)[s[n]]] /\ DOMAIN s = 1 .. Len(s) /\ Len(s) \in Nat
        BY <4>1 DEF operands
      <4> HIDE DEF s
      <4>5. operands(i) \in [1 .. Len(s) -> I]
        BY <4>2, <4>3, <4>4
      <4> QED
        BY <4>4, <4>5
    <3> HIDE DEF d
    <3> QED
      BY <2>1, <3>1, <3>2, <3>3
  <2>3. CASE ~ prunes(i)
    <3>1. code[i] = f.code[i]
      BY <2>3 DEF code
    <3> QED
      BY <2>1, <3>1
  <2> QED
    BY <2>2, <2>3
<1>8. /\ Blocks(g) = B /\ Instrs(g) = I
      /\ \A b \in B : Ins(g, b) = block[b].ins /\ Succ(g, b) = block[b].succ
                      /\ Pred(g, b) = block[b].pred
  BY <1>3, <1>4 DEF Blocks, Instrs, Ins, Succ, Pred, code
<1>9. IsFunction(g)
  <2>1. \A i \in I : IsCode(g, i)
    BY <1>2, <1>3, <1>7, <1>8 DEF IsCode, B, I
  <2> QED
    BY <1>2, <1>3, <1>4, <1>5, <1>6, <1>8, <2>1 DEF IsFunction, Blocks, Instrs
<1> QED
  BY <1>2, <1>3, <1>4, <1>7, <1>8, <1>9 DEF g, B, I, R, Ins, Succ, Pred

-----------------------------------------------------------------------------
\* A branch is the last instruction of its block, and a conditional branch
\* has two successors.
BranchesLast(f) ==
  \A b \in Range(f.order) : \A k \in 1 .. Len(Ins(f, b)) - 1 :
    f.code[Ins(f, b)[k]].op \notin {"br", "cond_br"}

TwoWays(f) ==
  \A b \in Range(f.order) : \A i \in Range(Ins(f, b)) :
    f.code[i].op = "cond_br" => Len(Succ(f, b)) = 2

\* The inductive invariant of the function: what StaysLinked rests on.
WellLinked(f) ==
  /\ IsFunction(f) /\ InOwnBlock(f) /\ Linked(f)
  /\ BranchesLast(f) /\ TwoWays(f) /\ LabelsNameBlocks(f)
  /\ EmptyLoopsAreEntered(f)

\* A rewrite that leaves the edges of the reachable blocks alone.
LEMMA SameEdges ==
  ASSUME NEW f, NEW g, ListsClosed(f), ListsClosed(g), g.entry = f.entry,
         \A b \in Reachable(f) : Range(Succ(g, b)) = Range(Succ(f, b))
  PROVE  Reachable(g) = Reachable(f)
<1>1. Reachable(g) \subseteq Reachable(f)
  <2> DEFINE X == Reachable(f)
  <2>1. g.entry \in X /\ \A b \in X : Range(Succ(g, b)) \subseteq X
    BY ReachableFacts
  <2> HIDE DEF X
  <2>2. Reachable(g) \subseteq X
    BY <2>1, ReachableIsLeast
  <2> QED
    BY <2>2 DEF X
<1>2. Reachable(f) \subseteq Reachable(g)
  <2> DEFINE X == Reachable(f) \cap Reachable(g)
  <2>1. f.entry \in X
    BY ReachableFacts
  <2>2. ASSUME NEW b \in X PROVE Range(Succ(f, b)) \subseteq X
    <3>1. Range(Succ(f, b)) \subseteq Reachable(f)
      BY ReachableFacts
    <3>2. Range(Succ(g, b)) \subseteq Reachable(g)
      BY ReachableFacts
    <3> QED
      BY <3>1, <3>2
  <2> HIDE DEF X
  <2>3. Reachable(f) \subseteq X
    BY <2>1, <2>2, ReachableIsLeast
  <2> QED
    BY <2>3 DEF X
<1> QED
  BY <1>1, <1>2

LEMMA RingsKept ==
  ASSUME NEW f, NEW g, Reachable(g) = Reachable(f), EmptyLoopsAreEntered(f),
         \A b \in Reachable(f) :
           /\ Range(Succ(g, b)) = Range(Succ(f, b))
           /\ IsHollow(g, b) => IsHollow(f, b)
           /\ FallsThrough(f, b) => FallsThrough(g, b)
  PROVE  EmptyLoopsAreEntered(g)
<1> SUFFICES ASSUME NEW C \in SUBSET {b \in Reachable(g) : IsHollow(g, b)}, IsRing(g, C)
             PROVE  \E p \in Reachable(g) \ C :
                      FallsThrough(g, p) /\ Range(Succ(g, p)) \cap C # {}
  BY DEF EmptyLoopsAreEntered
<1>1. C \in SUBSET {b \in Reachable(f) : IsHollow(f, b)}
  OBVIOUS
<1>2. IsRing(f, C)
  BY <1>1 DEF IsRing
<1>3. PICK p \in Reachable(f) \ C : FallsThrough(f, p) /\ Range(Succ(f, p)) \cap C # {}
  BY <1>1, <1>2 DEF EmptyLoopsAreEntered
<1> QED
  BY <1>3

\* remove_unreachable_blocks keeps the function well linked.
LEMMA PrunedWellLinked ==
  ASSUME NEW f, WellLinked(f)
  PROVE  WellLinked(Pruned(f)) /\ Len(Pruned(f).order) \in Nat
<1> DEFINE g == Pruned(f)
           R == Reachable(f)
<1>1. IsFunction(f) /\ Linked(f) /\ ListsClosed(f)
  BY ListsAreClosed DEF WellLinked
<1>2. /\ IsFunction(g)
      /\ Blocks(g) = Blocks(f) /\ Instrs(g) = Instrs(f)
      /\ g.entry = f.entry /\ g.order = Filtered(f.order, R)
      /\ \A b \in Blocks(f) : Ins(g, b) = Ins(f, b)
      /\ \A b \in Range(f.order) : /\ Succ(g, b) = Filtered(Succ(f, b), R)
                                   /\ Pred(g, b) = Filtered(Pred(f, b), R)
      /\ \A i \in Instrs(f) : /\ g.code[i].op = f.code[i].op
                              /\ g.code[i].tgt = f.code[i].tgt
                              /\ g.code[i].parent = f.code[i].parent
  BY <1>1, PrunedParts
<1>3. /\ f.entry \in R /\ R \subseteq Range(f.order)
      /\ \A b \in R : Range(Succ(f, b)) \subseteq R
  BY <1>1, ReachableFacts
<1>4. /\ f.order \in Seq(Blocks(f)) /\ Range(f.order) \subseteq Blocks(f)
      /\ \A b \in Blocks(f) : /\ Ins(f, b) \in Seq(Instrs(f)) /\ Succ(f, b) \in Seq(Blocks(f))
                              /\ Pred(f, b) \in Seq(Blocks(f))
  BY <1>1, FunctionParts
<1>5. \A b \in Blocks(f) : \A k \in 1 .. Len(Ins(f, b)) : Ins(f, b)[k] \in Range(Ins(f, b))
  BY <1>4 DEF Range
<1>6. \A b \in Blocks(f) : Range(Ins(f, b)) \subseteq Instrs(f)
  BY <1>4 DEF Range
<1> HIDE DEF g, R
<1>7. Range(g.order) = R
  <2>1. Range(Filtered(f.order, R)) = Range(f.order) \cap R
    BY <1>4, FilteredFacts
  <2> QED
    BY <1>2, <1>3, <2>1
<1>8. \A b \in R : b \in Range(f.order) /\ b \in Blocks(f)
  BY <1>3, <1>4
<1>9. ASSUME NEW b \in R
      PROVE  Succ(g, b) = Succ(f, b) /\ Range(Pred(g, b)) = Range(Pred(f, b)) \cap R
  <2>1. Succ(f, b) \in Seq(Blocks(f)) /\ Pred(f, b) \in Seq(Blocks(f))
    BY <1>4, <1>8
  <2>2. Range(Succ(f, b)) \subseteq R
    BY <1>3
  <2>3. Filtered(Succ(f, b), R) = Succ(f, b)
    BY <2>1, <2>2, FilteredAll
  <2>4. Range(Filtered(Pred(f, b), R)) = Range(Pred(f, b)) \cap R
    BY <2>1, FilteredFacts
  <2> QED
    BY <1>2, <1>8, <2>3, <2>4
<1>10. ListsClosed(g)
  <2>1. g.order \in Seq(Blocks(g))
    BY <1>2, FunctionParts
  <2> QED
    BY <1>2, <1>3, <1>7, <1>9, <2>1 DEF ListsClosed
<1>11. Reachable(g) = R
  BY <1>1, <1>2, <1>9, <1>10, SameEdges DEF R
<1>12. Linked(g)
  <2>1. \A b \in R : Range(Succ(g, b)) \cup Range(Pred(g, b)) \subseteq R
    BY <1>3, <1>9
  <2>2. \A b \in R : \A s \in Range(Succ(g, b)) : b \in Range(Pred(g, s))
    <3>1. \A b \in R : \A s \in Range(Succ(f, b)) : b \in Range(Pred(f, s))
      BY <1>1 DEF Linked, R
    <3> QED
      BY <1>3, <1>9, <3>1
  <2> QED
    BY <1>2, <1>3, <1>7, <1>11, <2>1, <2>2 DEF Linked
<1>13. InOwnBlock(g)
  BY <1>2, <1>6 DEF InOwnBlock, WellLinked
<1>14. BranchesLast(g)
  <2> SUFFICES ASSUME NEW b \in R, NEW k \in 1 .. Len(Ins(g, b)) - 1
               PROVE  g.code[Ins(g, b)[k]].op \notin {"br", "cond_br"}
    BY <1>7 DEF BranchesLast
  <2>1. Ins(g, b) = Ins(f, b) /\ Len(Ins(f, b)) \in Nat
    BY <1>2, <1>4, <1>8
  <2>2. k \in 1 .. Len(Ins(f, b)) /\ k \in 1 .. Len(Ins(f, b)) - 1
    BY <2>1
  <2>3. Ins(f, b)[k] \in Instrs(f)
    BY <1>5, <1>6, <1>8, <2>2
  <2>4. f.code[Ins(f, b)[k]].op \notin {"br", "cond_br"}
    BY <1>8, <2>2 DEF BranchesLast, WellLinked
  <2> QED
    BY <1>2, <2>1, <2>3, <2>4
<1>15. ASSUME NEW b \in R, NEW i \in Range(Ins(g, b))
       PROVE  /\ i \in Range(Ins(f, b)) /\ b \in Range(f.order)
              /\ g.code[i].op = f.code[i].op /\ g.code[i].tgt = f.code[i].tgt
  BY <1>2, <1>6, <1>8
<1>16. TwoWays(g)
  <2> SUFFICES ASSUME NEW b \in R, NEW i \in Range(Ins(g, b)), g.code[i].op = "cond_br"
               PROVE  Len(Succ(g, b)) = 2
    BY <1>7 DEF TwoWays
  <2> QED
    BY <1>9, <1>15 DEF TwoWays, WellLinked
<1>17. LabelsNameBlocks(g)
  <2> SUFFICES ASSUME NEW b \in R, NEW i \in Range(Ins(g, b)), g.code[i].op = "cond_br",
                      g.code[i].tgt[1] = g.code[i].tgt[2]
               PROVE  Succ(g, b)[1] = Succ(g, b)[2]
    BY <1>7 DEF LabelsNameBlocks
  <2> QED
    BY <1>9, <1>15 DEF LabelsNameBlocks, WellLinked
<1>18. EmptyLoopsAreEntered(g)
  <2>1. \A b \in R : /\ Range(Succ(g, b)) = Range(Succ(f, b))
                     /\ IsHollow(g, b) => IsHollow(f, b)
                     /\ FallsThrough(f, b) => FallsThrough(g, b)
    BY <1>2, <1>6, <1>8, <1>9 DEF IsHollow, FallsThrough, IsPhi
  <2>2. EmptyLoopsAreEntered(f)
    BY DEF WellLinked
  <2> QED
    BY <1>11, <2>1, <2>2, RingsKept DEF R
<1>19. Len(g.order) \in Nat
  BY <1>10 DEF ListsClosed
<1> QED
  BY <1>2, <1>12, <1>13, <1>14, <1>16, <1>17, <1>18, <1>19 DEF WellLinked, g

-----------------------------------------------------------------------------
\* What simplify_terminators leaves of the blocks and the instructions.
LastIn(f, b) == Ins(f, b)[Len(Ins(f, b))]
HasSameLabels(f, i) ==
  /\ f.code[i].op = "cond_br" /\ f.code[i].tgt[1] = f.code[i].tgt[2]
  /\ \E b \in Range(f.order) : HasTerminator(f, b) /\ LastIn(f, b) = i

LEMMA TerminatorsParts ==
  ASSUME NEW f, IsFunction(f), InOwnBlock(f), TwoWays(f)
  PROVE  LET g == TerminatorsSimplified(f)
         IN  /\ IsFunction(g)
             /\ Blocks(g) = Blocks(f) /\ Instrs(g) = Instrs(f)
             /\ g.entry = f.entry /\ g.order = f.order
             /\ \A b \in Blocks(f) :
                  /\ Ins(g, b) = Ins(f, b) /\ Pred(g, b) = Pred(f, b)
                  /\ \/ Succ(g, b) = Succ(f, b)
                     \/ /\ Succ(g, b) = <<Succ(f, b)[1]>>
                        /\ LastIn(f, b) \in Range(Ins(f, b))
                        /\ HasSameLabels(f, LastIn(f, b))
             /\ \A i \in Instrs(f) :
                  /\ g.code[i].parent = f.code[i].parent
                  /\ \/ g.code[i].op = f.code[i].op /\ g.code[i].tgt = f.code[i].tgt
                     \/ g.code[i].op = "br" /\ HasSameLabels(f, i)
                  /\ HasSameLabels(f, i) => g.code[i].op = "br"
<1> DEFINE g == TerminatorsSimplified(f)
           B == Blocks(f)
           I == Instrs(f)
           same(i) == HasSameLabels(f, i)
           code == [i \in I |->
                      IF same(i)
                      THEN [f.code[i] EXCEPT !.op = "br", !.args = <<>>, !.tgt = <<@[1]>>]
                      ELSE f.code[i]]
           block == [b \in B |->
                       IF HasTerminator(f, b) /\ same(LastIn(f, b))
                       THEN [f.block[b] EXCEPT !.succ = <<@[1]>>] ELSE f.block[b]]
           users == [v \in I |->
                       Filtered(f.users[v], {i \in Range(f.users[v]) :
                                               ~(same(i) /\ v \in Range(f.code[i].args))})]
<1>1. g = [f EXCEPT !.code = code, !.block = block, !.users = users]
  BY DEF TerminatorsSimplified, HasSameLabels, LastIn
<1>2. /\ DOMAIN f = {"entry", "order", "block", "code", "users"}
      /\ f.entry \in B /\ f.order \in Seq(B) /\ Range(f.order) \subseteq B
      /\ f.users \in [I -> Seq(I)]
      /\ f.block \in [B -> [ins : Seq(I), succ : Seq(B), pred : Seq(B)]]
      /\ \A i \in I : IsCode(f, i)
  BY FunctionParts
<1> HIDE DEF g, block, code, users, B, I, same
<1>3. /\ DOMAIN g = DOMAIN f
      /\ g.entry = f.entry /\ g.order = f.order
      /\ g.block = block /\ g.code = code /\ g.users = users
  BY <1>1, <1>2
<1>3a. ASSUME NEW b \in B, HasTerminator(f, b)
       PROVE  LastIn(f, b) \in Range(Ins(f, b)) /\ LastIn(f, b) \in I
  <2>1. Ins(f, b) \in Seq(I) /\ Ins(f, b) # <<>>
    BY <1>2, <1>3a DEF HasTerminator, Ins
  <2> DEFINE s == Ins(f, b)
  <2>2. Len(s) \in DOMAIN s /\ s[Len(s)] \in I
    BY <2>1
  <2> QED
    BY <2>2 DEF Range, LastIn
<1>3b. ASSUME NEW b \in B, HasTerminator(f, b), same(LastIn(f, b))
       PROVE  f.block[b].succ[1] \in B
  <2>1. PICK c \in Range(f.order) : HasTerminator(f, c) /\ LastIn(f, c) = LastIn(f, b)
    BY <1>3b DEF same, HasSameLabels
  <2>2. c \in B
    BY <1>2
  <2>3. c = b
    BY <1>3a, <1>3b, <2>1, <2>2 DEF InOwnBlock, B
  <2>4. Len(Succ(f, b)) = 2
    BY <1>3a, <1>3b, <2>1, <2>3 DEF TwoWays, same, HasSameLabels
  <2>5. f.block[b].succ \in Seq(B)
    BY <1>2
  <2> QED
    BY <2>4, <2>5 DEF Succ
<1>4. ASSUME NEW b \in B
      PROVE  /\ block[b] \in [ins : Seq(I), succ : Seq(B), pred : Seq(B)]
             /\ block[b].ins = f.block[b].ins /\ block[b].pred = f.block[b].pred
             /\ \/ block[b].succ = f.block[b].succ
                \/ /\ block[b].succ = <<f.block[b].succ[1]>>
                   /\ HasTerminator(f, b) /\ same(LastIn(f, b))
  <2>1. f.block[b] \in [ins : Seq(I), succ : Seq(B), pred : Seq(B)]
    BY <1>2
  <2>2. CASE HasTerminator(f, b) /\ same(LastIn(f, b))
    <3>1. block[b] = [f.block[b] EXCEPT !.succ = <<f.block[b].succ[1]>>]
      BY <2>2 DEF block
    <3>2. <<f.block[b].succ[1]>> \in Seq(B)
      BY <1>3b, <2>2
    <3> QED
      BY <2>1, <2>2, <3>1, <3>2
  <2>3. CASE ~(HasTerminator(f, b) /\ same(LastIn(f, b)))
    <3>1. block[b] = f.block[b]
      BY <2>3 DEF block
    <3> QED
      BY <2>1, <3>1
  <2> QED
    BY <2>2, <2>3
<1>5. users \in [I -> Seq(I)]
  <2>1. ASSUME NEW v \in I, NEW S PROVE Filtered(f.users[v], S) \in Seq(I)
    <3>1. f.users[v] \in Seq(I)
      BY <1>2
    <3> QED
      BY <3>1, FilteredFacts
  <2> QED
    BY <2>1 DEF users
<1>6. block \in [B -> [ins : Seq(I), succ : Seq(B), pred : Seq(B)]]
  <2>1. block = [b \in B |-> block[b]]
    BY DEF block
  <2> QED
    BY <1>4, <2>1
<1>7. ASSUME NEW i \in I
      PROVE  /\ DOMAIN code[i] = DOMAIN f.code[i]
             /\ code[i].ty = f.code[i].ty /\ code[i].k = f.code[i].k
             /\ code[i].parent = f.code[i].parent /\ code[i].inc = f.code[i].inc
             /\ code[i].args \in Seq(I)
             /\ \/ ~same(i) /\ code[i].op = f.code[i].op /\ code[i].tgt = f.code[i].tgt
                \/ same(i) /\ code[i].op = "br"
  <2>1. /\ DOMAIN f.code[i] = {"op", "ty", "args", "k", "tgt", "inc", "parent"}
        /\ f.code[i].args \in Seq(I)
    BY <1>2 DEF IsCode, I
  <2>2. CASE same(i)
    <3> DEFINE t == <<f.code[i].tgt[1]>>
    <3>1. code[i] = [f.code[i] EXCEPT !.op = "br", !.args = <<>>, !.tgt = t]
      BY <2>2 DEF code
    <3> HIDE DEF t
    <3> QED
      BY <2>1, <2>2, <3>1
  <2>3. CASE ~ same(i)
    <3>1. code[i] = f.code[i]
      BY <2>3 DEF code
    <3> QED
      BY <2>1, <2>3, <3>1
  <2> QED
    BY <2>2, <2>3
<1>8. /\ Blocks(g) = B /\ Instrs(g) = I
      /\ \A b \in B : Ins(g, b) = block[b].ins /\ Succ(g, b) = block[b].succ
                      /\ Pred(g, b) = block[b].pred
  BY <1>3, <1>6 DEF Blocks, Instrs, Ins, Succ, Pred, code
<1>9. IsFunction(g)
  <2>1. ASSUME NEW i \in I PROVE IsCode(g, i)
    <3>1. IsCode(f, i) /\ code[i].op \in Ops
      <4>1. IsCode(f, i) /\ "br" \in Ops
        BY <1>2 DEF Ops
      <4> QED
        BY <1>7, <4>1 DEF IsCode
    <3> QED
      BY <1>3, <1>7, <1>8, <3>1 DEF IsCode, B, I
  <2> QED
    BY <1>2, <1>3, <1>5, <1>6, <1>8, <2>1 DEF IsFunction, Blocks, Instrs
<1>10. \A b \in Blocks(f) :
         /\ Ins(g, b) = Ins(f, b) /\ Pred(g, b) = Pred(f, b)
         /\ \/ Succ(g, b) = Succ(f, b)
            \/ /\ Succ(g, b) = <<Succ(f, b)[1]>>
               /\ LastIn(f, b) \in Range(Ins(f, b))
               /\ HasSameLabels(f, LastIn(f, b))
  BY <1>3a, <1>4, <1>8 DEF B, same, Ins, Succ, Pred
<1> QED
  BY <1>3, <1>7, <1>8, <1>9, <1>10 DEF g, B, I, same

LEMMA TerminatorsWellLinked ==
  ASSUME NEW f, WellLinked(f)
  PROVE  /\ WellLinked(TerminatorsSimplified(f))
         /\ TerminatorsSimplified(f).order = f.order
         /\ Instrs(TerminatorsSimplified(f)) = Instrs(f)
<1> DEFINE g == TerminatorsSimplified(f)
           R == Reachable(f)
           O == Range(f.order)
<1>1. /\ IsFunction(f) /\ Linked(f) /\ ListsClosed(f) /\ InOwnBlock(f) /\ TwoWays(f)
      /\ BranchesLast(f) /\ LabelsNameBlocks(f) /\ EmptyLoopsAreEntered(f)
  BY ListsAreClosed DEF WellLinked
<1>2. /\ IsFunction(g)
      /\ Blocks(g) = Blocks(f) /\ Instrs(g) = Instrs(f)
      /\ g.entry = f.entry /\ g.order = f.order
      /\ \A b \in Blocks(f) :
           /\ Ins(g, b) = Ins(f, b) /\ Pred(g, b) = Pred(f, b)
           /\ \/ Succ(g, b) = Succ(f, b)
              \/ /\ Succ(g, b) = <<Succ(f, b)[1]>>
                 /\ LastIn(f, b) \in Range(Ins(f, b))
                 /\ HasSameLabels(f, LastIn(f, b))
      /\ \A i \in Instrs(f) :
           /\ g.code[i].parent = f.code[i].parent
           /\ \/ g.code[i].op = f.code[i].op /\ g.code[i].tgt = f.code[i].tgt
              \/ g.code[i].op = "br" /\ HasSameLabels(f, i)
           /\ HasSameLabels(f, i) => g.code[i].op = "br"
  BY <1>1, TerminatorsParts
<1>3. /\ f.order \in Seq(Blocks(f)) /\ O \subseteq Blocks(f)
      /\ \A b \in Blocks(f) : /\ Ins(f, b) \in Seq(Instrs(f)) /\ Succ(f, b) \in Seq(Blocks(f))
                              /\ Pred(f, b) \in Seq(Blocks(f))
  BY <1>1, FunctionParts
<1>4. /\ \A b \in Blocks(f) : Range(Ins(f, b)) \subseteq Instrs(f)
      /\ \A b \in Blocks(f) : \A k \in 1 .. Len(Ins(f, b)) : Ins(f, b)[k] \in Range(Ins(f, b))
  BY <1>3 DEF Range
<1>5. f.entry \in R /\ R \subseteq O
  BY <1>1, ReachableFacts
<1> HIDE DEF g, R, O
<1>6. ASSUME NEW b \in O PROVE Range(Succ(g, b)) = Range(Succ(f, b))
  <2>1. b \in Blocks(f)
    BY <1>3
  <2>2. CASE Succ(g, b) = Succ(f, b)
    BY <2>2
  <2>3. CASE /\ Succ(g, b) = <<Succ(f, b)[1]>>
             /\ LastIn(f, b) \in Range(Ins(f, b))
             /\ HasSameLabels(f, LastIn(f, b))
    <3> DEFINE i == LastIn(f, b)
    <3>1. i \in Range(Ins(f, b)) /\ f.code[i].op = "cond_br" /\ f.code[i].tgt[1] = f.code[i].tgt[2]
      BY <2>3 DEF HasSameLabels
    <3> HIDE DEF i
    <3>2. Len(Succ(f, b)) = 2 /\ Succ(f, b)[1] = Succ(f, b)[2]
      BY <1>1, <3>1 DEF TwoWays, LabelsNameBlocks, O
    <3>3. Succ(f, b) \in Seq(Blocks(f))
      BY <1>3, <2>1
    <3> DEFINE s == Succ(f, b)
    <3>4. DOMAIN s = {1, 2}
      BY <3>2, <3>3
    <3>5. DOMAIN <<s[1]>> = {1} /\ <<s[1]>>[1] = s[1]
      OBVIOUS
    <3> HIDE DEF s
    <3>6. Range(s) = {s[1]}
      BY <3>2, <3>4 DEF Range, s
    <3>7. Range(<<s[1]>>) = {s[1]}
      BY <3>5 DEF Range
    <3> QED
      BY <2>3, <3>6, <3>7 DEF s
  <2> QED
    BY <1>2, <2>1, <2>2, <2>3
<1>7. ListsClosed(g)
  BY <1>1, <1>2, <1>6 DEF ListsClosed, O
<1>8. Reachable(g) = R
  <2>1. \A b \in Reachable(f) : Range(Succ(g, b)) = Range(Succ(f, b))
    BY <1>5, <1>6 DEF R
  <2> QED
    BY <1>1, <1>2, <1>7, <2>1, SameEdges DEF R
<1>9. Linked(g)
  <2>1. f.entry \in O
    BY <1>5
  <2>2. \A b \in O : b \in Blocks(f)
    BY <1>3
  <2>3. \A b \in O : Range(Succ(f, b)) \cup Range(Pred(f, b)) \subseteq O
    BY <1>1 DEF Linked, O
  <2>4. \A b \in O : Range(Succ(g, b)) \cup Range(Pred(g, b)) \subseteq O
    BY <1>2, <1>6, <2>2, <2>3
  <2>5. \A b \in R : \A s \in Range(Succ(f, b)) : b \in Range(Pred(f, s))
    BY <1>1 DEF Linked, R
  <2>6. ASSUME NEW b \in R, NEW s \in Range(Succ(g, b)) PROVE b \in Range(Pred(g, s))
    <3>1. b \in O
      BY <1>5
    <3>2. s \in Range(Succ(f, b))
      BY <1>6, <3>1
    <3>3. s \in O
      BY <2>3, <3>1, <3>2
    <3>4. Pred(g, s) = Pred(f, s)
      BY <1>2, <2>2, <3>3
    <3> QED
      BY <2>5, <3>2, <3>4
  <2> QED
    BY <1>2, <1>8, <2>1, <2>4, <2>6 DEF Linked, O
<1>10. InOwnBlock(g)
  BY <1>1, <1>2, <1>4 DEF InOwnBlock
<1>11. ASSUME NEW b \in O
       PROVE  /\ b \in Blocks(f) /\ Ins(g, b) = Ins(f, b)
              /\ \A i \in Range(Ins(f, b)) : i \in Instrs(f)
  BY <1>2, <1>3, <1>4
<1>12. BranchesLast(g)
  <2> SUFFICES ASSUME NEW b \in O, NEW k \in 1 .. Len(Ins(g, b)) - 1
               PROVE  g.code[Ins(g, b)[k]].op \notin {"br", "cond_br"}
    BY <1>2 DEF BranchesLast, O
  <2>1. Ins(g, b) = Ins(f, b) /\ Len(Ins(f, b)) \in Nat
    BY <1>3, <1>11
  <2>2. k \in 1 .. Len(Ins(f, b)) /\ k \in 1 .. Len(Ins(f, b)) - 1
    BY <2>1
  <2> DEFINE i == Ins(f, b)[k]
  <2>3. i \in Instrs(f)
    BY <1>4, <1>11, <2>2
  <2>4. f.code[i].op \notin {"br", "cond_br"}
    BY <1>1, <2>2 DEF BranchesLast, O
  <2>5. ~HasSameLabels(f, i)
    BY <2>4 DEF HasSameLabels
  <2> QED
    BY <1>2, <2>1, <2>3, <2>4, <2>5
<1>13. ASSUME NEW b \in O, NEW i \in Range(Ins(g, b)), g.code[i].op = "cond_br"
       PROVE  /\ i \in Range(Ins(f, b)) /\ f.code[i].op = "cond_br"
              /\ g.code[i].tgt = f.code[i].tgt
              /\ Succ(g, b) = Succ(f, b)
  <2>1. i \in Range(Ins(f, b)) /\ i \in Instrs(f) /\ b \in Blocks(f)
    BY <1>11
  <2>2. ~HasSameLabels(f, i) /\ g.code[i].op = f.code[i].op /\ g.code[i].tgt = f.code[i].tgt
    BY <1>2, <1>13, <2>1
  <2>3. ~HasSameLabels(f, LastIn(f, b)) \/ LastIn(f, b) = i \/ LastIn(f, b) \notin Range(Ins(f, b))
    <3>1. SUFFICES ASSUME HasSameLabels(f, LastIn(f, b)), LastIn(f, b) \in Range(Ins(f, b))
                   PROVE  LastIn(f, b) = i
      OBVIOUS
    <3>2. PICK k \in 1 .. Len(Ins(f, b)) : Ins(f, b)[k] = i
      <4>1. DOMAIN Ins(f, b) = 1 .. Len(Ins(f, b))
        BY <1>3, <2>1
      <4> QED
        BY <2>1, <4>1 DEF Range
    <3>3. Len(Ins(f, b)) \in Nat
      BY <1>3, <2>1
    <3>4. f.code[i].op = "cond_br"
      BY <1>13, <2>2
    <3>5. k \notin 1 .. Len(Ins(f, b)) - 1
      BY <1>1, <3>2, <3>4 DEF BranchesLast, O
    <3>6. k = Len(Ins(f, b))
      BY <3>2, <3>3, <3>5
    <3> QED
      BY <3>2, <3>6 DEF LastIn
  <2>4. Succ(g, b) = Succ(f, b)
    BY <1>2, <2>1, <2>2, <2>3
  <2> QED
    BY <1>13, <2>1, <2>2, <2>4
<1>14. TwoWays(g)
  <2> SUFFICES ASSUME NEW b \in O, NEW i \in Range(Ins(g, b)), g.code[i].op = "cond_br"
               PROVE  Len(Succ(g, b)) = 2
    BY <1>2 DEF TwoWays, O
  <2> QED
    BY <1>1, <1>13 DEF TwoWays, O
<1>15. LabelsNameBlocks(g)
  <2> SUFFICES ASSUME NEW b \in O, NEW i \in Range(Ins(g, b)), g.code[i].op = "cond_br",
                      g.code[i].tgt[1] = g.code[i].tgt[2]
               PROVE  Succ(g, b)[1] = Succ(g, b)[2]
    BY <1>2 DEF LabelsNameBlocks, O
  <2> QED
    BY <1>1, <1>13 DEF LabelsNameBlocks, O
<1>16. EmptyLoopsAreEntered(g)
  <2>1. ASSUME NEW b \in R
        PROVE  /\ Range(Succ(g, b)) = Range(Succ(f, b))
               /\ IsHollow(g, b) => IsHollow(f, b)
               /\ FallsThrough(f, b) => FallsThrough(g, b)
    <3>1. b \in O
      BY <1>5
    <3>2. /\ Ins(g, b) = Ins(f, b)
          /\ \A i \in Range(Ins(f, b)) : i \in Instrs(f)
      BY <1>11, <3>1
    <3>3. \A i \in Instrs(f) : \/ g.code[i].op = f.code[i].op
                               \/ f.code[i].op = "cond_br" /\ g.code[i].op = "br"
      BY <1>2 DEF HasSameLabels
    <3>4. IsHollow(g, b) => IsHollow(f, b)
      BY <3>2, <3>3 DEF IsHollow, IsPhi, IsTerminator
    <3>5. FallsThrough(f, b) => FallsThrough(g, b)
      BY <3>2, <3>3 DEF FallsThrough
    <3> QED
      BY <1>6, <3>1, <3>4, <3>5
  <2> QED
    BY <1>1, <1>8, <2>1, RingsKept DEF R
<1> QED
  BY <1>2, <1>9, <1>10, <1>12, <1>14, <1>15, <1>16 DEF WellLinked, g

-----------------------------------------------------------------------------
\* What merge_blocks leaves of the blocks and the instructions when b takes
\* over s: b's own instructions are those before its terminator.
Kept(f, b) == IF HasTerminator(f, b) THEN AllButLast(Ins(f, b)) ELSE Ins(f, b)

LEMMA MergedParts ==
  ASSUME NEW f, IsFunction(f), NEW b \in Blocks(f), CanMerge(f, b)
  PROVE  LET g == Merged(f, b)
             s == Succ(f, b)[1]
         IN  /\ IsFunction(g)
             /\ Blocks(g) = Blocks(f) /\ Instrs(g) = Instrs(f)
             /\ g.entry = f.entry /\ g.order = f.order
             /\ s \in Blocks(f) /\ Range(Succ(f, b)) = {s}
             /\ Ins(g, b) = Kept(f, b) \o Ins(f, s) /\ Ins(g, s) = <<>>
             /\ Succ(g, b) = Succ(f, s) /\ Succ(g, s) = <<>>
             /\ \A c \in Blocks(f) : c # b /\ c # s =>
                  Ins(g, c) = Ins(f, c) /\ Succ(g, c) = Succ(f, c)
             /\ \A c \in Blocks(f) :
                  Pred(g, c) = IF c \in Range(Succ(f, s)) THEN Replaced(Pred(f, c), s, b)
                               ELSE Pred(f, c)
             /\ \A i \in Instrs(f) :
                  /\ g.code[i].op = f.code[i].op /\ g.code[i].tgt = f.code[i].tgt
                  /\ g.code[i].parent = NewParent(f, i, s, b)
<1> DEFINE g == Merged(f, b)
           s == Succ(f, b)[1]
           B == Blocks(f)
           I == Instrs(f)
           rekeyed(i) == /\ IsPhi(f, i) /\ s \in DOMAIN f.code[i].inc
                         /\ \E t \in Range(Succ(f, s)) : i \in Range(Ins(f, t))
           inc(i) == IF rekeyed(i) THEN Moved(f.code[i].inc, s, {b}) ELSE f.code[i].inc
           ins(c) == CASE c = b -> Kept(f, b) \o Ins(f, s) [] c = s -> <<>> [] OTHER -> Ins(f, c)
           succ(c) == CASE c = b -> Succ(f, s) [] c = s -> <<>> [] OTHER -> Succ(f, c)
           pred(c) == IF c \in Range(Succ(f, s)) THEN Replaced(Pred(f, c), s, b) ELSE Pred(f, c)
           block == [c \in B |-> [ins |-> ins(c), succ |-> succ(c), pred |-> pred(c)]]
           code == [i \in I |-> [f.code[i] EXCEPT !.parent = NewParent(f, i, s, b),
                                                  !.inc = inc(i)]]
<1>1. g = [f EXCEPT !.block = block, !.code = code]
  BY DEF Merged, Kept
<1>2. /\ DOMAIN f = {"entry", "order", "block", "code", "users"}
      /\ f.entry \in B /\ f.order \in Seq(B)
      /\ f.users \in [I -> Seq(I)]
      /\ \A c \in B : Ins(f, c) \in Seq(I) /\ Succ(f, c) \in Seq(B) /\ Pred(f, c) \in Seq(B)
      /\ \A i \in I : IsCode(f, i)
  BY FunctionParts
<1>3. s # b /\ Len(Succ(f, b)) = 1 /\ Pred(f, s) = <<b>>
  BY DEF CanMerge
<1>4. s \in B /\ Range(Succ(f, b)) = {s}
  <2> DEFINE t == Succ(f, b)
  <2>1. t \in Seq(B) /\ Len(t) = 1
    BY <1>2, <1>3
  <2>2. DOMAIN t = {1} /\ t[1] \in B
    BY <2>1
  <2> HIDE DEF t
  <2>3. Range(t) = {t[1]}
    BY <2>2 DEF Range
  <2> QED
    BY <2>2, <2>3 DEF t
<1> HIDE DEF g, s, B, I, block, code, ins, succ, pred, inc, rekeyed
<1>5. /\ DOMAIN g = DOMAIN f
      /\ g.entry = f.entry /\ g.order = f.order
      /\ g.block = block /\ g.code = code /\ g.users = f.users
  BY <1>1, <1>2
<1>6. Kept(f, b) \in Seq(I)
  <2>1. b \in B /\ Ins(f, b) \in Seq(I)
    BY <1>2 DEF B
  <2>2. CASE HasTerminator(f, b)
    <3>1. Ins(f, b) # <<>>
      BY <2>2 DEF HasTerminator
    <3>2. AllButLast(Ins(f, b)) \in Seq(I)
      BY <2>1, <3>1, AllButLastFacts
    <3> QED
      BY <2>2, <3>2 DEF Kept
  <2>3. CASE ~HasTerminator(f, b)
    BY <2>1, <2>3 DEF Kept
  <2> QED
    BY <2>2, <2>3
<1>7. ASSUME NEW c \in B PROVE ins(c) \in Seq(I) /\ succ(c) \in Seq(B) /\ pred(c) \in Seq(B)
  <2>1. ins(c) \in Seq(I)
    <3>1. Ins(f, s) \in Seq(I) /\ Ins(f, c) \in Seq(I)
      BY <1>2, <1>4
    <3>2. Kept(f, b) \o Ins(f, s) \in Seq(I)
      BY <1>6, <3>1
    <3> QED
      BY <3>1, <3>2 DEF ins
  <2>2. succ(c) \in Seq(B)
    BY <1>2, <1>4 DEF succ
  <2>3. pred(c) \in Seq(B)
    <3>1. Pred(f, c) \in Seq(B) /\ b \in B
      BY <1>2 DEF B
    <3>2. Replaced(Pred(f, c), s, b) \in Seq(B)
      BY <3>1, ReplacedFacts
    <3> QED
      BY <3>1, <3>2 DEF pred
  <2> QED
    BY <2>1, <2>2, <2>3
<1>8. block \in [B -> [ins : Seq(I), succ : Seq(B), pred : Seq(B)]]
  BY <1>7 DEF block
<1>9. ASSUME NEW i \in I
      PROVE  /\ DOMAIN code[i] = DOMAIN f.code[i]
             /\ code[i].op = f.code[i].op /\ code[i].tgt = f.code[i].tgt
             /\ code[i].ty = f.code[i].ty /\ code[i].k = f.code[i].k
             /\ code[i].args = f.code[i].args
             /\ code[i].parent = NewParent(f, i, s, b)
             /\ DOMAIN code[i].inc \subseteq B /\ Range(code[i].inc) \subseteq I
  <2>1. /\ DOMAIN f.code[i] = {"op", "ty", "args", "k", "tgt", "inc", "parent"}
        /\ DOMAIN f.code[i].inc \subseteq B /\ Range(f.code[i].inc) \subseteq I
    BY <1>2 DEF IsCode, B, I
  <2>2. DOMAIN inc(i) \subseteq B /\ Range(inc(i)) \subseteq I
    <3>1. CASE rekeyed(i)
      <4> DEFINE m == f.code[i].inc
      <4>1. s \in DOMAIN m /\ inc(i) = Moved(m, s, {b})
        BY <3>1 DEF rekeyed, inc
      <4>2. DOMAIN Moved(m, s, {b}) \subseteq B
        BY <2>1 DEF Moved, B
      <4>3. Range(Moved(m, s, {b})) \subseteq I
        <5>1. \A p \in DOMAIN m : m[p] \in I
          BY <2>1 DEF Range
        <5> HIDE DEF m
        <5>2. \A p \in DOMAIN Moved(m, s, {b}) : Moved(m, s, {b})[p] \in I
          BY <4>1, <5>1 DEF Moved
        <5> QED
          BY <5>2 DEF Range
      <4> QED
        BY <4>1, <4>2, <4>3
    <3>2. CASE ~rekeyed(i)
      BY <2>1, <3>2 DEF inc
    <3> QED
      BY <3>1, <3>2
  <2>3. code[i] = [f.code[i] EXCEPT !.parent = NewParent(f, i, s, b), !.inc = inc(i)]
    BY DEF code
  <2> QED
    BY <2>1, <2>2, <2>3
<1>10. /\ Blocks(g) = B /\ Instrs(g) = I
       /\ \A c \in B : Ins(g, c) = ins(c) /\ Succ(g, c) = succ(c) /\ Pred(g, c) = pred(c)
  <2>1. \A c \in B : block[c] = [ins |-> ins(c), succ |-> succ(c), pred |-> pred(c)]
    BY DEF block
  <2>2. DOMAIN block = B /\ DOMAIN code = I
    BY DEF block, code
  <2>3. Blocks(g) = B /\ Instrs(g) = I
    BY <1>5, <2>2 DEF Blocks, Instrs
  <2>4. \A c \in B : Ins(g, c) = ins(c) /\ Succ(g, c) = succ(c) /\ Pred(g, c) = pred(c)
    <3> SUFFICES ASSUME NEW c \in B
                 PROVE  Ins(g, c) = ins(c) /\ Succ(g, c) = succ(c) /\ Pred(g, c) = pred(c)
      OBVIOUS
    <3>1. /\ Ins(g, c) = block[c].ins /\ Succ(g, c) = block[c].succ
          /\ Pred(g, c) = block[c].pred
      BY <1>5 DEF Ins, Succ, Pred
    <3>2. block[c] = [ins |-> ins(c), succ |-> succ(c), pred |-> pred(c)]
      BY <2>1
    <3> QED
      BY <3>1, <3>2
  <2> QED
    BY <2>3, <2>4
<1>11. IsFunction(g)
  <2>1. ASSUME NEW i \in I PROVE IsCode(g, i)
    <3>1. IsCode(f, i) /\ b \in B
      BY <1>2 DEF B
    <3>2. code[i].parent \in B
      BY <1>9, <3>1 DEF NewParent, IsCode, B
    <3> QED
      BY <1>5, <1>9, <1>10, <3>1, <3>2 DEF IsCode, B, I
  <2> QED
    BY <1>2, <1>5, <1>8, <1>10, <2>1 DEF IsFunction, Blocks, Instrs
<1>12. /\ Ins(g, b) = Kept(f, b) \o Ins(f, s) /\ Ins(g, s) = <<>>
       /\ Succ(g, b) = Succ(f, s) /\ Succ(g, s) = <<>>
       /\ \A c \in B : c # b /\ c # s => Ins(g, c) = Ins(f, c) /\ Succ(g, c) = Succ(f, c)
       /\ \A c \in B : Pred(g, c) = pred(c)
  <2>1. b \in B
    BY DEF B
  <2> QED
    BY <1>3, <1>4, <1>10, <2>1 DEF ins, succ
<1> QED
  BY <1>4, <1>5, <1>9, <1>10, <1>11, <1>12 DEF g, s, B, I, pred

LEMMA KeptFacts ==
  ASSUME NEW f, NEW b \in Range(f.order), BranchesLast(f),
         NEW I, Ins(f, b) \in Seq(I)
  PROVE  /\ Kept(f, b) \in Seq(I)
         /\ Range(Kept(f, b)) \subseteq Range(Ins(f, b))
         /\ \A i \in Range(Kept(f, b)) : f.code[i].op \notin {"br", "cond_br"}
         /\ \A i \in Range(Ins(f, b)) \ Range(Kept(f, b)) : IsTerminator(f.code[i].op)
<1> DEFINE s == Ins(f, b)
<1>1. s \in Seq(I)
  OBVIOUS
<1>2. CASE HasTerminator(f, b)
  <2>1. s # <<>> /\ IsTerminator(f.code[s[Len(s)]].op)
    BY <1>2 DEF HasTerminator
  <2>2. Kept(f, b) = AllButLast(s)
    BY <1>2 DEF Kept
  <2>3. /\ AllButLast(s) \in Seq(I) /\ Len(AllButLast(s)) = Len(s) - 1
        /\ \A k \in 1 .. Len(s) - 1 : AllButLast(s)[k] = s[k]
        /\ Range(AllButLast(s)) \subseteq Range(s)
        /\ Range(s) \subseteq Range(AllButLast(s)) \cup {s[Len(s)]}
    BY <1>1, <2>1, AllButLastFacts
  <2>4. \A i \in Range(AllButLast(s)) : \E k \in 1 .. Len(s) - 1 : i = s[k]
    <3>1. DOMAIN AllButLast(s) = 1 .. Len(s) - 1
      BY <1>1, <2>3
    <3> QED
      BY <2>3, <3>1 DEF Range
  <2>5. \A k \in 1 .. Len(s) - 1 : f.code[s[k]].op \notin {"br", "cond_br"}
    BY DEF BranchesLast
  <2> HIDE DEF s
  <2>6. \A i \in Range(AllButLast(s)) : f.code[i].op \notin {"br", "cond_br"}
    BY <2>4, <2>5
  <2>7. \A i \in Range(s) \ Range(AllButLast(s)) : IsTerminator(f.code[i].op)
    BY <2>1, <2>3
  <2> QED
    BY <2>2, <2>3, <2>6, <2>7 DEF s
<1>3. CASE ~HasTerminator(f, b)
  <2>1. Kept(f, b) = s
    BY <1>3 DEF Kept
  <2>2. ASSUME NEW i \in Range(s) PROVE f.code[i].op \notin {"br", "cond_br"}
    <3>1. DOMAIN s = 1 .. Len(s) /\ Len(s) \in Nat
      BY <1>1
    <3>2. PICK k \in 1 .. Len(s) : i = s[k]
      BY <3>1 DEF Range
    <3>3. CASE k \in 1 .. Len(s) - 1
      BY <3>2, <3>3 DEF BranchesLast
    <3>4. CASE k \notin 1 .. Len(s) - 1
      <4> DEFINE L == Len(s)
      <4>0. L \in Nat /\ k \in 1 .. L /\ k \notin 1 .. L - 1 /\ (s = <<>> => L = 0)
        BY <3>1, <3>2, <3>4
      <4> HIDE DEF L
      <4>00. k = L /\ L # 0
        BY <4>0
      <4>1. k = Len(s) /\ s # <<>>
        BY <4>0, <4>00 DEF L
      <4>2. ~IsTerminator(f.code[i].op)
        BY <1>3, <3>2, <4>1 DEF HasTerminator
      <4> QED
        BY <4>2 DEF IsTerminator
    <3> QED
      BY <3>3, <3>4
  <2> QED
    BY <1>1, <2>1, <2>2
<1> QED
  BY <1>2, <1>3

LEMMA MergedWellLinked ==
  ASSUME NEW f, WellLinked(f), NEW b \in Range(f.order), CanMerge(f, b)
  PROVE  /\ WellLinked(Merged(f, b))
         /\ Merged(f, b).order = f.order
         /\ Instrs(Merged(f, b)) = Instrs(f)
<1> DEFINE g == Merged(f, b)
           s == Succ(f, b)[1]
           R == Reachable(f)
           Q == Reachable(g)
           O == Range(f.order)
<1>1. /\ IsFunction(f) /\ Linked(f) /\ ListsClosed(f) /\ InOwnBlock(f) /\ TwoWays(f)
      /\ BranchesLast(f) /\ LabelsNameBlocks(f) /\ EmptyLoopsAreEntered(f)
  BY ListsAreClosed DEF WellLinked
<1>2. /\ f.order \in Seq(Blocks(f)) /\ O \subseteq Blocks(f)
      /\ \A c \in Blocks(f) : /\ Ins(f, c) \in Seq(Instrs(f)) /\ Succ(f, c) \in Seq(Blocks(f))
                              /\ Pred(f, c) \in Seq(Blocks(f))
  BY <1>1, FunctionParts
<1>3. b \in Blocks(f) /\ b \in O
  BY <1>2
<1>4. /\ IsFunction(g)
      /\ Blocks(g) = Blocks(f) /\ Instrs(g) = Instrs(f)
      /\ g.entry = f.entry /\ g.order = f.order
      /\ s \in Blocks(f) /\ Range(Succ(f, b)) = {s}
      /\ Ins(g, b) = Kept(f, b) \o Ins(f, s) /\ Ins(g, s) = <<>>
      /\ Succ(g, b) = Succ(f, s) /\ Succ(g, s) = <<>>
      /\ \A c \in Blocks(f) : c # b /\ c # s => Ins(g, c) = Ins(f, c) /\ Succ(g, c) = Succ(f, c)
      /\ \A c \in Blocks(f) :
           Pred(g, c) = IF c \in Range(Succ(f, s)) THEN Replaced(Pred(f, c), s, b)
                        ELSE Pred(f, c)
      /\ \A i \in Instrs(f) :
           /\ g.code[i].op = f.code[i].op /\ g.code[i].tgt = f.code[i].tgt
           /\ g.code[i].parent = NewParent(f, i, s, b)
  BY <1>1, <1>3, MergedParts
<1>5. s # b /\ Pred(f, s) = <<b>>
  BY DEF CanMerge
<1>6. /\ f.entry \in R /\ R \subseteq O
      /\ \A c \in R : Range(Succ(f, c)) \subseteq R
  BY <1>1, ReachableFacts
<1> HIDE DEF g, s, R, Q, O
<1>7. Range(<<b>>) = {b} /\ Range(<<>>) = {}
  <2>1. DOMAIN <<b>> = {1} /\ <<b>>[1] = b /\ DOMAIN <<>> = {}
    OBVIOUS
  <2> QED
    BY <2>1 DEF Range
<1>8. /\ \A c \in O : c \in Blocks(f)
      /\ \A c \in O : Range(Succ(f, c)) \subseteq O /\ Range(Pred(f, c)) \subseteq O
      /\ \A c \in R : \A t \in Range(Succ(f, c)) : c \in Range(Pred(f, t))
      /\ s \in O
  BY <1>1, <1>2, <1>3, <1>4 DEF Linked, O, R
\* The only way into s is from b.
<1>9. \A c \in R : s \in Range(Succ(f, c)) => c = b
  BY <1>5, <1>7, <1>8
<1>10. /\ Range(Ins(g, b)) = Range(Kept(f, b)) \cup Range(Ins(f, s))
       /\ Kept(f, b) \in Seq(Instrs(f))
       /\ Range(Kept(f, b)) \subseteq Range(Ins(f, b))
       /\ \A i \in Range(Kept(f, b)) : f.code[i].op \notin {"br", "cond_br"}
       /\ \A i \in Range(Ins(f, b)) \ Range(Kept(f, b)) : IsTerminator(f.code[i].op)
  <2>1. Ins(f, b) \in Seq(Instrs(f)) /\ Ins(f, s) \in Seq(Instrs(f))
    BY <1>2, <1>3, <1>4
  <2>2. b \in Range(f.order)
    BY <1>3 DEF O
  <2>3. /\ Kept(f, b) \in Seq(Instrs(f))
        /\ Range(Kept(f, b)) \subseteq Range(Ins(f, b))
        /\ \A i \in Range(Kept(f, b)) : f.code[i].op \notin {"br", "cond_br"}
        /\ \A i \in Range(Ins(f, b)) \ Range(Kept(f, b)) : IsTerminator(f.code[i].op)
    BY <1>1, <2>1, <2>2, KeptFacts
  <2>4. Range(Kept(f, b) \o Ins(f, s)) = Range(Kept(f, b)) \cup Range(Ins(f, s))
    BY <2>1, <2>3, ConcatFacts
  <2> QED
    BY <1>4, <2>3, <2>4
<1>11. \A c \in Blocks(f) : Range(Ins(f, c)) \subseteq Instrs(f)
  BY <1>2 DEF Range
<1>12. ListsClosed(g)
  <2>1. \A c \in O : Range(Succ(g, c)) \subseteq O
    BY <1>4, <1>7, <1>8
  <2>2. f.entry \in O
    BY <1>6
  <2> QED
    BY <1>2, <1>4, <2>1, <2>2 DEF ListsClosed, O
<1>13. g.entry \in Q /\ Q \subseteq O /\ \A c \in Q : Range(Succ(g, c)) \subseteq Q
  BY <1>4, <1>12, ReachableFacts DEF Q, O
<1>14. Q \subseteq R
  <2>1. g.entry \in R
    BY <1>4, <1>6
  <2>2. ASSUME NEW c \in R PROVE Range(Succ(g, c)) \subseteq R
    <3>1. CASE c = b
      BY <1>4, <1>6, <3>1
    <3>2. CASE c = s
      BY <1>4, <1>7, <3>2
    <3>3. CASE c # b /\ c # s
      BY <1>4, <1>6, <1>8, <3>3
    <3> QED
      BY <3>1, <3>2, <3>3
  <2> QED
    BY <1>12, <2>1, <2>2, ReachableIsLeast DEF Q
<1>15. Linked(g)
  <2>1. ASSUME NEW c \in O PROVE Range(Pred(g, c)) \subseteq O
    <3>1. Pred(f, c) \in Seq(Blocks(f))
      BY <1>2, <1>8
    <3>2. Range(Replaced(Pred(f, c), s, b)) \subseteq (Range(Pred(f, c)) \ {s}) \cup {b}
      BY <1>3, <3>1, ReplacedFacts
    <3> QED
      BY <1>3, <1>4, <1>8, <3>2
  <2>2. ASSUME NEW c \in Q, NEW t \in Range(Succ(g, c)) PROVE c \in Range(Pred(g, t))
    <3>1. c \in R /\ c \in O /\ t \in O /\ t \in Blocks(f) /\ c \in Blocks(f)
      BY <1>6, <1>8, <1>13, <1>14
    <3>2. Pred(f, t) \in Seq(Blocks(f))
      BY <1>2, <3>1
    <3>3. /\ Range(Pred(f, t)) \ {s} \subseteq Range(Replaced(Pred(f, t), s, b))
          /\ s \in Range(Pred(f, t)) => b \in Range(Replaced(Pred(f, t), s, b))
      BY <1>3, <3>2, ReplacedFacts
    <3>4. CASE c = b
      <4>1. t \in Range(Succ(f, s)) /\ s \in R
        BY <1>4, <1>6, <3>1, <3>4
      <4>2. s \in Range(Pred(f, t))
        BY <1>8, <4>1
      <4> QED
        BY <1>4, <3>1, <3>3, <3>4, <4>1, <4>2
    <3>5. CASE c = s
      BY <1>4, <1>7, <3>5
    <3>6. CASE c # b /\ c # s
      <4>1. t \in Range(Succ(f, c))
        BY <1>4, <3>1, <3>6
      <4>2. c \in Range(Pred(f, t))
        BY <1>8, <3>1, <4>1
      <4> QED
        BY <1>4, <3>1, <3>3, <3>6, <4>2
    <3> QED
      BY <3>4, <3>5, <3>6
  <2>3. g.entry \in O /\ \A c \in O : Range(Succ(g, c)) \subseteq O
    BY <1>4, <1>12 DEF ListsClosed, O
  <2> QED
    BY <1>4, <2>1, <2>2, <2>3 DEF Linked, O, Q
<1>16. InOwnBlock(g)
  <2> SUFFICES ASSUME NEW c \in Blocks(f), NEW i \in Range(Ins(g, c))
               PROVE  g.code[i].parent = c
    BY <1>4 DEF InOwnBlock
  <2>1. \A d \in Blocks(f) : \A j \in Range(Ins(f, d)) : j \in Instrs(f) /\ f.code[j].parent = d
    BY <1>1, <1>11 DEF InOwnBlock
  <2>2. CASE c = b
    <3>1. i \in Range(Ins(f, b)) \/ i \in Range(Ins(f, s))
      BY <1>10, <2>2
    <3> QED
      BY <1>3, <1>4, <2>1, <2>2, <3>1 DEF NewParent
  <2>3. CASE c = s
    BY <1>4, <1>7, <2>3
  <2>4. CASE c # b /\ c # s
    <3>1. i \in Range(Ins(f, c))
      BY <1>4, <2>4
    <3>2. i \notin Range(Ins(f, s))
      BY <1>4, <2>1, <2>4, <3>1
    <3> QED
      BY <1>4, <2>1, <3>1, <3>2 DEF NewParent
  <2> QED
    BY <2>2, <2>3, <2>4
<1>17. BranchesLast(g)
  <2> SUFFICES ASSUME NEW c \in O, NEW k \in 1 .. Len(Ins(g, c)) - 1
               PROVE  g.code[Ins(g, c)[k]].op \notin {"br", "cond_br"}
    BY <1>4 DEF BranchesLast, O
  <2>1. ASSUME NEW d \in O, NEW j \in 1 .. Len(Ins(f, d)) - 1
        PROVE  Ins(f, d)[j] \in Instrs(f) /\ f.code[Ins(f, d)[j]].op \notin {"br", "cond_br"}
    <3>1. Ins(f, d) \in Seq(Instrs(f)) /\ Len(Ins(f, d)) \in Nat
      BY <1>2, <1>8
    <3>2. Ins(f, d)[j] \in Instrs(f)
      BY <3>1
    <3> QED
      BY <1>1, <3>2 DEF BranchesLast, O
  <2>2. CASE c = b
    <3> DEFINE u == Kept(f, b)
               v == Ins(f, s)
    <3>1. u \in Seq(Instrs(f)) /\ v \in Seq(Instrs(f)) /\ Ins(g, c) = u \o v
      BY <1>2, <1>4, <1>10, <2>2
    <3>2. \/ k \in 1 .. Len(u) /\ (u \o v)[k] = u[k]
          \/ \E j \in 1 .. Len(v) - 1 : (u \o v)[k] = v[j]
      BY <3>1, ConcatFacts
    <3>3. CASE k \in 1 .. Len(u) /\ (u \o v)[k] = u[k]
      <4>1. u[k] \in Range(u) /\ u[k] \in Instrs(f)
        BY <3>1, <3>3 DEF Range
      <4> QED
        BY <1>4, <1>10, <3>1, <3>3, <4>1
    <3>4. CASE \E j \in 1 .. Len(v) - 1 : (u \o v)[k] = v[j]
      <4>1. PICK j \in 1 .. Len(v) - 1 : (u \o v)[k] = v[j]
        BY <3>4
      <4>2. v[j] \in Instrs(f) /\ f.code[v[j]].op \notin {"br", "cond_br"}
        BY <1>8, <2>1
      <4> QED
        BY <1>4, <3>1, <4>1, <4>2
    <3> QED
      BY <3>2, <3>3, <3>4
  <2>3. CASE c = s
    <3>1. Len(Ins(g, c)) = 0
      BY <1>4, <2>3
    <3>2. k \in 1 .. 0 - 1
      BY <3>1
    <3> QED
      BY <3>2
  <2>4. CASE c # b /\ c # s
    <3> DEFINE v == Ins(f, c)
    <3>1. Ins(g, c) = v
      BY <1>4, <1>8, <2>4
    <3>2. k \in 1 .. Len(v) - 1
      BY <3>1
    <3>3. v[k] \in Instrs(f) /\ f.code[v[k]].op \notin {"br", "cond_br"}
      BY <2>1, <3>2
    <3> QED
      BY <1>4, <3>1, <3>3
  <2> QED
    BY <2>2, <2>3, <2>4
\* A conditional branch of the merged function stood in the block whose
\* successors its block has now.
<1>18. ASSUME NEW c \in O, NEW i \in Range(Ins(g, c)), g.code[i].op = "cond_br"
       PROVE  \E d \in O : /\ i \in Range(Ins(f, d)) /\ f.code[i].op = "cond_br"
                           /\ g.code[i].tgt = f.code[i].tgt /\ Succ(g, c) = Succ(f, d)
  <2>1. CASE c = b
    <3>1. i \in Range(Kept(f, b)) \/ i \in Range(Ins(f, s))
      BY <1>10, <2>1
    <3>2. i \in Instrs(f)
      BY <1>3, <1>4, <1>10, <1>11, <3>1
    <3>3. i \notin Range(Kept(f, b))
      BY <1>4, <1>10, <1>18, <3>2
    <3> QED
      BY <1>4, <1>8, <1>18, <2>1, <3>1, <3>2, <3>3
  <2>2. CASE c = s
    BY <1>4, <1>7, <2>2
  <2>3. CASE c # b /\ c # s
    BY <1>4, <1>8, <1>11, <1>18, <2>3
  <2> QED
    BY <2>1, <2>2, <2>3
<1>19. TwoWays(g)
  <2> SUFFICES ASSUME NEW c \in O, NEW i \in Range(Ins(g, c)), g.code[i].op = "cond_br"
               PROVE  Len(Succ(g, c)) = 2
    BY <1>4 DEF TwoWays, O
  <2> QED
    BY <1>1, <1>18 DEF TwoWays, O
<1>20. LabelsNameBlocks(g)
  <2> SUFFICES ASSUME NEW c \in O, NEW i \in Range(Ins(g, c)), g.code[i].op = "cond_br",
                      g.code[i].tgt[1] = g.code[i].tgt[2]
               PROVE  Succ(g, c)[1] = Succ(g, c)[2]
    BY <1>4 DEF LabelsNameBlocks, O
  <2> QED
    BY <1>1, <1>18 DEF LabelsNameBlocks, O
\* s is reached through b alone, so it drops out, and nothing else does.
<1>21. ASSUME s # f.entry
       PROVE  s \notin Q /\ R \subseteq Q \cup {s} /\ (s \in R => b \in Q)
  <2>1. s \notin Q
    <3> DEFINE X == Q \ {s}
    <3>1. g.entry \in X
      BY <1>4, <1>13, <1>21
    <3>2. ASSUME NEW c \in X PROVE Range(Succ(g, c)) \subseteq X
      <4>1. c \in Q /\ c # s /\ c \in R /\ c \in Blocks(f) /\ Range(Succ(g, c)) \subseteq Q
        BY <1>6, <1>8, <1>13, <1>14
      <4>2. s \notin Range(Succ(g, c))
        <5>1. CASE c = b
          <6>1. s \in R
            BY <1>4, <1>6, <4>1, <5>1
          <6> QED
            BY <1>4, <1>5, <1>9, <5>1, <6>1
        <5>2. CASE c # b
          BY <1>4, <1>9, <4>1, <5>2
        <5> QED
          BY <5>1, <5>2
      <4> QED
        BY <4>1, <4>2
    <3> HIDE DEF X
    <3>3. Q \subseteq X
      BY <1>12, <3>1, <3>2, ReachableIsLeast DEF Q
    <3> QED
      BY <3>3 DEF X
  <2> DEFINE X == Q \cup {t \in {s} : b \in Q}
  <2>2. f.entry \in X
    BY <1>4, <1>13
  <2>3. ASSUME NEW c \in X PROVE Range(Succ(f, c)) \subseteq X
    <3>1. CASE c = s
      BY <1>4, <1>13, <2>1, <3>1
    <3>2. CASE c = b
      BY <1>4, <1>5, <3>2
    <3>3. CASE c # s /\ c # b
      <4>1. c \in Q /\ c \in Blocks(f)
        BY <1>8, <1>13, <3>3
      <4> QED
        BY <1>4, <1>13, <3>3, <4>1
    <3> QED
      BY <3>1, <3>2, <3>3
  <2> HIDE DEF X
  <2>4. R \subseteq X
    BY <1>1, <2>2, <2>3, ReachableIsLeast DEF R
  <2> QED
    BY <2>1, <2>4 DEF X
<1>22. ASSUME NEW c \in Blocks(f), IsHollow(g, c)
       PROVE  /\ c # b /\ c # s => IsHollow(f, c)
              /\ c = b => IsHollow(f, b) /\ IsHollow(f, s)
  <2>1. \A d \in Blocks(f) : \A i \in Range(Ins(f, d)) :
          i \in Instrs(f) /\ (IsPhi(g, i) <=> IsPhi(f, i)) /\ g.code[i].op = f.code[i].op
    BY <1>4, <1>11 DEF IsPhi
  <2>2. CASE c # b /\ c # s
    BY <1>4, <1>22, <2>1, <2>2 DEF IsHollow
  <2>3. CASE c = b
    <3>1. \A i \in Range(Kept(f, b)) \cup Range(Ins(f, s)) : IsPhi(g, i) \/ IsTerminator(g.code[i].op)
      BY <1>10, <1>22, <2>3 DEF IsHollow
    <3>2. \A i \in Range(Ins(f, s)) : IsPhi(f, i) \/ IsTerminator(f.code[i].op)
      BY <1>4, <2>1, <3>1
    <3>3. ASSUME NEW i \in Range(Ins(f, b)) PROVE IsPhi(f, i) \/ IsTerminator(f.code[i].op)
      <4>1. CASE i \in Range(Kept(f, b))
        BY <1>3, <2>1, <3>1, <4>1
      <4>2. CASE i \notin Range(Kept(f, b))
        BY <1>10, <4>2
      <4> QED
        BY <4>1, <4>2
    <3> QED
      BY <3>2, <3>3, <2>3 DEF IsHollow
  <2> QED
    BY <2>2, <2>3, <1>4, <1>5
<1>23. EmptyLoopsAreEntered(g)
  <2> SUFFICES ASSUME NEW D \in SUBSET {c \in Q : IsHollow(g, c)}, IsRing(g, D)
               PROVE  \E p \in Q \ D : FallsThrough(g, p) /\ Range(Succ(g, p)) \cap D # {}
    BY DEF EmptyLoopsAreEntered, Q
  <2>1. D \subseteq Q /\ D \subseteq R /\ D \subseteq Blocks(f)
    BY <1>8, <1>13, <1>14
  <2>2. s \notin D
    BY <1>4, <1>7 DEF IsRing
  <2>3. s # f.entry
    <3>1. SUFFICES ASSUME s = f.entry PROVE FALSE
      OBVIOUS
    <3> DEFINE X == {s}
    <3>2. g.entry \in X /\ \A c \in X : Range(Succ(g, c)) \subseteq X
      BY <1>4, <1>7, <3>1
    <3> HIDE DEF X
    <3>3. Q \subseteq X
      BY <1>12, <3>2, ReachableIsLeast DEF Q
    <3> QED
      BY <2>1, <2>2, <3>3 DEF X, IsRing
  <2>4. s \notin Q /\ R \subseteq Q \cup {s} /\ (s \in R => b \in Q)
    BY <1>21, <2>3
  <2> DEFINE C == D \cup {t \in {s} : b \in D}
  <2>5. C \in SUBSET {c \in R : IsHollow(f, c)}
    <3>1. \A c \in D : c \in R /\ c \in Blocks(f) /\ c # s /\ IsHollow(g, c)
      BY <2>1, <2>2
    <3>2. b \in D => s \in R
      BY <1>4, <1>6, <2>1
    <3> QED
      BY <1>22, <3>1, <3>2
  <2>6. IsRing(f, C)
    <3>1. C # {}
      BY DEF IsRing
    <3>2. ASSUME NEW c \in C PROVE \E d \in C : d \in Range(Succ(f, c))
      <4>1. CASE c = s
        <5>1. b \in D
          BY <2>2, <4>1
        <5>2. \E d \in D : d \in Range(Succ(g, b))
          BY <5>1 DEF IsRing
        <5> QED
          BY <1>4, <4>1, <5>2
      <4>2. CASE c = b
        BY <1>4, <1>5, <4>2
      <4>3. CASE c # s /\ c # b
        <5>1. c \in D /\ c \in Blocks(f)
          BY <2>1, <4>3
        <5>2. \E d \in D : d \in Range(Succ(g, c))
          BY <5>1 DEF IsRing
        <5> QED
          BY <1>4, <4>3, <5>1, <5>2
      <4> QED
        BY <4>1, <4>2, <4>3
    <3>3. ASSUME NEW c \in C PROVE \E d \in C : c \in Range(Succ(f, d))
      <4>1. CASE c = s
        <5>1. b \in D
          BY <2>2, <4>1
        <5> QED
          BY <1>4, <4>1, <5>1
      <4>2. CASE c # s
        <5>1. c \in D
          BY <4>2
        <5>2. PICK d \in D : c \in Range(Succ(g, d))
          BY <5>1 DEF IsRing
        <5>3. CASE d = b
          BY <1>4, <5>2, <5>3
        <5>4. CASE d # b
          BY <1>4, <2>1, <2>2, <5>2, <5>4
        <5> QED
          BY <5>3, <5>4
      <4> QED
        BY <4>1, <4>2
    <3> QED
      BY <3>1, <3>2, <3>3 DEF IsRing
  <2>7. PICK p \in R \ C : FallsThrough(f, p) /\ Range(Succ(f, p)) \cap C # {}
    <3> HIDE DEF C
    <3>1. C \in SUBSET {c \in Reachable(f) : IsHollow(f, c)}
      BY <2>5 DEF R
    <3> QED
      BY <1>1, <2>6, <3>1 DEF EmptyLoopsAreEntered, R
  <2>8. \A d \in Blocks(f) : \A i \in Range(Ins(f, d)) :
          i \in Instrs(f) /\ g.code[i].op = f.code[i].op
    BY <1>4, <1>11
  <2>9. CASE p = s
    <3>1. b \in Q /\ b \notin D
      BY <2>4, <2>7, <2>9
    <3>2. Range(Succ(g, b)) \cap D # {}
      BY <1>4, <2>7, <2>9, <3>1
    <3>3. FallsThrough(g, b)
      <4>1. \A i \in Range(Ins(f, s)) : f.code[i].op \notin {"br", "cond_br"}
        BY <2>7, <2>9 DEF FallsThrough
      <4>2. \A i \in Range(Ins(g, b)) : f.code[i].op \notin {"br", "cond_br"}
        BY <1>10, <4>1
      <4>3. \A i \in Range(Ins(g, b)) : g.code[i].op = f.code[i].op
        BY <1>3, <1>4, <1>10, <2>8
      <4> QED
        BY <4>2, <4>3 DEF FallsThrough
    <3> QED
      BY <3>1, <3>2, <3>3
  <2>10. CASE p # s
    <3>1. p \in Q /\ p \notin D /\ p \in Blocks(f)
      BY <1>8, <1>13, <2>4, <2>7, <2>10
    <3>2. p # b
      <4>1. p = b => s \in C
        BY <1>4, <2>7
      <4> QED
        BY <2>2, <3>1, <4>1
    <3>3. Succ(g, p) = Succ(f, p) /\ Ins(g, p) = Ins(f, p)
      BY <1>4, <2>10, <3>1, <3>2
    <3>4. s \notin Range(Succ(f, p))
      BY <1>9, <2>7, <3>2
    <3>5. Range(Succ(g, p)) \cap D # {}
      BY <2>7, <3>3, <3>4
    <3>6. FallsThrough(g, p)
      BY <2>7, <2>8, <3>1, <3>3 DEF FallsThrough
    <3> QED
      BY <3>1, <3>5, <3>6
  <2> QED
    BY <2>9, <2>10
<1> QED
  BY <1>4, <1>15, <1>16, <1>17, <1>19, <1>20, <1>23 DEF WellLinked, g

-----------------------------------------------------------------------------
\* What simplify_phis leaves of the blocks and the instructions when it
\* erases phi i from block b.
LEMMA WithoutPhiParts ==
  ASSUME NEW f, IsFunction(f), NEW b \in Blocks(f), NEW i \in Instrs(f),
         DOMAIN f.code[i].inc # {}
  PROVE  LET g == WithoutPhi(f, b, i)
         IN  /\ IsFunction(g)
             /\ Blocks(g) = Blocks(f) /\ Instrs(g) = Instrs(f)
             /\ g.entry = f.entry /\ g.order = f.order
             /\ Ins(g, b) = Dropped(Ins(f, b), i)
             /\ \A c \in Blocks(f) : /\ c # b => Ins(g, c) = Ins(f, c)
                                     /\ Succ(g, c) = Succ(f, c) /\ Pred(g, c) = Pred(f, c)
             /\ \A u \in Instrs(f) :
                  /\ g.code[u].op = f.code[u].op /\ g.code[u].tgt = f.code[u].tgt
                  /\ g.code[u].parent = f.code[u].parent
<1> DEFINE g == WithoutPhi(f, b, i)
           B == Blocks(f)
           I == Instrs(f)
           val == CHOOSE v \in Incoming(f, i) : TRUE
           kept == [v \in I |-> IF v \in Range(f.code[i].args) THEN Dropped(f.users[v], i)
                                ELSE f.users[v]]
           readers == kept[i]
           args(u) == IF u = i THEN <<>>
                      ELSE IF u \in Range(readers) THEN Replaced(f.code[u].args, i, val)
                      ELSE f.code[u].args
           code == [u \in I |-> [f.code[u] EXCEPT !.args = args(u)]]
           users == [kept EXCEPT ![val] = @ \o readers, ![i] = <<>>]
           block == [f.block EXCEPT ![b].ins = Dropped(@, i)]
<1>1. g = [f EXCEPT !.code = code, !.users = users, !.block[b].ins = Dropped(@, i)]
  BY DEF WithoutPhi
<1>2. /\ DOMAIN f = {"entry", "order", "block", "code", "users"}
      /\ f.entry \in B /\ f.order \in Seq(B)
      /\ f.users \in [I -> Seq(I)]
      /\ f.block \in [B -> [ins : Seq(I), succ : Seq(B), pred : Seq(B)]]
      /\ \A u \in I : IsCode(f, u)
      /\ b \in B /\ i \in I
  BY FunctionParts
<1> HIDE DEF g, B, I, block, code, val, kept, args, users
<1>3. /\ DOMAIN g = DOMAIN f
      /\ g.entry = f.entry /\ g.order = f.order
      /\ g.block = block /\ g.code = code /\ g.users = users
  BY <1>1, <1>2 DEF block
<1>4. val \in I
  <2>1. Range(f.code[i].inc) \subseteq I
    BY <1>2 DEF IsCode, I
  <2>2. \E v : v \in Incoming(f, i)
    BY DEF Incoming, Range
  <2> QED
    BY <2>1, <2>2 DEF val, Incoming
<1>5. ASSUME NEW t \in Seq(I) PROVE Dropped(t, i) \in Seq(I) /\ Range(Dropped(t, i)) = Range(t) \ {i}
  <2>1. /\ Filtered(t, Range(t) \ {i}) \in Seq(I)
        /\ Range(Filtered(t, Range(t) \ {i})) = Range(t) \cap (Range(t) \ {i})
    BY FilteredFacts
  <2> QED
    BY <2>1 DEF Dropped
<1>6. kept \in [I -> Seq(I)] /\ readers \in Seq(I)
  BY <1>2, <1>5 DEF kept
<1>7. users \in [I -> Seq(I)]
  <2>1. kept[val] \o readers \in Seq(I)
    BY <1>4, <1>6, ConcatFacts
  <2> DEFINE more == [kept EXCEPT ![val] = kept[val] \o readers]
  <2>2. more \in [I -> Seq(I)]
    BY <1>6, <2>1
  <2>3. users = [more EXCEPT ![i] = <<>>]
    BY DEF users
  <2>4. <<>> \in Seq(I)
    OBVIOUS
  <2> HIDE DEF more
  <2> QED
    BY <1>2, <2>2, <2>3, <2>4
<1>8. /\ block \in [B -> [ins : Seq(I), succ : Seq(B), pred : Seq(B)]]
      /\ block[b].ins = Dropped(f.block[b].ins, i)
      /\ \A c \in B : /\ c # b => block[c].ins = f.block[c].ins
                      /\ block[c].succ = f.block[c].succ /\ block[c].pred = f.block[c].pred
  <2>1. Dropped(f.block[b].ins, i) \in Seq(I)
    BY <1>2, <1>5
  <2>2. block = [f.block EXCEPT ![b] = [f.block[b] EXCEPT !.ins = Dropped(f.block[b].ins, i)]]
    BY DEF block
  <2>3. f.block[b] \in [ins : Seq(I), succ : Seq(B), pred : Seq(B)]
    BY <1>2
  <2> DEFINE r == [f.block[b] EXCEPT !.ins = Dropped(f.block[b].ins, i)]
  <2>4. /\ r \in [ins : Seq(I), succ : Seq(B), pred : Seq(B)]
        /\ r.ins = Dropped(f.block[b].ins, i)
        /\ r.succ = f.block[b].succ /\ r.pred = f.block[b].pred
    BY <2>1, <2>3
  <2> HIDE DEF r
  <2>5. block \in [B -> [ins : Seq(I), succ : Seq(B), pred : Seq(B)]]
    BY <1>2, <2>2, <2>4 DEF r
  <2>6. block[b] = r /\ \A c \in B : c # b => block[c] = f.block[c]
    BY <1>2, <2>2 DEF r
  <2> QED
    BY <2>4, <2>5, <2>6
<1>9. ASSUME NEW u \in I
      PROVE  /\ DOMAIN code[u] = DOMAIN f.code[u]
             /\ code[u].op = f.code[u].op /\ code[u].tgt = f.code[u].tgt
             /\ code[u].ty = f.code[u].ty /\ code[u].k = f.code[u].k
             /\ code[u].parent = f.code[u].parent /\ code[u].inc = f.code[u].inc
             /\ code[u].args \in Seq(I)
  <2>1. /\ DOMAIN f.code[u] = {"op", "ty", "args", "k", "tgt", "inc", "parent"}
        /\ f.code[u].args \in Seq(I)
    BY <1>2 DEF IsCode, I
  <2>2. Replaced(f.code[u].args, i, val) \in Seq(I)
    BY <1>4, <2>1, ReplacedFacts
  <2>3. args(u) \in Seq(I)
    BY <2>1, <2>2 DEF args
  <2>4. code[u] = [f.code[u] EXCEPT !.args = args(u)]
    BY DEF code
  <2> QED
    BY <2>1, <2>3, <2>4
<1>10. /\ Blocks(g) = B /\ Instrs(g) = I
       /\ \A c \in B : Ins(g, c) = block[c].ins /\ Succ(g, c) = block[c].succ
                       /\ Pred(g, c) = block[c].pred
  BY <1>3, <1>8 DEF Blocks, Instrs, Ins, Succ, Pred, code
<1>11. IsFunction(g)
  <2>1. ASSUME NEW u \in I PROVE IsCode(g, u)
    <3>1. IsCode(f, u)
      BY <1>2
    <3> QED
      BY <1>3, <1>9, <1>10, <3>1 DEF IsCode, B, I
  <2> QED
    BY <1>2, <1>3, <1>7, <1>8, <1>10, <2>1 DEF IsFunction, Blocks, Instrs
<1> QED
  BY <1>2, <1>3, <1>8, <1>9, <1>10, <1>11 DEF g, B, I, Ins, Succ, Pred

LEMMA WithoutPhiWellLinked ==
  ASSUME NEW f, WellLinked(f), NEW b \in Range(f.order), NEW i \in Instrs(f),
         IsPhi(f, i), DOMAIN f.code[i].inc # {}
  PROVE  /\ WellLinked(WithoutPhi(f, b, i))
         /\ WithoutPhi(f, b, i).order = f.order
         /\ Instrs(WithoutPhi(f, b, i)) = Instrs(f)
<1> DEFINE g == WithoutPhi(f, b, i)
           R == Reachable(f)
           O == Range(f.order)
<1>1. /\ IsFunction(f) /\ Linked(f) /\ ListsClosed(f) /\ InOwnBlock(f) /\ TwoWays(f)
      /\ BranchesLast(f) /\ LabelsNameBlocks(f) /\ EmptyLoopsAreEntered(f)
  BY ListsAreClosed DEF WellLinked
<1>2. /\ f.order \in Seq(Blocks(f)) /\ O \subseteq Blocks(f)
      /\ \A c \in Blocks(f) : Ins(f, c) \in Seq(Instrs(f))
  BY <1>1, FunctionParts
<1>3. b \in Blocks(f)
  BY <1>2
<1>4. /\ IsFunction(g)
      /\ Blocks(g) = Blocks(f) /\ Instrs(g) = Instrs(f)
      /\ g.entry = f.entry /\ g.order = f.order
      /\ Ins(g, b) = Dropped(Ins(f, b), i)
      /\ \A c \in Blocks(f) : /\ c # b => Ins(g, c) = Ins(f, c)
                              /\ Succ(g, c) = Succ(f, c) /\ Pred(g, c) = Pred(f, c)
      /\ \A u \in Instrs(f) :
           /\ g.code[u].op = f.code[u].op /\ g.code[u].tgt = f.code[u].tgt
           /\ g.code[u].parent = f.code[u].parent
  BY <1>1, <1>3, WithoutPhiParts
<1>5. f.entry \in R /\ R \subseteq O
  BY <1>1, ReachableFacts
<1> HIDE DEF g, R, O
<1>6. \A c \in O : c \in Blocks(f) /\ Succ(g, c) = Succ(f, c) /\ Pred(g, c) = Pred(f, c)
  BY <1>2, <1>4
<1>7. ListsClosed(g)
  BY <1>1, <1>4, <1>6 DEF ListsClosed, O
<1>8. Reachable(g) = R
  <2>1. \A c \in Reachable(f) : Range(Succ(g, c)) = Range(Succ(f, c))
    BY <1>5, <1>6 DEF R
  <2> QED
    BY <1>1, <1>4, <1>7, <2>1, SameEdges DEF R
<1>9. Linked(g)
  <2>1. \A c \in O : Range(Succ(f, c)) \cup Range(Pred(f, c)) \subseteq O
    BY <1>1 DEF Linked, O
  <2>2. \A c \in R : \A s \in Range(Succ(f, c)) : c \in Range(Pred(f, s))
    BY <1>1 DEF Linked, R
  <2>3. ASSUME NEW c \in R, NEW s \in Range(Succ(g, c)) PROVE c \in Range(Pred(g, s))
    <3>1. c \in O /\ s \in Range(Succ(f, c)) /\ s \in O
      BY <1>5, <1>6, <2>1
    <3> QED
      BY <1>6, <2>2, <3>1
  <2>4. f.entry \in O
    BY <1>5
  <2> QED
    BY <1>4, <1>6, <1>8, <2>1, <2>3, <2>4 DEF Linked, O
\* Instructions are only taken out, and what is taken out is a phi.
<1>10. ASSUME NEW c \in Blocks(f)
       PROVE  /\ Range(Ins(g, c)) \subseteq Range(Ins(f, c))
              /\ Range(Ins(f, c)) \subseteq Range(Ins(g, c)) \cup {i}
              /\ Range(Ins(f, c)) \subseteq Instrs(f)
              /\ \A k \in 1 .. Len(Ins(g, c)) - 1 :
                   \E j \in 1 .. Len(Ins(f, c)) - 1 : Ins(g, c)[k] = Ins(f, c)[j]
  <2> DEFINE t == Ins(f, c)
             S == Range(t) \ {i}
  <2>1. t \in Seq(Instrs(f)) /\ Range(t) \subseteq Instrs(f)
    BY <1>2 DEF Range
  <2>2. CASE c = b
    <3>1. Ins(g, c) = Filtered(t, S)
      BY <1>4, <2>2 DEF Dropped
    <3> HIDE DEF t, S
    <3>2. /\ Range(Filtered(t, S)) = Range(t) \cap S
          /\ \A k \in 1 .. Len(Filtered(t, S)) - 1 :
               \E j \in 1 .. Len(t) - 1 : Filtered(t, S)[k] = t[j]
      BY <2>1, FilteredFacts
    <3>3. Range(Ins(g, c)) = Range(t) \ {i}
      BY <3>1, <3>2 DEF S
    <3> QED
      BY <2>1, <3>1, <3>2, <3>3 DEF t
  <2>3. CASE c # b
    BY <1>4, <2>1, <2>3
  <2> QED
    BY <2>2, <2>3
<1>11. InOwnBlock(g)
  BY <1>1, <1>4, <1>10 DEF InOwnBlock
<1>12. BranchesLast(g)
  <2> SUFFICES ASSUME NEW c \in O, NEW k \in 1 .. Len(Ins(g, c)) - 1
               PROVE  g.code[Ins(g, c)[k]].op \notin {"br", "cond_br"}
    BY <1>4 DEF BranchesLast, O
  <2>1. c \in Blocks(f)
    BY <1>6
  <2>2. PICK j \in 1 .. Len(Ins(f, c)) - 1 : Ins(g, c)[k] = Ins(f, c)[j]
    BY <1>10, <2>1
  <2> DEFINE u == Ins(f, c)[j]
  <2>3. u \in Instrs(f)
    <3>1. Ins(f, c) \in Seq(Instrs(f)) /\ Len(Ins(f, c)) \in Nat
      BY <1>2, <2>1
    <3> QED
      BY <3>1
  <2>4. f.code[u].op \notin {"br", "cond_br"}
    BY <1>1 DEF BranchesLast, O
  <2> QED
    BY <1>4, <2>2, <2>3, <2>4
<1>13. ASSUME NEW c \in O, NEW u \in Range(Ins(g, c))
       PROVE  /\ u \in Range(Ins(f, c)) /\ Succ(g, c) = Succ(f, c)
              /\ g.code[u].op = f.code[u].op /\ g.code[u].tgt = f.code[u].tgt
  BY <1>4, <1>6, <1>10
<1>14. TwoWays(g)
  <2> SUFFICES ASSUME NEW c \in O, NEW u \in Range(Ins(g, c)), g.code[u].op = "cond_br"
               PROVE  Len(Succ(g, c)) = 2
    BY <1>4 DEF TwoWays, O
  <2> QED
    BY <1>1, <1>13 DEF TwoWays, O
<1>15. LabelsNameBlocks(g)
  <2> SUFFICES ASSUME NEW c \in O, NEW u \in Range(Ins(g, c)), g.code[u].op = "cond_br",
                      g.code[u].tgt[1] = g.code[u].tgt[2]
               PROVE  Succ(g, c)[1] = Succ(g, c)[2]
    BY <1>4 DEF LabelsNameBlocks, O
  <2> QED
    BY <1>1, <1>13 DEF LabelsNameBlocks, O
<1>16. EmptyLoopsAreEntered(g)
  <2>1. ASSUME NEW c \in R
        PROVE  /\ Range(Succ(g, c)) = Range(Succ(f, c))
               /\ IsHollow(g, c) => IsHollow(f, c)
               /\ FallsThrough(f, c) => FallsThrough(g, c)
    <3>1. c \in O /\ c \in Blocks(f)
      BY <1>5, <1>6
    <3>2. IsHollow(g, c) => IsHollow(f, c)
      <4> SUFFICES ASSUME IsHollow(g, c), NEW u \in Range(Ins(f, c))
                   PROVE  IsPhi(f, u) \/ IsTerminator(f.code[u].op)
        BY DEF IsHollow
      <4>1. u = i \/ u \in Range(Ins(g, c))
        BY <1>10, <3>1
      <4> QED
        BY <1>13, <3>1, <4>1 DEF IsHollow, IsPhi
    <3>3. FallsThrough(f, c) => FallsThrough(g, c)
      BY <1>13, <3>1 DEF FallsThrough
    <3> QED
      BY <1>6, <3>1, <3>2, <3>3
  <2> QED
    BY <1>1, <1>8, <2>1, RingsKept DEF R
<1> QED
  BY <1>4, <1>9, <1>11, <1>12, <1>14, <1>15, <1>16 DEF WellLinked, g

-----------------------------------------------------------------------------
\* What remove_trivial_blocks leaves of the blocks and the instructions when
\* it bypasses b on the way to its successor.
LEMMA BypassedParts ==
  ASSUME NEW f, IsFunction(f), NEW b \in Blocks(f), Len(Succ(f, b)) = 1
  PROVE  LET g == Bypassed(f, b)
             s == Succ(f, b)[1]
             from == Range(Pred(f, b))
         IN  /\ IsFunction(g)
             /\ Blocks(g) = Blocks(f) /\ Instrs(g) = Instrs(f)
             /\ g.order = f.order
             /\ g.entry = IF f.entry = b THEN s ELSE f.entry
             /\ s \in Blocks(f) /\ Range(Succ(f, b)) = {s}
             /\ \A c \in Blocks(f) :
                  /\ Ins(g, c) = Ins(f, c)
                  /\ Succ(g, c) = IF c \in from THEN Replaced(Succ(f, c), b, s) ELSE Succ(f, c)
                  /\ c # s => Pred(g, c) = Pred(f, c)
             /\ Range(Pred(f, s)) \ {b} \subseteq Range(Pred(g, s))
             /\ s # b => from \subseteq Range(Pred(g, s))
             /\ Range(Pred(g, s)) \subseteq Range(Pred(f, s)) \cup from
             /\ \A i \in Instrs(f) :
                  /\ g.code[i].op = f.code[i].op /\ g.code[i].tgt = f.code[i].tgt
                  /\ g.code[i].parent = f.code[i].parent
<1> DEFINE g == Bypassed(f, b)
           s == Succ(f, b)[1]
           B == Blocks(f)
           I == Instrs(f)
           from == Range(Pred(f, b))
           moves(i) == /\ i \in Range(Ins(f, s)) /\ IsPhi(f, i) /\ b \in DOMAIN f.code[i].inc
           movers(v) == Filtered(Ins(f, s), {i \in Range(Ins(f, s)) :
                                               moves(i) /\ f.code[i].inc[b] = v})
           gained(v) == IF from = {} THEN <<>> ELSE movers(v)
           entry == IF f.entry = b THEN s ELSE f.entry
           succ(c) == IF c \in from THEN Replaced(Succ(f, c), b, s) ELSE Succ(f, c)
           pred(c) == IF c = s THEN NewPred(f, b, s) ELSE Pred(f, c)
           block == [c \in B |-> [f.block[c] EXCEPT !.succ = succ(c), !.pred = pred(c)]]
           moved(i) == Moved(f.code[i].inc, b, from)
           code == [i \in I |-> IF moves(i) THEN [f.code[i] EXCEPT !.inc = moved(i)]
                                ELSE f.code[i]]
           users == [v \in I |-> f.users[v] \o gained(v)]
<1>1. g = [f EXCEPT !.entry = entry, !.code = code, !.users = users, !.block = block]
  BY DEF Bypassed, Succ, Pred
<1>2. /\ DOMAIN f = {"entry", "order", "block", "code", "users"}
      /\ f.entry \in B /\ f.order \in Seq(B)
      /\ f.users \in [I -> Seq(I)]
      /\ f.block \in [B -> [ins : Seq(I), succ : Seq(B), pred : Seq(B)]]
      /\ \A c \in B : Ins(f, c) \in Seq(I) /\ Succ(f, c) \in Seq(B) /\ Pred(f, c) \in Seq(B)
      /\ \A i \in I : IsCode(f, i)
      /\ b \in B
  BY FunctionParts
<1>3. s \in B /\ Range(Succ(f, b)) = {s}
  <2> DEFINE t == Succ(f, b)
  <2>1. t \in Seq(B) /\ Len(t) = 1
    BY <1>2
  <2>2. DOMAIN t = {1} /\ t[1] \in B
    BY <2>1
  <2> HIDE DEF t
  <2>3. Range(t) = {t[1]}
    BY <2>2 DEF Range
  <2> QED
    BY <2>2, <2>3 DEF t
<1> HIDE DEF g, s, B, I, from, moves, movers, gained, entry, succ, pred, block, moved, code, users
<1>4. /\ DOMAIN g = DOMAIN f
      /\ g.entry = entry /\ g.order = f.order
      /\ g.block = block /\ g.code = code /\ g.users = users
  BY <1>1, <1>2
<1>5. /\ NewPred(f, b, s) \in Seq(B)
      /\ Range(Pred(f, s)) \ {b} \subseteq Range(NewPred(f, b, s))
      /\ s # b => from \subseteq Range(NewPred(f, b, s))
      /\ Range(NewPred(f, b, s)) \subseteq Range(Pred(f, s)) \cup from
  <2> DEFINE p == Pred(f, s)
             left == Dropped(p, b)
             more == IF s = b THEN left ELSE Pred(f, b)
  <2>1. p \in Seq(B) /\ Pred(f, b) \in Seq(B)
    BY <1>2, <1>3
  <2>2. left \in Seq(B) /\ Range(left) = Range(p) \ {b}
    <3> HIDE DEF p
    <3>1. /\ Filtered(p, Range(p) \ {b}) \in Seq(B)
          /\ Range(Filtered(p, Range(p) \ {b})) = Range(p) \cap (Range(p) \ {b})
      BY <2>1, FilteredFacts
    <3> QED
      BY <3>1 DEF Dropped
  <2> HIDE DEF left
  <2>3. more \in Seq(B) /\ Range(more) = IF s = b THEN Range(left) ELSE from
    BY <2>1, <2>2 DEF from
  <2> HIDE DEF more
  <2>4. left \o more \in Seq(B) /\ Range(left \o more) = Range(left) \cup Range(more)
    BY <2>2, <2>3, ConcatFacts
  <2>5. NewPred(f, b, s) = left \o more
    BY DEF NewPred, left, more
  <2> QED
    BY <2>2, <2>3, <2>4, <2>5
<1>6. ASSUME NEW c \in B
      PROVE  /\ block[c] \in [ins : Seq(I), succ : Seq(B), pred : Seq(B)]
             /\ block[c].ins = f.block[c].ins
             /\ block[c].succ = succ(c) /\ block[c].pred = pred(c)
  <2>1. succ(c) \in Seq(B)
    <3>1. Replaced(Succ(f, c), b, s) \in Seq(B)
      BY <1>2, <1>3, ReplacedFacts
    <3> QED
      BY <1>2, <3>1 DEF succ
  <2>2. pred(c) \in Seq(B)
    BY <1>2, <1>5 DEF pred
  <2>3. block[c] = [f.block[c] EXCEPT !.succ = succ(c), !.pred = pred(c)]
    BY DEF block
  <2>4. f.block[c] \in [ins : Seq(I), succ : Seq(B), pred : Seq(B)]
    BY <1>2
  <2> QED
    BY <2>1, <2>2, <2>3, <2>4
<1>7. block \in [B -> [ins : Seq(I), succ : Seq(B), pred : Seq(B)]]
  <2>1. block = [c \in B |-> block[c]]
    BY DEF block
  <2> QED
    BY <1>6, <2>1
<1>8. users \in [I -> Seq(I)]
  <2>1. ASSUME NEW v \in I PROVE f.users[v] \o gained(v) \in Seq(I)
    <3>1. Ins(f, s) \in Seq(I)
      BY <1>2, <1>3
    <3>2. movers(v) \in Seq(I)
      BY <3>1, FilteredFacts DEF movers
    <3>3. gained(v) \in Seq(I)
      BY <3>2 DEF gained
    <3>4. f.users[v] \in Seq(I)
      BY <1>2
    <3> QED
      BY <3>3, <3>4, ConcatFacts
  <2> QED
    BY <2>1 DEF users
<1>9. ASSUME NEW i \in I
      PROVE  /\ DOMAIN code[i] = DOMAIN f.code[i]
             /\ code[i].op = f.code[i].op /\ code[i].tgt = f.code[i].tgt
             /\ code[i].ty = f.code[i].ty /\ code[i].k = f.code[i].k
             /\ code[i].args = f.code[i].args /\ code[i].parent = f.code[i].parent
             /\ DOMAIN code[i].inc \subseteq B /\ Range(code[i].inc) \subseteq I
  <2>1. /\ DOMAIN f.code[i] = {"op", "ty", "args", "k", "tgt", "inc", "parent"}
        /\ DOMAIN f.code[i].inc \subseteq B /\ Range(f.code[i].inc) \subseteq I
    BY <1>2 DEF IsCode, B, I
  <2>2. CASE moves(i)
    <3> DEFINE m == f.code[i].inc
    <3>1. b \in DOMAIN m
      BY <2>2 DEF moves
    <3>2. from \subseteq B
      <4>1. Pred(f, b) \in Seq(B)
        BY <1>2
      <4> QED
        BY <4>1 DEF from, Range
    <3>3. DOMAIN moved(i) \subseteq B
      BY <2>1, <3>2 DEF moved, Moved
    <3>4. \A p \in DOMAIN m : m[p] \in I
      BY <2>1 DEF Range
    <3>5. moved(i) = Moved(m, b, from)
      BY DEF moved
    <3> HIDE DEF m
    <3>6. \A p \in DOMAIN Moved(m, b, from) : Moved(m, b, from)[p] \in I
      BY <3>1, <3>4 DEF Moved
    <3>7. Range(moved(i)) \subseteq I
      BY <3>5, <3>6 DEF Range
    <3>8. code[i] = [f.code[i] EXCEPT !.inc = moved(i)]
      BY <2>2 DEF code
    <3> QED
      BY <2>1, <3>3, <3>7, <3>8
  <2>3. CASE ~moves(i)
    <3>1. code[i] = f.code[i]
      BY <2>3 DEF code
    <3> QED
      BY <2>1, <3>1
  <2> QED
    BY <2>2, <2>3
<1>10. Blocks(g) = B /\ Instrs(g) = I
  BY <1>4, <1>7 DEF Blocks, Instrs, code
<1>11. ASSUME NEW c \in B
       PROVE  Ins(g, c) = Ins(f, c) /\ Succ(g, c) = succ(c) /\ Pred(g, c) = pred(c)
  <2>1. /\ block[c].ins = f.block[c].ins
        /\ block[c].succ = succ(c) /\ block[c].pred = pred(c)
    BY <1>6
  <2> QED
    BY <1>4, <2>1 DEF Ins, Succ, Pred
<1>12. IsFunction(g)
  <2>1. ASSUME NEW i \in I PROVE IsCode(g, i)
    <3>1. IsCode(f, i)
      BY <1>2
    <3> QED
      BY <1>4, <1>9, <1>10, <3>1 DEF IsCode, B, I
  <2>2. entry \in B
    BY <1>2, <1>3 DEF entry
  <2> QED
    BY <1>2, <1>4, <1>7, <1>8, <1>10, <2>1, <2>2 DEF IsFunction, Blocks, Instrs
<1>13. Pred(g, s) = NewPred(f, b, s) /\ \A c \in B : c # s => Pred(g, c) = Pred(f, c)
  BY <1>3, <1>11 DEF pred
<1> QED
  BY <1>3, <1>4, <1>5, <1>9, <1>10, <1>11, <1>12, <1>13 DEF g, s, B, I, from, entry, succ

LEMMA BypassedWellLinked ==
  ASSUME NEW f, WellLinked(f), NEW b \in Range(f.order),
         IsTrivial(f, b), ~BypassAsserts(f, b)
  PROVE  /\ WellLinked(Bypassed(f, b))
         /\ Bypassed(f, b).order = f.order
         /\ Instrs(Bypassed(f, b)) = Instrs(f)
<1> DEFINE g == Bypassed(f, b)
           s == Succ(f, b)[1]
           R == Reachable(f)
           Q == Reachable(g)
           O == Range(f.order)
           from == Range(Pred(f, b))
<1>1. /\ IsFunction(f) /\ Linked(f) /\ ListsClosed(f) /\ InOwnBlock(f) /\ TwoWays(f)
      /\ BranchesLast(f) /\ LabelsNameBlocks(f) /\ EmptyLoopsAreEntered(f)
  BY ListsAreClosed DEF WellLinked
<1>2. /\ f.order \in Seq(Blocks(f)) /\ O \subseteq Blocks(f)
      /\ \A c \in Blocks(f) : Ins(f, c) \in Seq(Instrs(f)) /\ Succ(f, c) \in Seq(Blocks(f))
  BY <1>1, FunctionParts
<1>3. b \in Blocks(f) /\ b \in O /\ Len(Succ(f, b)) = 1
  BY <1>2 DEF BypassAsserts
<1>4. /\ IsFunction(g)
      /\ Blocks(g) = Blocks(f) /\ Instrs(g) = Instrs(f)
      /\ g.order = f.order
      /\ g.entry = IF f.entry = b THEN s ELSE f.entry
      /\ s \in Blocks(f) /\ Range(Succ(f, b)) = {s}
      /\ \A c \in Blocks(f) :
           /\ Ins(g, c) = Ins(f, c)
           /\ Succ(g, c) = IF c \in from THEN Replaced(Succ(f, c), b, s) ELSE Succ(f, c)
           /\ c # s => Pred(g, c) = Pred(f, c)
      /\ Range(Pred(f, s)) \ {b} \subseteq Range(Pred(g, s))
      /\ s # b => from \subseteq Range(Pred(g, s))
      /\ Range(Pred(g, s)) \subseteq Range(Pred(f, s)) \cup from
      /\ \A i \in Instrs(f) :
           /\ g.code[i].op = f.code[i].op /\ g.code[i].tgt = f.code[i].tgt
           /\ g.code[i].parent = f.code[i].parent
  BY <1>1, <1>3, BypassedParts
<1>5. f.entry \in R /\ R \subseteq O /\ \A c \in R : Range(Succ(f, c)) \subseteq R
  BY <1>1, ReachableFacts
\* The instruction of b is a branch, and so is the last of its predecessors.
<1>6. \A p \in from \ {b} : Ins(f, p) # <<>> /\ LastOp(f, p) \in {"br", "cond_br"}
  BY DEF BypassAsserts
<1>7. IsHollow(f, b) /\ ~FallsThrough(f, b)
  <2> DEFINE t == Ins(f, b)
  <2>1. t \in Seq(Instrs(f)) /\ Len(t) = 1 /\ f.code[t[Len(t)]].op = "br"
    BY <1>2, <1>3 DEF IsTrivial, LastOp
  <2>2. DOMAIN t = {1} /\ f.code[t[1]].op = "br"
    BY <2>1
  <2> HIDE DEF t
  <2>3. Range(t) = {t[1]}
    BY <2>2 DEF Range
  <2> QED
    BY <2>2, <2>3 DEF IsHollow, FallsThrough, IsTerminator, t
<1> HIDE DEF g, s, R, Q, O, from
<1>8. ASSUME NEW p \in O, p \in from, p # b PROVE ~FallsThrough(f, p)
  <2> DEFINE t == Ins(f, p)
  <2>1. t \in Seq(Instrs(f)) /\ t # <<>> /\ f.code[t[Len(t)]].op \in {"br", "cond_br"}
    BY <1>2, <1>6, <1>8 DEF LastOp
  <2>2. Len(t) \in DOMAIN t
    BY <2>1
  <2> HIDE DEF t
  <2>3. t[Len(t)] \in Range(t)
    BY <2>2 DEF Range
  <2> QED
    BY <2>1, <2>3 DEF FallsThrough, t
<1>9. /\ \A c \in O : c \in Blocks(f)
      /\ \A c \in O : Range(Succ(f, c)) \subseteq O /\ Range(Pred(f, c)) \subseteq O
      /\ \A c \in R : \A t \in Range(Succ(f, c)) : c \in Range(Pred(f, t))
      /\ s \in O /\ from \subseteq O
  BY <1>1, <1>2, <1>3, <1>4 DEF Linked, O, R, from
\* The successors of a block after the bypass.
<1>10. ASSUME NEW c \in O
       PROVE  /\ Range(Succ(f, c)) \ {b} \subseteq Range(Succ(g, c))
              /\ Range(Succ(g, c)) \subseteq Range(Succ(f, c)) \cup {s}
              /\ Len(Succ(g, c)) = Len(Succ(f, c))
              /\ \A j, k \in 1 .. Len(Succ(f, c)) :
                   Succ(f, c)[j] = Succ(f, c)[k] => Succ(g, c)[j] = Succ(g, c)[k]
              /\ c \in from =>
                   /\ Range(Succ(g, c)) \subseteq (Range(Succ(f, c)) \ {b}) \cup {s}
                   /\ b \in Range(Succ(f, c)) => s \in Range(Succ(g, c))
              /\ b \notin Range(Succ(f, c)) => Range(Succ(g, c)) = Range(Succ(f, c))
  <2>1. c \in Blocks(f) /\ Succ(f, c) \in Seq(Blocks(f))
    BY <1>2, <1>9
  <2> DEFINE t == Succ(f, c)
             r == Replaced(t, b, s)
  <2>2. /\ Len(r) = Len(t)
        /\ \A k \in 1 .. Len(t) : r[k] = IF t[k] = b THEN s ELSE t[k]
        /\ Range(t) \ {b} \subseteq Range(r)
        /\ Range(r) \subseteq (Range(t) \ {b}) \cup {s}
        /\ b \in Range(t) => s \in Range(r)
        /\ b \notin Range(t) => Range(r) = Range(t)
    BY <1>4, <2>1, ReplacedFacts
  <2>3. Succ(g, c) = IF c \in from THEN r ELSE t
    BY <1>4, <2>1
  <2> HIDE DEF t, r
  <2> QED
    BY <2>2, <2>3 DEF t
<1>11. \A c \in R : c \in O /\ (b \in Range(Succ(f, c)) => c \in from)
  BY <1>5, <1>9 DEF from
\* A block of the loop it ends in is reached from outside, by falling through.
<1>12. ASSUME b \in R PROVE s # b
  <2> SUFFICES ASSUME s = b PROVE FALSE
    OBVIOUS
  <2> DEFINE C == {b}
  <2>1. C \in SUBSET {c \in Reachable(f) : IsHollow(f, c)}
    BY <1>7, <1>12 DEF R
  <2>2. IsRing(f, C)
    BY <1>4 DEF IsRing
  <2>3. PICK p \in Reachable(f) \ C : FallsThrough(f, p) /\ Range(Succ(f, p)) \cap C # {}
    <3> HIDE DEF C
    <3> QED
      BY <1>1, <2>1, <2>2 DEF EmptyLoopsAreEntered
  <2>4. p \in R /\ p # b /\ b \in Range(Succ(f, p))
    BY <2>3 DEF R
  <2> QED
    BY <1>8, <1>11, <2>3, <2>4
<1>13. ListsClosed(g)
  <2>1. g.entry \in O
    BY <1>4, <1>5, <1>9
  <2>2. \A c \in O : Range(Succ(g, c)) \subseteq O
    BY <1>9, <1>10
  <2> QED
    BY <1>2, <1>4, <2>1, <2>2 DEF ListsClosed, O
<1>14. g.entry \in Q /\ Q \subseteq O /\ \A c \in Q : Range(Succ(g, c)) \subseteq Q
  BY <1>4, <1>13, ReachableFacts DEF Q, O
\* An unreachable block is bypassed without effect on what is reached.
<1>15. ASSUME b \notin R
       PROVE  /\ Q = R /\ \A c \in R : Range(Succ(g, c)) = Range(Succ(f, c))
  <2>1. \A c \in R : b \notin Range(Succ(f, c))
    BY <1>5, <1>15
  <2>2. \A c \in R : Range(Succ(g, c)) = Range(Succ(f, c))
    BY <1>10, <1>11, <2>1
  <2>3. g.entry = f.entry
    BY <1>4, <1>5, <1>15
  <2>4. Q = R
    BY <1>1, <1>13, <2>2, <2>3, SameEdges DEF Q, R
  <2> QED
    BY <2>2, <2>4
<1>16. ASSUME b \in R
       PROVE  Q \subseteq R \ {b} /\ R \subseteq Q \cup {b}
  <2>1. s # b /\ s \in R
    BY <1>4, <1>5, <1>12, <1>16
  <2>2. Q \subseteq R \ {b}
    <3> DEFINE X == R \ {b}
    <3>1. g.entry \in X
      BY <1>4, <1>5, <2>1
    <3>2. ASSUME NEW c \in X PROVE Range(Succ(g, c)) \subseteq X
      <4>1. Range(Succ(f, c)) \subseteq R
        BY <1>5
      <4>2. CASE c \in from
        BY <1>10, <1>11, <2>1, <4>1, <4>2
      <4>3. CASE c \notin from
        <5>1. b \notin Range(Succ(f, c))
          BY <1>11, <4>3
        <5> QED
          BY <1>10, <1>11, <4>1, <5>1
      <4> QED
        BY <4>2, <4>3
    <3> HIDE DEF X
    <3>3. Q \subseteq X
      BY <1>13, <3>1, <3>2, ReachableIsLeast DEF Q
    <3> QED
      BY <3>3 DEF X
  <2>3. R \subseteq Q \cup {b}
    <3> DEFINE X == Q \cup {t \in {b} : s \in Q}
    <3>1. f.entry \in X
      BY <1>4, <1>14
    <3>2. ASSUME NEW c \in X PROVE Range(Succ(f, c)) \subseteq X
      <4>1. CASE c = b
        <5>1. s \in Q
          BY <2>2, <4>1
        <5> QED
          BY <1>4, <4>1, <5>1
      <4>2. CASE c # b
        <5>1. c \in Q /\ c \in R /\ c \in O
          BY <1>11, <2>2, <4>2
        <5>2. Range(Succ(g, c)) \subseteq Q
          BY <1>14, <5>1
        <5>3. Range(Succ(f, c)) \ {b} \subseteq Q
          BY <1>10, <5>1, <5>2
        <5>4. b \in Range(Succ(f, c)) => s \in Q
          BY <1>10, <1>11, <5>1, <5>2
        <5> QED
          BY <5>3, <5>4
      <4> QED
        BY <4>1, <4>2
    <3> HIDE DEF X
    <3>3. R \subseteq X
      BY <1>1, <3>1, <3>2, ReachableIsLeast DEF R
    <3> QED
      BY <3>3 DEF X
  <2> QED
    BY <2>2, <2>3
<1>17. Q \subseteq R
  BY <1>15, <1>16
<1>18. Linked(g)
  <2>1. ASSUME NEW c \in O PROVE Range(Pred(g, c)) \subseteq O
    BY <1>4, <1>9
  <2>2. ASSUME NEW c \in Q, NEW t \in Range(Succ(g, c)) PROVE c \in Range(Pred(g, t))
    <3>1. c \in R /\ c \in O /\ c # b
      <4>1. c \in R
        BY <1>17
      <4>2. c # b
        BY <1>15, <1>16, <4>1
      <4> QED
        BY <1>11, <4>1, <4>2
    <3>2. CASE t \in Range(Succ(f, c))
      <4>1. c \in Range(Pred(f, t)) /\ t \in Blocks(f)
        BY <1>9, <3>1, <3>2
      <4> QED
        BY <1>4, <3>1, <4>1
    <3>3. CASE t \notin Range(Succ(f, c))
      <4>1. t = s
        BY <1>10, <3>1, <3>3
      <4>2. b \in Range(Succ(f, c))
        BY <1>10, <3>1, <3>3
      <4>3. c \in from /\ b \in R
        BY <1>5, <1>11, <3>1, <4>2
      <4>4. s # b
        BY <1>12, <4>3
      <4> QED
        BY <1>4, <4>1, <4>3, <4>4
    <3> QED
      BY <3>2, <3>3
  <2>3. g.entry \in O /\ \A c \in O : Range(Succ(g, c)) \subseteq O
    BY <1>4, <1>13 DEF ListsClosed, O
  <2> QED
    BY <1>4, <2>1, <2>2, <2>3 DEF Linked, O, Q
<1>19. \A c \in Blocks(f) : Range(Ins(f, c)) \subseteq Instrs(f)
  BY <1>2 DEF Range
<1>20. InOwnBlock(g)
  BY <1>1, <1>4, <1>19 DEF InOwnBlock
<1>21. BranchesLast(g)
  <2> SUFFICES ASSUME NEW c \in O, NEW k \in 1 .. Len(Ins(g, c)) - 1
               PROVE  g.code[Ins(g, c)[k]].op \notin {"br", "cond_br"}
    BY <1>4 DEF BranchesLast, O
  <2> DEFINE t == Ins(f, c)
  <2>1. Ins(g, c) = t /\ t \in Seq(Instrs(f)) /\ Len(t) \in Nat
    BY <1>2, <1>4, <1>9
  <2>2. k \in 1 .. Len(t) - 1
    BY <2>1
  <2>3. t[k] \in Instrs(f)
    BY <2>1, <2>2
  <2>4. f.code[t[k]].op \notin {"br", "cond_br"}
    BY <1>1, <2>2 DEF BranchesLast, O
  <2> QED
    BY <1>4, <2>1, <2>3, <2>4
<1>22. ASSUME NEW c \in O
       PROVE  /\ Ins(g, c) = Ins(f, c)
              /\ \A i \in Range(Ins(f, c)) :
                   g.code[i].op = f.code[i].op /\ g.code[i].tgt = f.code[i].tgt
  BY <1>4, <1>9, <1>19
<1>23. TwoWays(g)
  <2> SUFFICES ASSUME NEW c \in O, NEW i \in Range(Ins(g, c)), g.code[i].op = "cond_br"
               PROVE  Len(Succ(g, c)) = 2
    BY <1>4 DEF TwoWays, O
  <2> QED
    BY <1>1, <1>10, <1>22 DEF TwoWays, O
<1>24. LabelsNameBlocks(g)
  <2> SUFFICES ASSUME NEW c \in O, NEW i \in Range(Ins(g, c)), g.code[i].op = "cond_br",
                      g.code[i].tgt[1] = g.code[i].tgt[2]
               PROVE  Succ(g, c)[1] = Succ(g, c)[2]
    BY <1>4 DEF LabelsNameBlocks, O
  <2>1. Len(Succ(f, c)) = 2 /\ Succ(f, c)[1] = Succ(f, c)[2]
    BY <1>1, <1>22 DEF TwoWays, LabelsNameBlocks, O
  <2>2. 1 \in 1 .. Len(Succ(f, c)) /\ 2 \in 1 .. Len(Succ(f, c))
    BY <2>1
  <2> QED
    BY <1>10, <2>1, <2>2
<1>25. \A c \in O : /\ IsHollow(g, c) <=> IsHollow(f, c)
                    /\ FallsThrough(g, c) <=> FallsThrough(f, c)
  BY <1>22 DEF IsHollow, FallsThrough, IsPhi
<1>26. EmptyLoopsAreEntered(g)
  <2>1. CASE b \notin R
    BY <1>1, <1>11, <1>15, <1>25, <2>1, RingsKept DEF Q, R
  <2>2. CASE b \in R
    <3> SUFFICES ASSUME NEW D \in SUBSET {c \in Q : IsHollow(g, c)}, IsRing(g, D)
                 PROVE  \E p \in Q \ D : FallsThrough(g, p) /\ Range(Succ(g, p)) \cap D # {}
      BY DEF EmptyLoopsAreEntered, Q
    <3> DEFINE C == D \cup {t \in {b} : s \in D /\ \E c \in D : b \in Range(Succ(f, c))}
    <3>1. D \subseteq Q /\ D \subseteq R \ {b} /\ D \subseteq O
      BY <1>14, <1>16, <2>2
    <3>2. C \in SUBSET {c \in R : IsHollow(f, c)}
      <4>1. \A c \in D : c \in R /\ IsHollow(f, c)
        BY <1>25, <3>1
      <4> QED
        BY <1>7, <2>2, <4>1
    <3>3. IsRing(f, C)
      <4>1. C # {}
        BY DEF IsRing
      <4>2. ASSUME NEW c \in C PROVE \E d \in C : d \in Range(Succ(f, c))
        <5>1. CASE c = b
          BY <1>4, <3>1, <5>1
        <5>2. CASE c # b
          <6>1. c \in D /\ c \in O
            BY <3>1, <5>2
          <6>2. PICK d \in D : d \in Range(Succ(g, c))
            BY <6>1 DEF IsRing
          <6>3. CASE d \in Range(Succ(f, c))
            BY <6>3
          <6>4. CASE d \notin Range(Succ(f, c))
            <7>1. d = s /\ b \in Range(Succ(f, c))
              BY <1>10, <6>1, <6>2, <6>4
            <7> QED
              BY <6>1, <7>1
          <6> QED
            BY <6>3, <6>4
        <5> QED
          BY <5>1, <5>2
      <4>3. ASSUME NEW c \in C PROVE \E d \in C : c \in Range(Succ(f, d))
        <5>1. CASE c = b
          BY <3>1, <5>1
        <5>2. CASE c # b
          <6>1. c \in D
            BY <5>2
          <6>2. PICK d \in D : c \in Range(Succ(g, d))
            BY <6>1 DEF IsRing
          <6>3. CASE c \in Range(Succ(f, d))
            BY <6>3
          <6>4. CASE c \notin Range(Succ(f, d))
            <7>1. c = s /\ b \in Range(Succ(f, d))
              BY <1>10, <3>1, <6>2, <6>4
            <7>2. b \in C
              BY <6>1, <7>1
            <7> QED
              BY <1>4, <7>1, <7>2
          <6> QED
            BY <6>3, <6>4
        <5> QED
          BY <5>1, <5>2
      <4> QED
        BY <4>1, <4>2, <4>3 DEF IsRing
    <3>4. PICK p \in R \ C : FallsThrough(f, p) /\ Range(Succ(f, p)) \cap C # {}
      <4> HIDE DEF C
      <4>1. C \in SUBSET {c \in Reachable(f) : IsHollow(f, c)}
        BY <3>2 DEF R
      <4> QED
        BY <1>1, <3>3, <4>1 DEF EmptyLoopsAreEntered, R
    <3>5. p # b /\ p \in O
      BY <1>7, <1>11, <3>4
    <3>6. b \notin Range(Succ(f, p))
      BY <1>8, <1>11, <3>4, <3>5
    <3>7. p \in Q \ D
      BY <1>16, <2>2, <3>4, <3>5
    <3>8. Range(Succ(g, p)) = Range(Succ(f, p))
      BY <1>10, <3>5, <3>6
    <3>9. Range(Succ(g, p)) \cap D # {}
      BY <3>4, <3>6, <3>8
    <3>10. FallsThrough(g, p)
      BY <1>25, <3>4, <3>5
    <3> QED
      BY <3>7, <3>9, <3>10
  <2> QED
    BY <2>1, <2>2
<1> QED
  BY <1>4, <1>18, <1>20, <1>21, <1>23, <1>24, <1>26 DEF WellLinked, g

-----------------------------------------------------------------------------
\* The state of the pass: its loop stands at a block or at the end of the
\* list, its iterator in the vector it remembers, and there is no vector
\* once the last block is done.
InLoops ==
  /\ changed \in BOOLEAN
  /\ pc \in {"unreachable", "terminators", "merge", "phis", "trivial", "done", "aborted"}
  /\ at \in 1 .. Len(fn.order) + 1
  /\ slots \in Seq(Instrs(fn)) /\ slot \in 1 .. Len(slots) + 1
  /\ pc \in {"unreachable", "terminators"} => at = 1
  /\ pc = "phis" /\ at > Len(fn.order) => slots = <<>>

SimplifyInv == WellLinked(fn) /\ InLoops

LEMMA InitHolds == Init => SimplifyInv
<1> SUFFICES ASSUME Init PROVE SimplifyInv
  OBVIOUS
<1>1. fn \in Functions /\ changed = FALSE /\ pc = "unreachable" /\ at = 1
      /\ slots = <<>> /\ slot = 1
  BY DEF Init
<1>2. /\ IsFunction(fn) /\ BranchesResolved(fn) /\ Linked(fn)
      /\ LabelsNameBlocks(fn) /\ EmptyLoopsAreEntered(fn)
  BY <1>1, FunctionsAssumption, LoopsAssumption
<1>3. /\ fn.order \in Seq(Blocks(fn)) /\ Range(fn.order) \subseteq Blocks(fn)
      /\ \A b \in Blocks(fn) : Ins(fn, b) \in Seq(Instrs(fn))
  BY <1>2, FunctionParts
<1>4. \A b \in Blocks(fn) : \A i \in Range(Ins(fn, b)) :
        \E k \in 1 .. Len(Ins(fn, b)) : k \in DOMAIN Ins(fn, b) /\ i = Ins(fn, b)[k]
  BY <1>3 DEF Range
<1>5. InOwnBlock(fn)
  BY <1>2, <1>4 DEF InOwnBlock, BranchesResolved
<1>6. TwoWays(fn)
  BY <1>2, <1>3, <1>4 DEF TwoWays, BranchesResolved
<1>7. BranchesLast(fn)
  <2> SUFFICES ASSUME NEW b \in Range(fn.order), NEW k \in 1 .. Len(Ins(fn, b)) - 1
               PROVE  fn.code[Ins(fn, b)[k]].op \notin {"br", "cond_br"}
    BY DEF BranchesLast
  <2>1. b \in Blocks(fn) /\ Ins(fn, b) \in Seq(Instrs(fn))
    BY <1>3
  <2>2. k \in DOMAIN Ins(fn, b) /\ k # Len(Ins(fn, b))
    BY <2>1
  <2>3. ~IsTerminator(fn.code[Ins(fn, b)[k]].op)
    BY <1>2, <2>1, <2>2 DEF BranchesResolved
  <2> QED
    BY <2>3 DEF IsTerminator
<1>8. InLoops
  <2>1. Len(fn.order) \in Nat
    BY <1>3
  <2>2. <<>> \in Seq(Instrs(fn)) /\ 1 \in 1 .. Len(<<>>) + 1
    OBVIOUS
  <2> QED
    <3>1. slots \in Seq(Instrs(fn)) /\ slot \in 1 .. Len(slots) + 1
      BY <1>1, <2>2, Zenon
    <3>2. at \in 1 .. Len(fn.order) + 1
      BY <1>1, <2>1
    <3> QED
      BY <1>1, <3>1, <3>2 DEF InLoops
<1> QED
  BY <1>2, <1>5, <1>6, <1>7, <1>8 DEF SimplifyInv, WellLinked

LEMMA InstrsAtType ==
  ASSUME NEW k \in Nat \ {0}, IsFunction(fn)
  PROVE  /\ InstrsAt(k) \in Seq(Instrs(fn))
         /\ k > Len(fn.order) => InstrsAt(k) = <<>>
         /\ 1 \in 1 .. Len(InstrsAt(k)) + 1
<1>1. /\ fn.order \in Seq(Blocks(fn))
      /\ \A b \in Blocks(fn) : Ins(fn, b) \in Seq(Instrs(fn))
  BY FunctionParts
<1>2. CASE k <= Len(fn.order)
  <2>1. k \in 1 .. Len(fn.order) /\ Len(fn.order) \in Nat
    BY <1>1, <1>2
  <2>2. fn.order[k] \in Blocks(fn)
    BY <1>1, <2>1
  <2>3. InstrsAt(k) = Ins(fn, fn.order[k]) /\ ~(k > Len(fn.order))
    BY <1>2, <2>1 DEF InstrsAt
  <2>4. InstrsAt(k) \in Seq(Instrs(fn))
    BY <1>1, <2>2, <2>3
  <2>5. Len(InstrsAt(k)) \in Nat
    BY <2>4
  <2> QED
    BY <2>3, <2>4, <2>5
<1>3. CASE ~(k <= Len(fn.order))
  <2>1. InstrsAt(k) = <<>>
    BY <1>3 DEF InstrsAt
  <2>2. <<>> \in Seq(Instrs(fn)) /\ 1 \in 1 .. Len(<<>>) + 1
    OBVIOUS
  <2> QED
    BY <2>1, <2>2
<1> QED
  BY <1>2, <1>3

LEMMA StepKeeps == SimplifyInv /\ [Next]_vars => SimplifyInv'
<1> SUFFICES ASSUME SimplifyInv, [Next]_vars
             PROVE  SimplifyInv'
  OBVIOUS
<1>1. WellLinked(fn) /\ InLoops /\ IsFunction(fn)
  BY DEF SimplifyInv, WellLinked
<1>2. /\ fn.order \in Seq(Blocks(fn)) /\ Len(fn.order) \in Nat
      /\ \A k \in 1 .. Len(fn.order) : fn.order[k] \in Range(fn.order)
      /\ \A b \in Blocks(fn) : Ins(fn, b) \in Seq(Instrs(fn))
  <2>1. fn.order \in Seq(Blocks(fn)) /\ \A b \in Blocks(fn) : Ins(fn, b) \in Seq(Instrs(fn))
    BY <1>1, FunctionParts
  <2> QED
    BY <2>1 DEF Range
<1>3. slots \in Seq(Instrs(fn)) /\ Len(slots) \in Nat /\ at \in Nat \ {0} /\ slot \in Nat \ {0}
  BY <1>1, <1>2 DEF InLoops
\* A rewrite of the function that keeps its order and its instructions, and
\* moves the loop no further than past the last block.
<1>4. ASSUME WellLinked(fn'), fn'.order = fn.order, Instrs(fn') = Instrs(fn),
             at' \in 1 .. Len(fn.order) + 1, slots' = slots, slot' = slot,
             changed' \in BOOLEAN, pc' \in {"merge", "trivial"}
      PROVE  SimplifyInv'
  BY <1>1, <1>4 DEF SimplifyInv, InLoops
<1>5. CASE RemoveUnreachableBlocks
  <2>1. WellLinked(fn') /\ Len(fn'.order) \in Nat
    BY <1>1, <1>5, PrunedWellLinked DEF RemoveUnreachableBlocks
  <2>2. Instrs(fn') = Instrs(fn)
    <3>1. ListsClosed(fn)
      BY <1>1, ListsAreClosed DEF WellLinked
    <3> QED
      BY <1>1, <1>5, <3>1, PrunedParts DEF RemoveUnreachableBlocks
  <2>3. at' = 1 /\ at' \in 1 .. Len(fn'.order) + 1
    BY <1>1, <1>5, <2>1 DEF RemoveUnreachableBlocks, InLoops
  <2>4. pc' = "terminators" /\ changed' \in BOOLEAN /\ slots' = slots /\ slot' = slot
    BY <1>5 DEF RemoveUnreachableBlocks
  <2> QED
    BY <1>1, <2>1, <2>2, <2>3, <2>4 DEF SimplifyInv, InLoops
<1>6. CASE SimplifyTerminators
  <2>1. WellLinked(fn') /\ fn'.order = fn.order /\ Instrs(fn') = Instrs(fn)
    BY <1>1, <1>6, TerminatorsWellLinked DEF SimplifyTerminators
  <2>2. at' \in 1 .. Len(fn.order) + 1 /\ pc' = "merge" /\ slots' = slots /\ slot' = slot
        /\ changed' \in BOOLEAN
    BY <1>1, <1>2, <1>6 DEF SimplifyTerminators, InLoops
  <2> QED
    BY <1>4, <2>1, <2>2
<1>7. CASE MergeBlock
  <2>1. PICK k \in First(Mergeable) : fn' = Merged(fn, fn.order[k]) /\ at' = k + 1
    BY <1>7 DEF MergeBlock
  <2>2. k \in 1 .. Len(fn.order) /\ CanMerge(fn, fn.order[k])
    BY <1>2, <1>3, <2>1 DEF First, Mergeable
  <2>3. WellLinked(fn') /\ fn'.order = fn.order /\ Instrs(fn') = Instrs(fn)
    <3> DEFINE b == fn.order[k]
    <3>1. b \in Range(fn.order) /\ CanMerge(fn, b) /\ fn' = Merged(fn, b)
      BY <1>2, <2>1, <2>2
    <3> HIDE DEF b
    <3> QED
      BY <1>1, <3>1, MergedWellLinked
  <2>4. at' \in 1 .. Len(fn.order) + 1
    BY <1>2, <2>1, <2>2
  <2>5. changed' = TRUE /\ pc' = "merge" /\ slots' = slots /\ slot' = slot
    BY <1>7 DEF MergeBlock
  <2> QED
    BY <1>4, <2>3, <2>4, <2>5
<1>8. CASE MergeDone
  <2>1. fn' = fn /\ changed' = changed /\ pc' = "phis" /\ at' = 1 /\ slot' = 1
        /\ slots' = InstrsAt(1)
    BY <1>8 DEF MergeDone
  <2>2. /\ InstrsAt(1) \in Seq(Instrs(fn)) /\ (1 > Len(fn.order) => InstrsAt(1) = <<>>)
        /\ 1 \in 1 .. Len(InstrsAt(1)) + 1
    BY <1>1, InstrsAtType
  <2>3. 1 \in 1 .. Len(fn.order) + 1
    BY <1>2
  <2> QED
    BY <1>1, <2>1, <2>2, <2>3 DEF SimplifyInv, InLoops
<1>9. CASE ErasePhi
  <2>1. PICK k \in First(Erasable) :
          /\ ~PhiAsserts(k)
          /\ fn' = WithoutPhi(fn, fn.order[at], slots[k])
          /\ slots' = [j \in DOMAIN slots |->
                         IF j <= Len(Ins(fn', fn.order[at])) THEN Ins(fn', fn.order[at])[j]
                         ELSE slots[j]]
          /\ slot' = k + 1
    BY <1>9 DEF ErasePhi
  <2>2. k \in 1 .. Len(slots) /\ IsPhi(fn, slots[k])
    BY <1>3, <2>1 DEF First, Erasable
  <2>3. slots[k] \in Instrs(fn) /\ DOMAIN fn.code[slots[k]].inc # {}
    BY <1>3, <2>1, <2>2 DEF PhiAsserts
  <2>4. pc = "phis" /\ pc' = pc /\ at' = at /\ changed' = TRUE
    BY <1>9 DEF ErasePhi
  <2>5. at \in 1 .. Len(fn.order)
    <3>1. slots # <<>>
      BY <2>2
    <3> QED
      BY <1>1, <1>2, <2>4, <3>1 DEF InLoops
  <2>6. WellLinked(fn') /\ fn'.order = fn.order /\ Instrs(fn') = Instrs(fn)
    <3> DEFINE b == fn.order[at]
               i == slots[k]
    <3>1. b \in Range(fn.order) /\ i \in Instrs(fn) /\ IsPhi(fn, i) /\ DOMAIN fn.code[i].inc # {}
          /\ fn' = WithoutPhi(fn, b, i)
      BY <1>2, <2>1, <2>2, <2>3, <2>5
    <3> HIDE DEF b, i
    <3> QED
      BY <1>1, <3>1, WithoutPhiWellLinked
  <2>7. slots' \in Seq(Instrs(fn)) /\ Len(slots') = Len(slots)
    <3> DEFINE now == Ins(fn', fn.order[at])
               L == Len(slots)
    <3>1. now \in Seq(Instrs(fn))
      <4>1. fn.order[at] \in Blocks(fn')
        <5>1. fn'.order \in Seq(Blocks(fn')) /\ IsFunction(fn')
          BY <2>6, FunctionParts DEF WellLinked
        <5> QED
          BY <2>5, <2>6, <5>1
      <4>2. \A c \in Blocks(fn') : Ins(fn', c) \in Seq(Instrs(fn'))
        BY <2>6, FunctionParts DEF WellLinked
      <4> QED
        BY <2>6, <4>1, <4>2
    <3>2. slots' = [j \in 1 .. L |-> IF j <= Len(now) THEN now[j] ELSE slots[j]]
      BY <1>3, <2>1
    <3> HIDE DEF now
    <3>3. ASSUME NEW j \in 1 .. L
          PROVE  (IF j <= Len(now) THEN now[j] ELSE slots[j]) \in Instrs(fn)
      BY <1>3, <3>1
    <3>4. L \in Nat
      BY <1>3
    <3> HIDE DEF L
    <3>5. slots' \in [1 .. L -> Instrs(fn)]
      BY <3>2, <3>3
    <3>6. slots' \in Seq(Instrs(fn)) /\ Len(slots') = L
      BY <3>4, <3>5
    <3> QED
      BY <3>6 DEF L
  <2>8. slot' \in 1 .. Len(slots') + 1
    BY <1>3, <2>1, <2>2, <2>7
  <2>9. at' \in 1 .. Len(fn'.order) + 1 /\ ~(at' > Len(fn'.order))
    BY <1>2, <2>4, <2>5, <2>6
  <2> QED
    BY <2>4, <2>6, <2>7, <2>8, <2>9 DEF SimplifyInv, InLoops
<1>10. CASE NextBlockOfPhis
  <2>1. fn' = fn /\ changed' = changed /\ pc' = pc /\ at' = at + 1 /\ slot' = 1
        /\ slots' = InstrsAt(at + 1) /\ pc = "phis" /\ at <= Len(fn.order)
    BY <1>10 DEF NextBlockOfPhis
  <2>2. at + 1 \in Nat \ {0} /\ at + 1 \in 1 .. Len(fn.order) + 1
    BY <1>2, <1>3, <2>1
  <2>3. /\ InstrsAt(at + 1) \in Seq(Instrs(fn))
        /\ at + 1 > Len(fn.order) => InstrsAt(at + 1) = <<>>
        /\ 1 \in 1 .. Len(InstrsAt(at + 1)) + 1
    BY <1>1, <2>2, InstrsAtType
  <2> QED
    BY <1>1, <2>1, <2>2, <2>3 DEF SimplifyInv, InLoops
<1>11. CASE PhisDone
  <2>1. at' = 1 /\ at' \in 1 .. Len(fn.order) + 1
    BY <1>2, <1>11 DEF PhisDone
  <2> QED
    BY <1>1, <1>4, <1>11, <2>1 DEF PhisDone, InLoops
<1>12. CASE BypassBlock
  <2>1. PICK k \in First(Bypassable) :
          /\ ~BypassAsserts(fn, fn.order[k])
          /\ fn' = Bypassed(fn, fn.order[k]) /\ at' = k + 1
    BY <1>12 DEF BypassBlock
  <2>2. k \in 1 .. Len(fn.order) /\ IsTrivial(fn, fn.order[k])
    BY <1>2, <1>3, <2>1 DEF First, Bypassable
  <2>3. WellLinked(fn') /\ fn'.order = fn.order /\ Instrs(fn') = Instrs(fn)
    <3> DEFINE b == fn.order[k]
    <3>1. b \in Range(fn.order) /\ IsTrivial(fn, b) /\ ~BypassAsserts(fn, b)
          /\ fn' = Bypassed(fn, b)
      BY <1>2, <2>1, <2>2
    <3> HIDE DEF b
    <3> QED
      BY <1>1, <3>1, BypassedWellLinked
  <2>4. at' \in 1 .. Len(fn.order) + 1
    BY <1>2, <2>1, <2>2
  <2>5. changed' = TRUE /\ pc' = "trivial" /\ slots' = slots /\ slot' = slot
    BY <1>12 DEF BypassBlock
  <2> QED
    BY <1>4, <2>3, <2>4, <2>5
<1>13. CASE RoundDone
  <2>1. fn' = fn /\ changed' = changed /\ slots' = slots /\ slot' = slot /\ at' = 1
        /\ pc' \in {"unreachable", "done"}
    BY <1>13 DEF RoundDone
  <2>2. at' \in 1 .. Len(fn.order) + 1
    BY <1>2, <2>1
  <2> QED
    BY <1>1, <2>1, <2>2 DEF SimplifyInv, InLoops
<1>14. CASE Abort
  BY <1>1, <1>14 DEF Abort, SimplifyInv, InLoops
<1>15. CASE Terminated \/ UNCHANGED vars
  <2>1. UNCHANGED vars
    BY <1>15 DEF Terminated
  <2> QED
    BY <1>1, <2>1 DEF vars, SimplifyInv, InLoops
<1> QED
  BY <1>5, <1>6, <1>7, <1>8, <1>9, <1>10, <1>11, <1>12, <1>13, <1>14, <1>15 DEF Next

\* What every rewrite relies on and keeps: simplify_cfg::run never sees a
\* block whose successors, predecessors and branches disagree.
THEOREM SimplifyInvariant == Spec => []SimplifyInv
<1>1. Init => SimplifyInv
  BY InitHolds
<1>2. SimplifyInv /\ [Next]_vars => SimplifyInv'
  BY StepKeeps
<1> QED
  BY <1>1, <1>2, PTL DEF Spec

\* The function keeps its shape, every instruction stands in the block that
\* is its parent, and the loops of the pass stay inside what they go over.
THEOREM TypeCorrect == Spec => []TypeOK
<1>1. SimplifyInv => TypeOK
  BY DEF SimplifyInv, WellLinked, InLoops, TypeOK, InOwnBlock
<1> QED
  BY <1>1, SimplifyInvariant, PTL

\* However blocks are merged, bypassed and freed, and in whatever order, the
\* lists of successors and predecessors of the blocks that can be reached
\* still fit together, and no list names a block that is gone.
THEOREM SuccAndPredAgree == Spec => []StaysLinked
<1>1. SimplifyInv => StaysLinked
  BY DEF SimplifyInv, WellLinked, StaysLinked
<1> QED
  BY <1>1, SimplifyInvariant, PTL

-----------------------------------------------------------------------------
\* A round that has changed nothing so far has seen that there is nothing
\* left of what it went over.
Tidy(f, b) == \A i \in Range(Ins(f, b)) : IsPhi(f, i) => IsChoice(f, i)

Quiet ==
  /\ Pruned(fn) = fn
  /\ pc \in {"merge", "trivial"} => at = 1
  /\ pc \in {"phis", "trivial", "done"} => \A b \in Range(fn.order) : ~CanMerge(fn, b)
  /\ pc = "phis" => /\ slot = 1 /\ slots = InstrsAt(at)
                    /\ \A j \in 1 .. at - 1 : Tidy(fn, fn.order[j])
  /\ pc \in {"trivial", "done"} => \A b \in Range(fn.order) : Tidy(fn, b)
  /\ pc = "done" => \A b \in Range(fn.order) : ~IsTrivial(fn, b)

QuietRounds ==
  /\ pc = "done" => changed = FALSE
  /\ changed = FALSE /\ pc \notin {"unreachable", "aborted"} => Quiet

LEMMA QuietStep ==
  ASSUME SimplifyInv, QuietRounds, [Next]_vars
  PROVE  QuietRounds'
<1>1. IsFunction(fn) /\ changed \in BOOLEAN /\ at \in 1 .. Len(fn.order) + 1
  BY DEF SimplifyInv, WellLinked, InLoops
<1>2. fn.order \in Seq(Blocks(fn)) /\ Len(fn.order) \in Nat
      /\ Range(fn.order) = {fn.order[k] : k \in 1 .. Len(fn.order)}
  BY <1>1, FunctionParts DEF Range
<1>3. CASE RemoveUnreachableBlocks \/ Abort
  BY <1>3 DEF RemoveUnreachableBlocks, Abort, QuietRounds, Quiet
<1>4. CASE SimplifyTerminators
  <2>1. changed' = FALSE => changed = FALSE /\ fn' = fn
    BY <1>1, <1>4 DEF SimplifyTerminators
  <2>2. pc = "terminators" /\ pc' = "merge" /\ at' = 1
    BY <1>4 DEF SimplifyTerminators
  <2>3. changed' = FALSE => Pruned(fn') = fn'
    <3>1. changed = FALSE => Pruned(fn) = fn
      BY <2>2 DEF QuietRounds, Quiet
    <3> QED
      BY <2>1, <3>1
  <2> QED
    BY <2>2, <2>3 DEF QuietRounds, Quiet
<1>5. CASE MergeBlock \/ ErasePhi \/ BypassBlock
  <2>1. changed' = TRUE /\ pc' = pc /\ pc # "done"
    BY <1>5 DEF MergeBlock, ErasePhi, BypassBlock
  <2> QED
    BY <2>1 DEF QuietRounds
<1>6. CASE MergeDone
  <2>1. /\ pc = "merge" /\ pc' = "phis" /\ at' = 1 /\ slots' = InstrsAt(1) /\ slot' = 1
        /\ fn' = fn /\ changed' = changed /\ Mergeable = {}
    BY <1>6 DEF MergeDone
  <2>2. ASSUME changed = FALSE PROVE \A b \in Range(fn.order) : ~CanMerge(fn, b)
    <3>1. at = 1
      BY <2>1, <2>2 DEF QuietRounds, Quiet
    <3> QED
      BY <1>2, <2>1, <3>1 DEF Mergeable
  <2>3. InstrsAt(1)' = InstrsAt(1)
    BY <2>1 DEF InstrsAt
  <2>4. changed = FALSE => Pruned(fn) = fn
    BY <2>1 DEF QuietRounds, Quiet
  <2>5. 1 .. at' - 1 = {}
    BY <2>1
  <2>6. InstrsAt(at)' = slots'
    BY <2>1, <2>3 DEF InstrsAt
  <2> QED
    BY <2>1, <2>2, <2>4, <2>5, <2>6 DEF QuietRounds, Quiet
<1>7. CASE NextBlockOfPhis
  <2>1. /\ pc = "phis" /\ pc' = "phis" /\ at' = at + 1 /\ slots' = InstrsAt(at + 1)
        /\ slot' = 1 /\ fn' = fn /\ changed' = changed /\ Erasable = {} /\ at <= Len(fn.order)
    BY <1>7 DEF NextBlockOfPhis
  <2>2. InstrsAt(at)' = slots'
    BY <2>1 DEF InstrsAt
  <2>3. ASSUME changed = FALSE PROVE Tidy(fn, fn.order[at])
    <3>1. slot = 1 /\ slots = Ins(fn, fn.order[at])
      BY <2>1, <2>3 DEF QuietRounds, Quiet, InstrsAt
    <3>2. slots \in Seq(Instrs(fn))
      BY DEF SimplifyInv, InLoops
    <3>3. Range(slots) = {slots[k] : k \in 1 .. Len(slots)}
      BY <3>2 DEF Range
    <3> QED
      BY <2>1, <3>1, <3>3 DEF Erasable, Tidy
  <2>4. ASSUME changed = FALSE, NEW j \in 1 .. at' - 1 PROVE Tidy(fn, fn.order[j])
    <3>1. j = at \/ j \in 1 .. at - 1
      BY <1>1, <2>1, <2>4
    <3> QED
      BY <2>1, <2>3, <2>4, <3>1 DEF QuietRounds, Quiet
  <2>5. changed = FALSE => Pruned(fn) = fn /\ \A b \in Range(fn.order) : ~CanMerge(fn, b)
    BY <2>1 DEF QuietRounds, Quiet
  <2> QED
    BY <2>1, <2>2, <2>4, <2>5 DEF QuietRounds, Quiet, Tidy
<1>8. CASE PhisDone
  <2>1. /\ pc = "phis" /\ pc' = "trivial" /\ at' = 1
        /\ fn' = fn /\ changed' = changed /\ at > Len(fn.order)
    BY <1>8 DEF PhisDone
  <2>2. ASSUME changed = FALSE, NEW b \in Range(fn.order) PROVE Tidy(fn, b)
    <3>1. PICK k \in 1 .. Len(fn.order) : b = fn.order[k]
      BY <1>2
    <3>2. k \in 1 .. at - 1
      BY <1>1, <1>2, <2>1, <3>1
    <3> QED
      BY <2>1, <2>2, <3>1, <3>2 DEF QuietRounds, Quiet
  <2>3. changed = FALSE => Pruned(fn) = fn /\ \A b \in Range(fn.order) : ~CanMerge(fn, b)
    BY <2>1 DEF QuietRounds, Quiet
  <2> QED
    BY <2>1, <2>2, <2>3 DEF QuietRounds, Quiet, Tidy
<1>9. CASE RoundDone
  <2>1. /\ pc = "trivial" /\ Bypassable = {} /\ fn' = fn /\ changed' = changed
        /\ pc' = IF changed THEN "unreachable" ELSE "done"
    BY <1>9 DEF RoundDone
  <2>2. CASE changed = TRUE
    BY <2>1, <2>2 DEF QuietRounds
  <2>3. CASE changed = FALSE
    <3>1. Quiet /\ at = 1
      BY <2>1, <2>3 DEF QuietRounds, Quiet
    <3>2. \A b \in Range(fn.order) : ~IsTrivial(fn, b)
      BY <1>2, <2>1, <3>1 DEF Bypassable
    <3> QED
      BY <2>1, <2>3, <3>1, <3>2 DEF QuietRounds, Quiet, Tidy
  <2> QED
    BY <1>1, <2>2, <2>3
<1>10. CASE Terminated \/ UNCHANGED vars
  <2>1. UNCHANGED vars
    BY <1>10 DEF Terminated
  <2>2. InstrsAt(at)' = InstrsAt(at)
    BY <2>1 DEF vars, InstrsAt
  <2> QED
    BY <2>1, <2>2 DEF vars, QuietRounds, Quiet, Tidy
<1> QED
  BY <1>3, <1>4, <1>5, <1>6, <1>7, <1>8, <1>9, <1>10 DEF Next

\* Although every rewrite looks at a block or a phi once in a round, and
\* simplify_phis skips some: simplify_cfg::run does not return before there
\* is nothing left to free, merge, erase or bypass.
THEOREM NothingIsLeft == Spec => []NothingLeft
<1>1. Init => QuietRounds
  BY DEF Init, QuietRounds
<1>2. SimplifyInv /\ QuietRounds /\ [Next]_vars => QuietRounds'
  BY QuietStep
<1>3. QuietRounds => NothingLeft
  BY DEF QuietRounds, Quiet, NothingLeft, Tidy
<1> QED
  BY <1>1, <1>2, <1>3, SimplifyInvariant, PTL DEF Spec
=============================================================================
