----------------------------- MODULE SccpProofs -----------------------------
(***************************************************************************)
(* Sparse conditional constant propagation, proved for every function in   *)
(* SSA form that it may be run on.                                         *)
(***************************************************************************)
EXTENDS SccpSound, Facts

-----------------------------------------------------------------------------
\* The lattice.

LEMMA LatticeFacts ==
  /\ Top \in Lattice /\ Bot \in Lattice
  /\ \A n \in Word : Icons(n) \in Lattice
  /\ \A p \in {0, 1} : Bcons(p) \in Lattice
  /\ \A e \in Lattice : e.kind = "icons" => e.value \in Word
  /\ \A e \in Lattice : e.kind = "bcons" => e.value \in {0, 1}
  /\ \A e \in Lattice : ~ IsConstant(e) => e \in {Top, Bot}
BY DEF Lattice, Top, Bot, Icons, Bcons, IsConstant

\* A meet is one of its arguments, or overdefined, and below them all.
LEMMA MeetFacts ==
  ASSUME NEW a, NEW b
  PROVE  /\ Meet(a, b) \in {a, b, Bot}
         /\ Leq(Meet(a, b), a) /\ Leq(Meet(a, b), b)
BY DEF Meet, Leq

LEMMA MeetAllFacts ==
  ASSUME NEW e, NEW S
  PROVE  /\ MeetAll(e, S) \in {e, Top, Bot} \cup S
         /\ Leq(MeetAll(e, S), e)
         /\ \A x \in S : Leq(MeetAll(e, S), x)
<1> DEFINE C == ({e} \cup S) \ {Top}
<1>1. CASE C = {}
  <2>1. MeetAll(e, S) = Top /\ \A x \in {e} \cup S : x = Top
    BY <1>1 DEF MeetAll
  <2> QED
    BY <2>1 DEF Leq
<1>2. CASE C # {} /\ \E c \in C : C = {c}
  <2>1. PICK c \in C : C = {c}
    BY <1>2
  <2>2. MeetAll(e, S) = c
    BY <1>2, <2>1 DEF MeetAll
  <2>3. \A x \in {e} \cup S : x = c \/ x = Top
    BY <2>1
  <2> QED
    BY <2>1, <2>2, <2>3 DEF Leq
<1>3. CASE C # {} /\ ~ \E c \in C : C = {c}
  <2>1. MeetAll(e, S) = Bot
    BY <1>3 DEF MeetAll
  <2> QED
    BY <2>1 DEF Leq
<1> QED
  BY <1>1, <1>2, <1>3

-----------------------------------------------------------------------------
\* The functions the pass is run on.

\* Control and phis are not foldable.
LEMMA OpKinds ==
  \A op : IsFoldable(op) => op \notin {"br", "cond_br", "phi"}
BY DEF IsFoldable, Arithmetic, Comparisons

LEMMA SsaFacts ==
  ASSUME NEW f \in Functions
  PROVE  /\ IsFunction(f) /\ PhisFirst(f) /\ BranchesResolved(f) /\ UsersComplete(f)
         /\ f.entry \in Blocks(f)
         /\ \A b \in Blocks(f) : /\ Ins(f, b) \in Seq(Instrs(f))
                                 /\ Succ(f, b) \in Seq(Blocks(f))
         /\ \A i \in Instrs(f) : /\ IsCode(f, i) /\ MatchesOpcode(f.code[i])
                                 /\ f.users[i] \in Seq(Instrs(f))
                                 /\ f.code[i].parent \in Blocks(f)
                                 /\ i \in Range(Ins(f, f.code[i].parent))
<1>1. IsSsa(f)
  BY FunctionsAssumption
<1>2. IsFunction(f)
  BY <1>1 DEF IsSsa
<1>3. \A b \in Blocks(f) : Ins(f, b) \in Seq(Instrs(f)) /\ Succ(f, b) \in Seq(Blocks(f))
  BY <1>2 DEF IsFunction, Ins, Succ
<1>4. \A i \in Instrs(f) : f.code[i].parent \in Blocks(f) /\ f.users[i] \in Seq(Instrs(f))
  BY <1>2 DEF IsFunction, IsCode
<1> QED
  BY <1>1, <1>2, <1>3, <1>4 DEF IsSsa, AllPlaced, IsFunction

\* The successors of the block a branch ends.
LEMMA BranchFacts ==
  ASSUME NEW f \in Functions, NEW i \in Instrs(f)
  PROVE  LET succ == Succ(f, f.code[i].parent)
         IN  /\ f.code[i].op = "br" => Head(succ) \in Blocks(f)
             /\ f.code[i].op = "cond_br" => /\ Head(succ) \in Blocks(f)
                                            /\ succ[Len(succ)] \in Blocks(f)
<1> DEFINE b == f.code[i].parent
           succ == Succ(f, b)
<1>1. b \in Blocks(f) /\ i \in Range(Ins(f, b)) /\ succ \in Seq(Blocks(f))
  BY SsaFacts
<1>2. PICK k \in DOMAIN Ins(f, b) : i = Ins(f, b)[k]
  BY <1>1 DEF Range
<1>3. /\ f.code[i].op = "br" => Len(succ) = 1
      /\ f.code[i].op = "cond_br" => Len(succ) = 2
  BY <1>1, <1>2, SsaFacts DEF BranchesResolved
<1> QED
  BY <1>1, <1>3

\* The phis of a block are a prefix of it.
LEMMA PhisFacts ==
  ASSUME NEW f \in Functions, NEW b \in Blocks(f)
  PROVE  /\ Phis(f, b) \in Seq(Instrs(f))
         /\ \A i \in Range(Ins(f, b)) : IsPhi(f, i) => i \in Range(Phis(f, b))
<1> DEFINE s == Ins(f, b)
           n == PhiCount(f, b)
<1>1. s \in Seq(Instrs(f)) /\ PhisFirst(f)
  BY SsaFacts
<1>2. \E m \in 0 .. Len(s) : \A k \in DOMAIN s : IsPhi(f, s[k]) <=> k <= m
  BY <1>1 DEF PhisFirst
<1>3. n \in 0 .. Len(s) /\ \A k \in DOMAIN s : IsPhi(f, s[k]) <=> k <= n
  BY <1>2 DEF PhiCount
<1>4. Phis(f, b) = SubSeq(s, 1, n)
  BY DEF Phis
<1> HIDE DEF s, n
<1>5. /\ SubSeq(s, 1, n) \in Seq(Instrs(f))
      /\ DOMAIN SubSeq(s, 1, n) = 1 .. n
      /\ \A k \in 1 .. n : SubSeq(s, 1, n)[k] = s[k]
  BY <1>1, <1>3
<1>6. ASSUME NEW i \in Range(s), IsPhi(f, i) PROVE i \in Range(SubSeq(s, 1, n))
  <2>1. PICK k \in DOMAIN s : i = s[k]
    BY DEF Range
  <2>2. k \in 1 .. n
    BY <1>1, <1>3, <1>6, <2>1
  <2> QED
    BY <1>5, <2>1, <2>2 DEF Range
<1> QED
  BY <1>4, <1>5, <1>6 DEF s

-----------------------------------------------------------------------------
\* The worklists.

WorkOK(w) ==
  /\ DOMAIN w = {"flow", "ssa", "blocks", "edges"}
  /\ w.blocks \subseteq Blocks(fn)
  /\ w.edges \subseteq Blocks(fn) \X w.blocks
  /\ w.flow \in Seq(w.blocks)
  /\ w.ssa \in Seq(Instrs(fn))

\* Nothing leaves the worklists from w to v, a block that becomes executable
\* is queued and so are the phis of a block with a new executable edge.
Grows(w, v) ==
  /\ w.blocks \subseteq v.blocks /\ w.edges \subseteq v.edges
  /\ Range(w.flow) \subseteq Range(v.flow) /\ Range(w.ssa) \subseteq Range(v.ssa)
  /\ v.blocks \ w.blocks \subseteq Range(v.flow)
  /\ \A e \in v.edges \ w.edges : Range(Phis(fn, e[2])) \subseteq Range(v.ssa)

LEMMA GrowsTransitive ==
  ASSUME NEW u, NEW v, NEW w, Grows(u, v), Grows(v, w)
  PROVE  Grows(u, w)
BY DEF Grows

LEMMA MarkExecutableFacts ==
  ASSUME fn \in Functions, NEW w, WorkOK(w),
         NEW from \in Blocks(fn), NEW to \in Blocks(fn)
  PROVE  LET v == MarkExecutable(w, <<from, to>>)
         IN  WorkOK(v) /\ Grows(w, v) /\ <<from, to>> \in v.edges
<1> DEFINE e == <<from, to>>
           v == MarkExecutable(w, e)
<1>1. /\ v.flow = IF to \in w.blocks THEN w.flow ELSE Append(w.flow, to)
      /\ v.ssa = IF e \in w.edges THEN w.ssa ELSE w.ssa \o Phis(fn, to)
      /\ v.blocks = w.blocks \cup {to} /\ v.edges = w.edges \cup {e}
      /\ DOMAIN v = {"flow", "ssa", "blocks", "edges"}
  BY DEF MarkExecutable
<1> HIDE DEF v
<1>2. Phis(fn, to) \in Seq(Instrs(fn))
  BY PhisFacts
<1>3. v.flow \in Seq(v.blocks) /\ Range(v.flow) = Range(w.flow) \cup (v.blocks \ w.blocks)
  <2>1. w.flow \in Seq(v.blocks)
    BY <1>1 DEF WorkOK
  <2>2. CASE to \in w.blocks
    BY <1>1, <2>1, <2>2
  <2>3. CASE to \notin w.blocks
    BY <1>1, <2>1, <2>3, RangeOfAppend
  <2> QED
    BY <2>2, <2>3
<1>4. /\ v.ssa \in Seq(Instrs(fn)) /\ Range(w.ssa) \subseteq Range(v.ssa)
      /\ e \notin w.edges => Range(Phis(fn, to)) \subseteq Range(v.ssa)
  <2>1. w.ssa \in Seq(Instrs(fn))
    BY DEF WorkOK
  <2>2. Range(w.ssa \o Phis(fn, to)) = Range(w.ssa) \cup Range(Phis(fn, to))
    BY <1>2, <2>1, RangeConcatenation
  <2>3. w.ssa \o Phis(fn, to) \in Seq(Instrs(fn))
    BY <1>2, <2>1
  <2> QED
    BY <1>1, <2>1, <2>2, <2>3
<1>5. WorkOK(v)
  BY <1>1, <1>3, <1>4 DEF WorkOK
<1>6. Grows(w, v)
  <2>1. ASSUME NEW x \in v.edges \ w.edges PROVE Range(Phis(fn, x[2])) \subseteq Range(v.ssa)
    <3>1. x = e /\ x[2] = to /\ e \notin w.edges
      BY <1>1
    <3> QED
      BY <1>4, <3>1
  <2> QED
    BY <1>1, <1>3, <1>4, <2>1 DEF Grows
<1> QED
  BY <1>1, <1>5, <1>6 DEF v

-----------------------------------------------------------------------------
\* One visit.

LEMMA FoldedIsElement ==
  ASSUME fn \in Functions, values \in [Instrs(fn) -> Lattice],
         NEW i \in Instrs(fn), IsFoldable(fn.code[i].op), ~ FoldAsserts(fn, i, values)
  PROVE  folded_value(fn, i, values) \in Lattice
<1> DEFINE c == fn.code[i]
           lhs == values[c.args[1]]
           rhs == values[c.args[2]]
<1>1. /\ MatchesOpcode(c) /\ c.args \in Seq(Instrs(fn))
      /\ c.ty.bits \in 0 .. WordBits
  BY SsaFacts DEF IsCode, IsType
<1>2. c.op = "iconst" => folded_value(fn, i, values) \in Lattice
  <2> SUFFICES ASSUME c.op = "iconst" PROVE folded_value(fn, i, values) \in Lattice
    OBVIOUS
  <2>1. normalize(c.k, c.ty) \in Word
    BY <1>1, NormalizeIsWord DEF MatchesOpcode
  <2>2. folded_value(fn, i, values) = Icons(normalize(c.k, c.ty))
    BY DEF folded_value
  <2> QED
    BY <2>1, <2>2, LatticeFacts
<1>3. c.op = "bconst" => folded_value(fn, i, values) \in Lattice
  <2> SUFFICES ASSUME c.op = "bconst" PROVE folded_value(fn, i, values) \in Lattice
    OBVIOUS
  <2>1. c.k \in {0, 1}
    BY <1>1 DEF MatchesOpcode
  <2>2. folded_value(fn, i, values) = Bcons(c.k)
    BY DEF folded_value
  <2> QED
    BY <2>1, <2>2, LatticeFacts
<1>4. CASE c.op \in {"neg", "lnot"}
  <2>1. lhs \in Lattice
    BY <1>1, <1>4 DEF MatchesOpcode
  <2>2. folded_value(fn, i, values) = IF ~ IsConstant(lhs) THEN lhs
                                      ELSE IF c.op = "neg" THEN Icons(eval_neg(c.ty, lhs.value))
                                      ELSE Bcons(1 - lhs.value)
    BY <1>4 DEF folded_value
  <2>3. CASE c.op = "neg" /\ IsConstant(lhs)
    <3>1. lhs.kind = "icons"
      BY <2>3 DEF FoldAsserts
    <3>2. eval_neg(c.ty, lhs.value) \in Word
      BY <1>1, <2>1, <3>1, LatticeFacts, EvalNegIsWord
    <3> QED
      BY <2>2, <2>3, <3>2, LatticeFacts
  <2>4. CASE c.op = "lnot" /\ IsConstant(lhs)
    <3>1. lhs.kind = "bcons"
      BY <2>4 DEF FoldAsserts
    <3>2. 1 - lhs.value \in {0, 1}
      BY <2>1, <3>1, LatticeFacts
    <3> QED
      BY <2>2, <2>4, <3>2, LatticeFacts
  <2> QED
    BY <1>4, <2>1, <2>2, <2>3, <2>4
<1>5. CASE c.op \in Arithmetic \cup Comparisons
  <2>1. lhs \in Lattice /\ rhs \in Lattice
    BY <1>1, <1>5 DEF MatchesOpcode
  <2>2. c.op \notin {"iconst", "bconst", "neg", "lnot"}
    BY <1>5 DEF Arithmetic, Comparisons
  <2>3. CASE ~ IsConstant(lhs) \/ ~ IsConstant(rhs)
    BY <2>1, <2>2, <2>3 DEF folded_value
  <2>4. CASE IsConstant(lhs) /\ IsConstant(rhs) /\ is_comparison(c.op)
    <3>1. folded_value(fn, i, values) = Compared(c.op, lhs.value, rhs.value)
      BY <2>2, <2>4 DEF folded_value
    <3> QED
      BY <3>1, LatticeFacts DEF Compared, ToBool
  <2>5. CASE IsConstant(lhs) /\ IsConstant(rhs) /\ ~ is_comparison(c.op)
    <3> DEFINE n == eval_arith(c.op, c.ty, lhs.value, rhs.value)
    <3>1. c.op \in Arithmetic
      BY <1>5, <2>5 DEF is_comparison
    <3>2. lhs.kind = "icons" /\ rhs.kind = "icons"
      BY <2>2, <2>5, <3>1 DEF FoldAsserts, Arithmetic
    <3>3. n \in Word \cup {None}
      BY <1>1, <2>1, <3>1, <3>2, LatticeFacts, EvalArithIsWord
    <3>4. folded_value(fn, i, values) = IF n = None THEN Bot ELSE Icons(n)
      BY <2>2, <2>5 DEF folded_value
    <3> HIDE DEF n
    <3> QED
      BY <3>3, <3>4, LatticeFacts
  <2> QED
    BY <2>3, <2>4, <2>5
<1> QED
  BY <1>2, <1>3, <1>4, <1>5 DEF IsFoldable

LEMMA NewElementFacts ==
  ASSUME fn \in Functions, values \in [Instrs(fn) -> Lattice],
         NEW i \in Instrs(fn), ~ FoldAsserts(fn, i, values)
  PROVE  NewElement(i) \in Lattice /\ Leq(NewElement(i), values[i])
<1> DEFINE c == fn.code[i]
<1>1. CASE c.op = "phi"
  <2> DEFINE L == {values[v] : v \in LiveIncoming(fn, i, executable_edges)}
  <2>1. LiveIncoming(fn, i, executable_edges) \subseteq Instrs(fn)
    <3>1. Range(c.inc) \subseteq Instrs(fn)
      BY SsaFacts DEF IsCode
    <3> QED
      BY <3>1 DEF LiveIncoming, Range
  <2>2. L \subseteq Lattice
    BY <2>1
  <2>3. NewElement(i) = MeetAll(values[i], L)
    BY <1>1, OpKinds DEF NewElement
  <2> HIDE DEF L
  <2> QED
    BY <2>2, <2>3, LatticeFacts, MeetAllFacts
<1>2. CASE c.op # "phi" /\ IsFoldable(c.op)
  <2>1. NewElement(i) = Meet(values[i], folded_value(fn, i, values))
    BY <1>2 DEF NewElement
  <2> QED
    BY <1>2, <2>1, FoldedIsElement, LatticeFacts, MeetFacts
<1>3. CASE c.op # "phi" /\ ~ IsFoldable(c.op)
  BY <1>3, LatticeFacts DEF NewElement, Leq
<1> QED
  BY <1>1, <1>2, <1>3

\* What one visit does to the elements and to the worklists.
LEMMA VisitFacts ==
  ASSUME fn \in Functions, values \in [Instrs(fn) -> Lattice],
         NEW w, WorkOK(w), NEW i \in Instrs(fn), Visit(i, w), fn' = fn
  PROVE  /\ values' \in [Instrs(fn) -> Lattice]
         /\ \A j \in Instrs(fn) \ {i} : values'[j] = values[j]
         /\ Leq(values'[i], values[i])
         /\ WorkOK(Work') /\ Grows(w, Work')
         /\ values'[i] # values[i] => Range(fn.users[i]) \subseteq Range(ssa_worklist')
         /\ IsBranch(i) => values' = values
         /\ ~ IsBranch(i) => values'[i] = NewElement(i) /\ executable_edges' = w.edges
<1>1. CASE IsBranch(i)
  <2> DEFINE b == fn.code[i].parent
             succ == Succ(fn, b)
             true_edge == <<b, Head(succ)>>
             false_edge == <<b, succ[Len(succ)]>>
             cond == values[fn.code[i].args[1]]
             w1 == IF TakenTrue(cond) THEN MarkExecutable(w, true_edge) ELSE w
             w2 == IF TakenFalse(cond) THEN MarkExecutable(w1, false_edge) ELSE w1
             v == IF fn.code[i].op = "br" THEN MarkExecutable(w, true_edge) ELSE w2
  <2>1. SetWork(v) /\ values' = values
    BY <1>1 DEF Visit, VisitBranch
  <2>2. b \in Blocks(fn) /\ Head(succ) \in Blocks(fn)
    BY <1>1, SsaFacts, BranchFacts DEF IsBranch
  <2>3. Grows(w, w)
    BY DEF Grows
  <2>4. WorkOK(MarkExecutable(w, true_edge)) /\ Grows(w, MarkExecutable(w, true_edge))
    BY <2>2, MarkExecutableFacts
  <2>5. WorkOK(v) /\ Grows(w, v)
    <3>1. CASE fn.code[i].op = "br"
      BY <2>4, <3>1
    <3>2. CASE fn.code[i].op = "cond_br"
      <4>1. succ[Len(succ)] \in Blocks(fn)
        BY <3>2, BranchFacts
      <4>2. WorkOK(w1) /\ Grows(w, w1)
        BY <2>3, <2>4
      <4> HIDE DEF w1
      <4>3. /\ WorkOK(MarkExecutable(w1, false_edge))
            /\ Grows(w1, MarkExecutable(w1, false_edge))
        BY <2>2, <4>1, <4>2, MarkExecutableFacts
      <4>4. WorkOK(w2) /\ Grows(w, w2)
        BY <4>2, <4>3, GrowsTransitive
      <4> QED
        BY <3>2, <4>4
    <3> QED
      BY <1>1, <3>1, <3>2 DEF IsBranch
  <2> HIDE DEF v
  <2>6. WorkOK(Work') /\ Grows(w, Work')
    BY <2>1, <2>5 DEF SetWork, Work, WorkOK, Grows
  <2> QED
    BY <1>1, <2>1, <2>6 DEF Leq
<1>2. CASE ~ IsBranch(i)
  <2> DEFINE new == NewElement(i)
             v == IF new = values[i] THEN w ELSE [w EXCEPT !.ssa = @ \o Requeued(i)]
  <2>1. values' = [values EXCEPT ![i] = new] /\ SetWork(v) /\ ~ VisitAsserts(i)
    BY <1>2 DEF Visit, VisitValue
  <2>2. new \in Lattice /\ Leq(new, values[i])
    BY <2>1, NewElementFacts DEF VisitAsserts
  <2>3. fn.users[i] \in Seq(Instrs(fn)) /\ w.ssa \in Seq(Instrs(fn))
    BY SsaFacts DEF WorkOK
  <2>4. /\ w.ssa \o fn.users[i] \in Seq(Instrs(fn))
        /\ Range(w.ssa \o fn.users[i]) = Range(w.ssa) \cup Range(fn.users[i])
    BY <2>3, RangeConcatenation
  <2>5. /\ flow_worklist' = w.flow /\ executable_blocks' = w.blocks
        /\ executable_edges' = w.edges
        /\ ssa_worklist' = IF new = values[i] THEN w.ssa ELSE w.ssa \o fn.users[i]
    <3>1. CASE new = values[i]
      BY <2>1, <3>1 DEF SetWork
    <3>2. CASE new # values[i]
      <4>1. v = [w EXCEPT !.ssa = @ \o fn.users[i]]
        BY <3>2 DEF Requeued
      <4> QED
        BY <2>1, <3>2, <4>1 DEF SetWork, WorkOK
    <3> QED
      BY <3>1, <3>2
  <2> HIDE DEF new, v
  <2>6. WorkOK(Work')
    BY <2>3, <2>4, <2>5 DEF Work, WorkOK
  <2>7. Grows(w, Work')
    BY <2>4, <2>5 DEF Work, Grows
  <2> QED
    BY <1>2, <2>1, <2>2, <2>4, <2>5, <2>6, <2>7 DEF new
<1> QED
  BY <1>1, <1>2

-----------------------------------------------------------------------------
\* What a visit leaves settled.

LEMMA UserOfOperand ==
  ASSUME NEW f \in Functions, NEW j \in Instrs(f), NEW v \in Reads(f, j)
  PROVE  j \in Range(f.users[v])
<1>1. UsersComplete(f) /\ f.code[j].parent \in Blocks(f)
      /\ j \in Range(Ins(f, f.code[j].parent))
  BY SsaFacts
<1> QED
  BY <1>1 DEF UsersComplete

LEMMA FoldedFromOperands ==
  ASSUME NEW f \in Functions, NEW j \in Instrs(f), IsFoldable(f.code[j].op),
         NEW u, NEW v, \A a \in Range(f.code[j].args) : u[a] = v[a]
  PROVE  folded_value(f, j, u) = folded_value(f, j, v)
<1> DEFINE c == f.code[j]
<1>1. MatchesOpcode(c) /\ c.args \in Seq(Instrs(f))
  BY SsaFacts DEF IsCode
<1>2. CASE c.op \in {"iconst", "bconst"}
  BY <1>2 DEF folded_value
<1>3. CASE c.op \in {"neg", "lnot"}
  <2>1. u[c.args[1]] = v[c.args[1]]
    BY <1>1, <1>3 DEF MatchesOpcode, Range
  <2> QED
    BY <1>3, <2>1 DEF folded_value
<1>4. CASE c.op \in Arithmetic \cup Comparisons
  <2>1. u[c.args[1]] = v[c.args[1]] /\ u[c.args[2]] = v[c.args[2]]
    BY <1>1, <1>4 DEF MatchesOpcode, Range
  <2> QED
    BY <1>4, <2>1 DEF folded_value
<1> QED
  BY <1>2, <1>3, <1>4 DEF IsFoldable

LEMMA VisitSettles ==
  ASSUME fn \in Functions, values \in [Instrs(fn) -> Lattice],
         NEW w, WorkOK(w), NEW i \in Instrs(fn), Visit(i, w), fn' = fn,
         w.edges = executable_edges
  PROVE  Settled(i)' \/ i \in Range(ssa_worklist')
<1> DEFINE c == fn.code[i]
<1>1. CASE IsBranch(i)
  <2> DEFINE b == c.parent
             succ == Succ(fn, b)
             true_edge == <<b, Head(succ)>>
             false_edge == <<b, succ[Len(succ)]>>
             cond == values[c.args[1]]
             w1 == IF TakenTrue(cond) THEN MarkExecutable(w, true_edge) ELSE w
             w2 == IF TakenFalse(cond) THEN MarkExecutable(w1, false_edge) ELSE w1
  <2>1. /\ values' = values
        /\ executable_edges' = (IF c.op = "br" THEN MarkExecutable(w, true_edge)
                                ELSE w2).edges
    BY <1>1 DEF Visit, VisitBranch, SetWork
  <2>2. \A v, e : MarkExecutable(v, e).edges = v.edges \cup {e}
    BY DEF MarkExecutable
  <2>3. CASE c.op = "br"
    <3>1. true_edge \in executable_edges'
      BY <2>1, <2>2, <2>3
    <3> QED
      BY <2>3, <3>1, OpKinds DEF Settled
  <2>4. CASE c.op = "cond_br"
    <3>1. executable_edges' = w2.edges
      BY <2>1, <2>4
    <3>2. TakenTrue(cond) => true_edge \in w1.edges
      BY <2>2
    <3> HIDE DEF w1
    <3>3. /\ TakenFalse(cond) => w2.edges = w1.edges \cup {false_edge}
          /\ ~ TakenFalse(cond) => w2.edges = w1.edges
      BY <2>2
    <3>4. /\ TakenTrue(cond) => true_edge \in executable_edges'
          /\ TakenFalse(cond) => false_edge \in executable_edges'
      BY <3>1, <3>2, <3>3
    <3>5. cond.kind # "icons"
      BY <1>1, <2>4 DEF Visit, VisitAsserts
    <3> QED
      BY <2>1, <2>4, <3>4, <3>5, OpKinds DEF Settled
  <2> QED
    BY <1>1, <2>3, <2>4 DEF IsBranch
<1>2. CASE ~ IsBranch(i) /\ values'[i] # values[i] /\ i \in Reads(fn, i)
  <2>1. i \in Range(fn.users[i])
    BY <1>2, UserOfOperand
  <2> QED
    BY <1>2, <2>1, VisitFacts
<1>3. CASE ~ IsBranch(i) /\ (values'[i] = values[i] \/ i \notin Reads(fn, i))
  <2>1. /\ values'[i] = NewElement(i) /\ executable_edges' = executable_edges
        /\ \A j \in Instrs(fn) \ {i} : values'[j] = values[j]
    BY <1>3, VisitFacts
  <2>2. \A v \in Reads(fn, i) : values'[v] = values[v]
    <3>1. Reads(fn, i) \subseteq Instrs(fn)
      BY SsaFacts DEF Reads, Incoming, IsCode, Range
    <3> QED
      BY <1>3, <2>1, <3>1
  <2>3. CASE c.op = "phi"
    <3>1. LiveIncoming(fn, i, executable_edges) \subseteq Reads(fn, i)
      BY DEF LiveIncoming, Reads, Incoming, Range
    <3>2. values'[i] = MeetAll(values[i],
                          {values[v] : v \in LiveIncoming(fn, i, executable_edges)})
      BY <2>1, <2>3, OpKinds DEF NewElement
    <3>3. \A v \in LiveIncoming(fn, i, executable_edges) : Leq(values'[i], values'[v])
      BY <2>2, <3>1, <3>2, MeetAllFacts
    <3> QED
      BY <2>1, <2>3, <3>3, OpKinds DEF Settled
  <2>4. CASE IsFoldable(c.op)
    <3>1. folded_value(fn, i, values') = folded_value(fn, i, values)
      BY <2>2, <2>4, FoldedFromOperands DEF Reads
    <3>2. values'[i] = Meet(values[i], folded_value(fn, i, values))
      BY <2>1, <2>4, OpKinds DEF NewElement
    <3>3. Leq(values'[i], folded_value(fn, i, values'))
      BY <3>1, <3>2, MeetFacts
    <3> QED
      BY <2>4, <3>3, OpKinds DEF Settled
  <2>5. CASE c.op # "phi" /\ ~ IsFoldable(c.op)
    <3>1. HasResult(fn, i) => values'[i] = Bot
      BY <2>1, <2>5 DEF NewElement
    <3> QED
      BY <1>3, <2>5, <3>1, OpKinds DEF Settled, IsBranch
  <2> QED
    BY <2>3, <2>4, <2>5
<1> QED
  BY <1>1, <1>2, <1>3

\* Any other instruction stays settled, or is queued because an operand or an
\* incoming edge of it changed.
LEMMA VisitKeeps ==
  ASSUME fn \in Functions, values \in [Instrs(fn) -> Lattice],
         NEW w, WorkOK(w), NEW i \in Instrs(fn), Visit(i, w), fn' = fn,
         w.edges = executable_edges,
         NEW j \in Instrs(fn), j # i, Settled(j)
  PROVE  Settled(j)' \/ j \in Range(ssa_worklist')
<1> DEFINE c == fn.code[j]
<1>1. /\ \A k \in Instrs(fn) \ {i} : values'[k] = values[k]
      /\ Grows(w, Work')
      /\ values'[i] # values[i] => Range(fn.users[i]) \subseteq Range(ssa_worklist')
  BY VisitFacts
<1>2. executable_edges \subseteq executable_edges'
  BY <1>1 DEF Grows, Work
<1>3. Reads(fn, j) \subseteq Instrs(fn)
  BY SsaFacts DEF Reads, Incoming, IsCode, Range
<1>4. CASE values'[i] # values[i] /\ i \in Reads(fn, j)
  BY <1>1, <1>4, UserOfOperand
<1>5. CASE /\ c.op = "phi"
           /\ \E e \in executable_edges' \ executable_edges : e[2] = c.parent
  <2>1. PICK e \in executable_edges' \ executable_edges : e[2] = c.parent
    BY <1>5
  <2>2. Range(Phis(fn, c.parent)) \subseteq Range(ssa_worklist')
    BY <1>1, <2>1 DEF Grows, Work
  <2>3. j \in Range(Phis(fn, c.parent))
    BY <1>5, SsaFacts, PhisFacts DEF IsPhi
  <2> QED
    BY <2>2, <2>3
<1>6. CASE /\ values'[i] = values[i] \/ i \notin Reads(fn, j)
           /\ c.op = "phi" =>
                ~ \E e \in executable_edges' \ executable_edges : e[2] = c.parent
  <2>1. /\ values'[j] = values[j]
        /\ \A v \in Reads(fn, j) : values'[v] = values[v]
    BY <1>1, <1>3, <1>6
  <2>2. CASE c.op = "br"
    BY <1>2, <2>2, OpKinds DEF Settled
  <2>3. CASE c.op = "cond_br"
    <3>1. MatchesOpcode(c) /\ c.args \in Seq(Instrs(fn))
      BY SsaFacts DEF IsCode
    <3>2. c.args[1] \in Reads(fn, j)
      BY <2>3, <3>1 DEF MatchesOpcode, Reads, Range
    <3>3. values'[c.args[1]] = values[c.args[1]]
      BY <2>1, <3>2
    <3> QED
      BY <1>2, <2>3, <3>3, OpKinds DEF Settled
  <2>4. CASE c.op = "phi"
    <3>1. \A p \in DOMAIN c.inc :
            <<p, c.parent>> \in executable_edges' <=> <<p, c.parent>> \in executable_edges
      BY <1>2, <1>6, <2>4
    <3>2. LiveIncoming(fn, j, executable_edges') = LiveIncoming(fn, j, executable_edges)
      BY <3>1 DEF LiveIncoming
    <3>3. LiveIncoming(fn, j, executable_edges) \subseteq Reads(fn, j)
      BY DEF LiveIncoming, Reads, Incoming, Range
    <3>4. \A v \in LiveIncoming(fn, j, executable_edges') : Leq(values'[j], values'[v])
      BY <2>1, <2>4, <3>2, <3>3 DEF Settled
    <3> QED
      BY <2>4, <3>4, OpKinds DEF Settled
  <2>5. CASE IsFoldable(c.op)
    <3>1. folded_value(fn, j, values') = folded_value(fn, j, values)
      BY <2>1, <2>5, FoldedFromOperands DEF Reads
    <3> QED
      BY <2>1, <2>5, <3>1, OpKinds DEF Settled
  <2>6. CASE c.op \notin {"br", "cond_br", "phi"} /\ ~ IsFoldable(c.op)
    BY <2>1, <2>6 DEF Settled
  <2> QED
    BY <2>2, <2>3, <2>4, <2>5, <2>6
<1> QED
  BY <1>4, <1>5, <1>6

-----------------------------------------------------------------------------
\* The inductive invariant: with TypeOK, NothingForgotten is inductive.  On a
\* well-typed function the elements are also constants of the right type.

OfType(e, ty) == /\ e.kind = "icons" => is_integer_ty(ty)
                 /\ e.kind = "bcons" => ty.kind = "_bool"

KindsMatch ==
  WellTyped(fn) => \A i \in Instrs(fn) : OfType(values[i], fn.code[i].ty)

IInv ==
  /\ TypeOK
  /\ NothingForgotten
  /\ pc = "transform" => flow_worklist = <<>> /\ ssa_worklist = <<>>
  /\ pc # "done" => KindsMatch
  /\ TypedNeverAborts

LEMMA WorkIsOK == TypeOK => WorkOK(Work)
BY DEF TypeOK, WorkOK, Work

\* The two ways the loop comes to visit an instruction.
LEMMA VisitTypeOK ==
  ASSUME TypeOK, pc # "done", NEW w, WorkOK(w), NEW i \in Instrs(fn), Visit(i, w),
         w.blocks = executable_blocks,
         UNCHANGED <<fn, current>>, pc' \in {"loop", "block"},
         next' \in 1 .. Len(Ins(fn, current)) + 1
  PROVE  TypeOK'
<1>1. fn \in Functions /\ values \in [Instrs(fn) -> Lattice]
  BY DEF TypeOK
<1>2. /\ values' \in [Instrs(fn) -> Lattice]
      /\ WorkOK(Work') /\ Grows(w, Work')
  BY <1>1, VisitFacts
<1>3. current \in executable_blocks'
  BY <1>2 DEF TypeOK, Grows, Work
<1> QED
  BY <1>1, <1>2, <1>3 DEF TypeOK, WorkOK, Work

LEMMA InitTypeOK == Init => TypeOK
<1> SUFFICES ASSUME Init PROVE TypeOK
  OBVIOUS
<1>1. fn \in Functions /\ fn.entry \in Blocks(fn) /\ Len(Ins(fn, fn.entry)) \in Nat
  BY SsaFacts DEF Init
<1>2. values \in [Instrs(fn) -> Lattice]
  BY LatticeFacts DEF Init
<1> QED
  BY <1>1, <1>2 DEF Init, TypeOK

\* A visit forgets nothing: what it visits is settled, what it unsettles is
\* queued, and whatever was to be visited later still is.
LEMMA VisitForgetsNothing ==
  ASSUME TypeOK, NothingForgotten, Analysing, NEW w, WorkOK(w),
         w.edges = executable_edges, w.blocks = executable_blocks,
         w.flow = flow_worklist,
         NEW i \in Instrs(fn), Visit(i, w), UNCHANGED <<fn, current>>,
         Range(ssa_worklist) \subseteq Range(w.ssa) \cup {i},
         \/ /\ pc = "block" /\ pc' = "block"
            /\ i = Ins(fn, current)[next] /\ next' = next + 1
         \/ pc # "block"
  PROVE  NothingForgotten'
<1>1. fn \in Functions /\ values \in [Instrs(fn) -> Lattice]
  BY DEF TypeOK, Analysing
<1>2. Grows(w, Work') /\ WorkOK(Work')
  BY <1>1, VisitFacts
<1>3. /\ executable_blocks \subseteq executable_blocks'
      /\ executable_edges \subseteq executable_edges'
      /\ Range(flow_worklist) \subseteq Range(flow_worklist')
      /\ Range(w.ssa) \subseteq Range(ssa_worklist')
      /\ executable_blocks' \ executable_blocks \subseteq Range(flow_worklist')
      /\ executable_blocks' \subseteq Blocks(fn)
  BY <1>2 DEF Grows, WorkOK, Work
<1>4. ASSUME NEW b \in executable_blocks', NEW k \in DOMAIN Ins(fn, b)
      PROVE  Settled(Ins(fn, b)[k])' \/ Pending(b, k)'
  <2> DEFINE j == Ins(fn, b)[k]
  <2>1. j \in Instrs(fn) /\ k \in Int /\ next \in Int
    BY <1>1, <1>3, SsaFacts DEF TypeOK
  <2>2. CASE b \notin executable_blocks
    BY <1>3, <2>2 DEF Pending
  <2>3. CASE j = i
    <3>1. Settled(j)' \/ j \in Range(ssa_worklist')
      BY <1>1, <2>3, VisitSettles
    <3> QED
      BY <3>1 DEF Pending
  <2>4. CASE b \in executable_blocks /\ j # i
    <3>1. Settled(j) \/ Pending(b, k)
      BY <2>4 DEF NothingForgotten
    <3>2. CASE Settled(j)
      <4>1. Settled(j)' \/ j \in Range(ssa_worklist')
        BY <1>1, <2>1, <2>4, <3>2, VisitKeeps
      <4> QED
        BY <4>1 DEF Pending
    <3>3. CASE b \in Range(flow_worklist)
      BY <1>3, <3>3 DEF Pending
    <3>4. CASE j \in Range(ssa_worklist)
      BY <1>3, <2>4, <3>4 DEF Pending
    <3>5. CASE pc = "block" /\ current = b /\ next <= k
      <4>1. k # next
        BY <2>4, <3>5
      <4>2. pc' = "block" /\ current' = b /\ next' <= k
        BY <2>1, <3>5, <4>1
      <4> QED
        BY <4>2 DEF Pending
    <3> QED
      BY <3>1, <3>2, <3>3, <3>4, <3>5 DEF Pending
  <2> QED
    BY <2>2, <2>3, <2>4
<1>5. ASSUME NEW b \in executable_blocks', FallsThrough(b)
      PROVE  \/ <<b, Head(Succ(fn, b))>> \in executable_edges'
             \/ b \in Range(flow_worklist')
             \/ pc' = "block" /\ current' = b
  <2>1. CASE b \notin executable_blocks
    BY <1>3, <2>1
  <2>2. CASE b \in executable_blocks
    BY <1>3, <1>5, <2>2 DEF NothingForgotten
  <2> QED
    BY <2>1, <2>2
<1> QED
  BY <1>4, <1>5 DEF NothingForgotten, FallsThrough

-----------------------------------------------------------------------------
\* Types.

LEMMA KindOfTopAndBot == \A ty : OfType(Top, ty) /\ OfType(Bot, ty)
BY DEF OfType, Top, Bot

\* No assertion of a visit fails when the elements match the types.
LEMMA NoAssertFails ==
  ASSUME fn \in Functions, WellTyped(fn), KindsMatch, NEW i \in Instrs(fn)
  PROVE  ~ VisitAsserts(i)
<1> DEFINE c == fn.code[i]
           t(n) == fn.code[c.args[n]].ty
<1>1. MatchesOpcode(c) /\ c.args \in Seq(Instrs(fn))
  BY SsaFacts DEF IsCode
<1>2. \A n \in DOMAIN c.args : OfType(values[c.args[n]], t(n))
  BY <1>1 DEF KindsMatch
<1>3. /\ c.op \in {"cond_br", "lnot"} => t(1).kind = "_bool"
      /\ c.op \in Arithmetic => /\ is_integer_ty(c.ty) /\ FitsSignedness(c.op, c.ty)
                                /\ t(1) = c.ty /\ t(2) = c.ty
      /\ c.op = "iconst" => is_integer_ty(c.ty)
      /\ c.op = "neg" => is_integer_ty(c.ty) /\ t(1) = c.ty
      /\ c.op \in Comparisons => t(2) = t(1)
      /\ c.op \in Comparisons \ {"eq"} => is_integer_ty(t(1))
  BY DEF WellTyped
<1>4. c.op \in {"cond_br", "lnot", "neg"} => 1 \in DOMAIN c.args
  BY <1>1 DEF MatchesOpcode
<1>5. c.op \in Arithmetic \cup Comparisons => 1 \in DOMAIN c.args /\ 2 \in DOMAIN c.args
  BY <1>1 DEF MatchesOpcode
<1>6. \A ty : ~(is_integer_ty(ty) /\ ty.kind = "_bool")
  BY DEF is_integer_ty
<1>7. \A e : IsConstant(e) => e.kind \in {"icons", "bcons"}
  BY DEF IsConstant
<1>8. ~ (c.op = "cond_br" /\ values[c.args[1]].kind = "icons")
  BY <1>2, <1>3, <1>4, <1>6 DEF OfType
<1>9. ~ FoldAsserts(fn, i, values)
  <2>1. c.op = "neg" => (IsConstant(values[c.args[1]]) =>
                           values[c.args[1]].kind = "icons" /\ is_integer_ty(c.ty))
    BY <1>2, <1>3, <1>4, <1>6, <1>7 DEF OfType
  <2>2. c.op = "lnot" => (IsConstant(values[c.args[1]]) => values[c.args[1]].kind = "bcons")
    BY <1>2, <1>3, <1>4, <1>6, <1>7 DEF OfType
  <2>3. c.op \in Comparisons =>
          (IsConstant(values[c.args[1]]) /\ IsConstant(values[c.args[2]]) =>
             values[c.args[1]].kind = values[c.args[2]].kind)
    BY <1>2, <1>3, <1>5, <1>6, <1>7 DEF OfType
  <2>4. c.op \in Arithmetic \cup (Comparisons \ {"eq"}) =>
          (IsConstant(values[c.args[1]]) /\ IsConstant(values[c.args[2]]) =>
             values[c.args[1]].kind = "icons" /\ values[c.args[2]].kind = "icons")
    BY <1>2, <1>3, <1>5, <1>6, <1>7 DEF OfType
  <2>5. "eq" \in Comparisons
    BY DEF Comparisons
  <2>6. c.op \in Arithmetic => ~ eval_arith_asserts(c.op, c.ty, values[c.args[2]].value)
    BY <1>3 DEF eval_arith_asserts
  <2> QED
    BY <1>3, <2>1, <2>2, <2>3, <2>4, <2>5, <2>6 DEF FoldAsserts
<1> QED
  BY <1>8, <1>9 DEF VisitAsserts

\* A visit gives an instruction an element that its type has room for.
LEMMA NewElementOfType ==
  ASSUME fn \in Functions, WellTyped(fn), KindsMatch, NEW i \in Instrs(fn)
  PROVE  OfType(NewElement(i), fn.code[i].ty)
<1> DEFINE c == fn.code[i]
           lhs == values[c.args[1]]
           rhs == values[c.args[2]]
<1>1. MatchesOpcode(c) /\ c.args \in Seq(Instrs(fn)) /\ OfType(values[i], c.ty)
  BY SsaFacts DEF IsCode, KindsMatch
<1>2. CASE c.op = "phi"
  <2> DEFINE L == {values[v] : v \in LiveIncoming(fn, i, executable_edges)}
  <2>1. /\ LiveIncoming(fn, i, executable_edges) \subseteq Incoming(fn, i)
        /\ Incoming(fn, i) \subseteq Instrs(fn)
    BY SsaFacts DEF LiveIncoming, Incoming, IsCode, Range
  <2>2. \A v \in Incoming(fn, i) : OfType(values[v], c.ty)
    BY <1>2, <2>1 DEF KindsMatch, WellTyped
  <2>3. \A e \in L : OfType(e, c.ty)
    BY <2>1, <2>2
  <2>4. NewElement(i) = MeetAll(values[i], L)
    BY <1>2, OpKinds DEF NewElement
  <2> HIDE DEF L
  <2> QED
    BY <1>1, <2>3, <2>4, MeetAllFacts, KindOfTopAndBot
<1>3. CASE IsFoldable(c.op)
  <2> DEFINE folded == folded_value(fn, i, values)
  <2>1. NewElement(i) = Meet(values[i], folded)
    BY <1>3, OpKinds DEF NewElement
  <2>2. \A n : Icons(n).kind = "icons" /\ Bcons(n).kind = "bcons"
    BY DEF Icons, Bcons
  <2>3. \A e, ty : ~ IsConstant(e) => OfType(e, ty)
    BY DEF OfType, IsConstant
  <2>4. OfType(folded, c.ty)
    <3>1. CASE c.op = "iconst"
      <4>1. folded = Icons(normalize(c.k, c.ty)) /\ is_integer_ty(c.ty)
        BY <1>1, <3>1 DEF folded_value, MatchesOpcode
      <4> QED
        BY <2>2, <4>1 DEF OfType
    <3>2. CASE c.op = "bconst"
      <4>1. folded = Bcons(c.k) /\ c.ty.kind = "_bool"
        BY <3>2 DEF folded_value, WellTyped
      <4> QED
        BY <2>2, <4>1 DEF OfType
    <3>3. CASE c.op \in {"neg", "lnot"}
      <4>1. /\ c.op = "neg" => is_integer_ty(c.ty)
            /\ c.op = "lnot" => c.ty.kind = "_bool"
        BY DEF WellTyped
      <4>2. folded = IF ~ IsConstant(lhs) THEN lhs
                     ELSE IF c.op = "neg" THEN Icons(eval_neg(c.ty, lhs.value))
                     ELSE Bcons(1 - lhs.value)
        BY <3>3 DEF folded_value
      <4> HIDE DEF folded, lhs
      <4> QED
        BY <2>2, <2>3, <3>3, <4>1, <4>2 DEF OfType
    <3>4. CASE c.op \in Arithmetic \cup Comparisons
      <4>1. /\ c.op \in Arithmetic => is_integer_ty(c.ty)
            /\ c.op \in Comparisons => c.ty.kind = "_bool"
        BY DEF WellTyped
      <4>2. c.op \notin {"iconst", "bconst", "neg", "lnot"}
        BY <3>4 DEF Arithmetic, Comparisons
      <4>3. \/ folded = lhs /\ ~ IsConstant(lhs)
            \/ folded = rhs /\ ~ IsConstant(rhs)
            \/ c.op \in Comparisons /\ folded = Compared(c.op, lhs.value, rhs.value)
            \/ /\ c.op \in Arithmetic
               /\ \/ folded = Bot
                  \/ folded = Icons(eval_arith(c.op, c.ty, lhs.value, rhs.value))
        BY <3>4, <4>2 DEF folded_value, is_comparison
      <4>4. \A a, b : Compared(c.op, a, b).kind = "bcons"
        BY <2>2 DEF Compared
      <4> HIDE DEF folded, lhs, rhs
      <4> QED
        BY <2>2, <2>3, <4>1, <4>3, <4>4, KindOfTopAndBot DEF OfType
    <3> QED
      BY <1>3, <3>1, <3>2, <3>3, <3>4 DEF IsFoldable
  <2> HIDE DEF folded
  <2> QED
    BY <1>1, <2>1, <2>4, MeetFacts, KindOfTopAndBot
<1>4. CASE c.op # "phi" /\ ~ IsFoldable(c.op)
  BY <1>1, <1>4, KindOfTopAndBot DEF NewElement
<1> QED
  BY <1>2, <1>3, <1>4

LEMMA VisitKindsMatch ==
  ASSUME TypeOK, pc # "done", KindsMatch, NEW w, WorkOK(w), NEW i \in Instrs(fn),
         Visit(i, w), fn' = fn
  PROVE  KindsMatch'
<1>1. fn \in Functions /\ values \in [Instrs(fn) -> Lattice]
  BY DEF TypeOK
<1>2. /\ \A j \in Instrs(fn) \ {i} : values'[j] = values[j]
      /\ values'[i] \in {values[i], NewElement(i)}
  BY <1>1, VisitFacts
<1> QED
  BY <1>1, <1>2, NewElementOfType DEF KindsMatch

-----------------------------------------------------------------------------
\* The actions.

LEMMA InitInv == Init => IInv
<1> SUFFICES ASSUME Init PROVE IInv
  OBVIOUS
<1>1. TypeOK
  BY InitTypeOK
<1>2. fn.entry \in Range(flow_worklist)
  <2>1. 1 \in DOMAIN flow_worklist /\ flow_worklist[1] = fn.entry
    BY DEF Init
  <2> QED
    BY <2>1 DEF Range
<1>3. NothingForgotten
  BY <1>2 DEF Init, NothingForgotten, Pending
<1>4. KindsMatch
  BY KindOfTopAndBot DEF Init, KindsMatch
<1> QED
  BY <1>1, <1>3, <1>4 DEF Init, IInv, TypedNeverAborts

LEMMA TakeBlockInv == IInv /\ TakeBlock => IInv'
<1> SUFFICES ASSUME IInv, TakeBlock PROVE IInv'
  OBVIOUS
<1>1. /\ TypeOK /\ NothingForgotten /\ KindsMatch
      /\ pc = "loop" /\ flow_worklist # <<>>
      /\ current' = Head(flow_worklist) /\ flow_worklist' = Tail(flow_worklist)
      /\ next' = 1 /\ pc' = "block"
      /\ UNCHANGED <<fn, values, ssa_worklist, executable_blocks, executable_edges>>
  BY DEF IInv, TakeBlock
<1>2. /\ current' \in executable_blocks
      /\ flow_worklist' \in Seq(executable_blocks)
      /\ Range(flow_worklist) = Range(flow_worklist') \cup {current'}
  BY <1>1, RangeOfTail DEF TypeOK
<1>3. TypeOK'
  <2>1. Len(Ins(fn, current')) \in Nat
    BY <1>1, <1>2, SsaFacts DEF TypeOK
  <2> QED
    BY <1>1, <1>2, <2>1 DEF TypeOK
<1>4. NothingForgotten'
  <2>1. ASSUME NEW b \in executable_blocks, NEW k \in DOMAIN Ins(fn, b)
        PROVE  Settled(Ins(fn, b)[k])' \/ Pending(b, k)'
    <3>1. k \in Nat \ {0}
      BY <1>1, SsaFacts DEF TypeOK
    <3>2. Settled(Ins(fn, b)[k]) \/ Pending(b, k)
      BY <1>1 DEF NothingForgotten, Analysing
    <3>3. CASE Settled(Ins(fn, b)[k])
      BY <1>1, <3>3 DEF Settled, HasResult
    <3>4. CASE Pending(b, k)
      BY <1>1, <1>2, <3>1, <3>4 DEF Pending
    <3> QED
      BY <3>2, <3>3, <3>4
  <2>2. ASSUME NEW b \in executable_blocks, FallsThrough(b)
        PROVE  \/ <<b, Head(Succ(fn, b))>> \in executable_edges
               \/ b \in Range(flow_worklist')
               \/ b = current'
    BY <1>1, <1>2, <2>2 DEF NothingForgotten, Analysing
  <2> QED
    BY <1>1, <2>1, <2>2 DEF NothingForgotten, FallsThrough
<1> QED
  BY <1>1, <1>3, <1>4 DEF IInv, KindsMatch, TypedNeverAborts

LEMMA VisitNextInv == IInv /\ VisitNext => IInv'
<1> SUFFICES ASSUME IInv, VisitNext PROVE IInv'
  OBVIOUS
<1> DEFINE i == Ins(fn, current)[next]
<1>1. /\ TypeOK /\ NothingForgotten /\ KindsMatch
      /\ pc = "block" /\ next <= Len(Ins(fn, current))
      /\ Visit(i, Work) /\ next' = next + 1
      /\ UNCHANGED <<fn, pc, current>>
  BY DEF IInv, VisitNext
<1>2. Ins(fn, current) \in Seq(Instrs(fn))
  BY <1>1, SsaFacts DEF TypeOK
<1>3. i \in Instrs(fn) /\ next' \in 1 .. Len(Ins(fn, current)) + 1
  BY <1>1, <1>2 DEF TypeOK
<1>4. /\ WorkOK(Work) /\ Work.blocks = executable_blocks
      /\ Work.edges = executable_edges /\ Work.flow = flow_worklist
      /\ Work.ssa = ssa_worklist
  BY <1>1, WorkIsOK DEF Work
<1> HIDE DEF i
<1>5. TypeOK'
  BY <1>1, <1>3, <1>4, VisitTypeOK
<1>6. NothingForgotten'
  <2>1. Analysing /\ Range(ssa_worklist) \subseteq Range(Work.ssa) \cup {i}
    BY <1>1, <1>4 DEF Analysing
  <2>2. pc' = "block" /\ i = Ins(fn, current)[next]
    BY <1>1 DEF i
  <2> QED
    BY <1>1, <1>3, <1>4, <2>1, <2>2, VisitForgetsNothing
<1>7. KindsMatch'
  BY <1>1, <1>3, <1>4, VisitKindsMatch
<1> QED
  BY <1>1, <1>5, <1>6, <1>7 DEF IInv, TypedNeverAborts

LEMMA TakeUserInv == IInv /\ TakeUser => IInv'
<1> SUFFICES ASSUME IInv, TakeUser PROVE IInv'
  OBVIOUS
<1> DEFINE i == Head(ssa_worklist)
           w == [Work EXCEPT !.ssa = Tail(@)]
<1>1. /\ TypeOK /\ NothingForgotten /\ KindsMatch
      /\ pc \in {"loop", "users"} /\ pc' = "loop"
      /\ ssa_worklist # <<>> /\ Visit(i, w)
      /\ UNCHANGED <<fn, current, next>>
  BY DEF IInv, TakeUser, AtUsers
<1>2. /\ i \in Instrs(fn) /\ Tail(ssa_worklist) \in Seq(Instrs(fn))
      /\ Range(ssa_worklist) = Range(Tail(ssa_worklist)) \cup {i}
  BY <1>1, RangeOfTail DEF TypeOK
<1>3. /\ WorkOK(w) /\ w.blocks = executable_blocks
      /\ w.edges = executable_edges /\ w.flow = flow_worklist
      /\ w.ssa = Tail(ssa_worklist)
  BY <1>1, <1>2, WorkIsOK DEF Work, WorkOK
<1> HIDE DEF i, w
<1>4. TypeOK'
  BY <1>1, <1>2, <1>3, VisitTypeOK DEF TypeOK
<1>5. NothingForgotten'
  <2>1. Analysing /\ pc # "block" /\ Range(ssa_worklist) \subseteq Range(w.ssa) \cup {i}
    BY <1>1, <1>2, <1>3 DEF Analysing
  <2> QED
    BY <1>1, <1>2, <1>3, <2>1, VisitForgetsNothing
<1>6. KindsMatch'
  BY <1>1, <1>2, <1>3, VisitKindsMatch
<1> QED
  BY <1>1, <1>4, <1>5, <1>6 DEF IInv, TypedNeverAborts

\* The end of a block marks the edge it falls through, if any.
LEMMA EndBlockInv == IInv /\ EndBlock => IInv'
<1> SUFFICES ASSUME IInv, EndBlock PROVE IInv'
  OBVIOUS
<1> DEFINE to == Head(Succ(fn, current))
           v == IF FallsThrough(current) THEN MarkExecutable(Work, <<current, to>>)
                ELSE Work
<1>1. /\ TypeOK /\ NothingForgotten /\ KindsMatch
      /\ pc = "block" /\ pc' = "users" /\ next > Len(Ins(fn, current))
      /\ SetWork(v)
      /\ UNCHANGED <<fn, values, current, next>>
  BY DEF IInv, EndBlock, FallsThrough
<1>2. /\ fn \in Functions /\ current \in Blocks(fn)
      /\ Succ(fn, current) \in Seq(Blocks(fn)) /\ WorkOK(Work)
      /\ Len(Ins(fn, current)) \in Nat /\ next \in Nat
      /\ DOMAIN Ins(fn, current) = 1 .. Len(Ins(fn, current))
  BY <1>1, SsaFacts, WorkIsOK DEF TypeOK
<1>3. /\ WorkOK(v) /\ Grows(Work, v)
      /\ FallsThrough(current) => <<current, to>> \in v.edges
  <2>1. CASE FallsThrough(current)
    <3>1. to \in Blocks(fn)
      BY <1>2, <2>1 DEF FallsThrough
    <3> QED
      BY <1>2, <2>1, <3>1, MarkExecutableFacts
  <2>2. CASE ~ FallsThrough(current)
    BY <1>2, <2>2 DEF Grows
  <2> QED
    BY <2>1, <2>2
<1> HIDE DEF v
<1>4. /\ WorkOK(Work') /\ Grows(Work, Work')
      /\ FallsThrough(current) => <<current, to>> \in executable_edges'
  BY <1>1, <1>3 DEF SetWork, Work, WorkOK, Grows
<1>5. TypeOK'
  BY <1>1, <1>4 DEF TypeOK, WorkOK, Grows, Work
<1>6. NothingForgotten'
  <2>1. /\ executable_blocks \subseteq executable_blocks'
        /\ executable_edges \subseteq executable_edges'
        /\ Range(flow_worklist) \subseteq Range(flow_worklist')
        /\ Range(ssa_worklist) \subseteq Range(ssa_worklist')
        /\ executable_blocks' \ executable_blocks \subseteq Range(flow_worklist')
        /\ executable_blocks' \subseteq Blocks(fn)
        /\ \A e \in executable_edges' \ executable_edges :
             Range(Phis(fn, e[2])) \subseteq Range(ssa_worklist')
    BY <1>4 DEF Grows, WorkOK, Work
  <2>2. ASSUME NEW j \in Instrs(fn), Settled(j)
        PROVE  Settled(j)' \/ j \in Range(ssa_worklist')
    <3> DEFINE c == fn.code[j]
    <3>1. CASE c.op = "phi"
      <4>1. CASE \E e \in executable_edges' \ executable_edges : e[2] = c.parent
        <5>1. Range(Phis(fn, c.parent)) \subseteq Range(ssa_worklist')
          BY <2>1, <4>1
        <5>2. j \in Range(Phis(fn, c.parent))
          BY <1>2, <3>1, SsaFacts, PhisFacts DEF IsPhi
        <5> QED
          BY <5>1, <5>2
      <4>2. CASE ~ \E e \in executable_edges' \ executable_edges : e[2] = c.parent
        <5>1. \A p \in DOMAIN c.inc :
                <<p, c.parent>> \in executable_edges' <=> <<p, c.parent>> \in executable_edges
          BY <2>1, <4>2
        <5>2. LiveIncoming(fn, j, executable_edges') = LiveIncoming(fn, j, executable_edges)
          BY <5>1 DEF LiveIncoming
        <5>3. \A x \in LiveIncoming(fn, j, executable_edges') : Leq(values[j], values[x])
          BY <2>2, <3>1, <5>2 DEF Settled
        <5> QED
          BY <1>1, <3>1, <5>3, OpKinds DEF Settled
      <4> QED
        BY <4>1, <4>2
    <3>2. CASE c.op \in {"br", "cond_br"}
      BY <1>1, <2>1, <2>2, <3>2, OpKinds DEF Settled
    <3>3. CASE c.op \notin {"phi", "br", "cond_br"}
      BY <1>1, <2>2, <3>3 DEF Settled, HasResult
    <3> QED
      BY <3>1, <3>2, <3>3
  <2>3. ASSUME NEW b \in executable_blocks', NEW k \in DOMAIN Ins(fn, b)
        PROVE  Settled(Ins(fn, b)[k])' \/ Pending(b, k)'
    <3>1. CASE b \notin executable_blocks
      BY <2>1, <3>1 DEF Pending
    <3>2. CASE b \in executable_blocks
      <4>1. Ins(fn, b)[k] \in Instrs(fn)
        BY <1>2, <2>1, SsaFacts
      <4>2. Settled(Ins(fn, b)[k]) \/ Pending(b, k)
        BY <1>1, <3>2 DEF NothingForgotten, Analysing
      <4>3. CASE Settled(Ins(fn, b)[k])
        BY <1>1, <2>2, <4>1, <4>3 DEF Pending
      <4>4. CASE Pending(b, k)
        <5>1. ~(current = b /\ next <= k)
          BY <1>1, <1>2
        <5> QED
          BY <1>1, <2>1, <4>4, <5>1 DEF Pending
      <4> QED
        BY <4>2, <4>3, <4>4
    <3> QED
      BY <3>1, <3>2
  <2>4. ASSUME NEW b \in executable_blocks', FallsThrough(b)
        PROVE  \/ <<b, Head(Succ(fn, b))>> \in executable_edges'
               \/ b \in Range(flow_worklist')
    <3>1. CASE b \notin executable_blocks
      BY <2>1, <3>1
    <3>2. CASE b = current
      BY <1>4, <2>4, <3>2
    <3>3. CASE b \in executable_blocks /\ b # current
      BY <1>1, <2>1, <2>4, <3>3 DEF NothingForgotten, Analysing
    <3> QED
      BY <3>1, <3>2, <3>3
  <2> QED
    BY <1>1, <2>3, <2>4 DEF NothingForgotten, FallsThrough
<1> QED
  BY <1>1, <1>5, <1>6 DEF IInv, KindsMatch, TypedNeverAborts

LEMMA NoUserInv == IInv /\ NoUser => IInv'
<1> SUFFICES ASSUME IInv, NoUser PROVE IInv'
  OBVIOUS
<1>1. /\ TypeOK /\ NothingForgotten /\ KindsMatch /\ pc = "users" /\ pc' = "loop"
      /\ UNCHANGED <<fn, values, flow_worklist, ssa_worklist, executable_blocks,
                     executable_edges, current, next>>
  BY DEF IInv, NoUser
<1>2. TypeOK'
  BY <1>1 DEF TypeOK
<1>3. NothingForgotten'
  BY <1>1 DEF NothingForgotten, Analysing, Pending, Settled, HasResult, FallsThrough
<1> QED
  BY <1>1, <1>2, <1>3 DEF IInv, KindsMatch, TypedNeverAborts

\* The pass aborts on no function whose types infer_op would give.
LEMMA AbortInv == IInv /\ Abort => IInv'
<1> SUFFICES ASSUME IInv, Abort PROVE IInv'
  OBVIOUS
<1>1. /\ TypeOK /\ KindsMatch /\ pc # "done" /\ pc' = "aborted"
      /\ UNCHANGED <<fn, values, flow_worklist, ssa_worklist, executable_blocks,
                     executable_edges, current, next>>
  BY DEF IInv, Abort, AtUsers
<1>2. TypeOK'
  BY <1>1 DEF TypeOK
<1>3. fn \in Functions /\ Ins(fn, current) \in Seq(Instrs(fn))
  BY <1>1, SsaFacts DEF TypeOK
<1>4. PICK i \in Instrs(fn) : VisitAsserts(i)
  <2>1. CASE /\ next <= Len(Ins(fn, current))
             /\ VisitAsserts(Ins(fn, current)[next])
    <3>1. Ins(fn, current)[next] \in Instrs(fn)
      BY <1>1, <1>3, <2>1 DEF TypeOK
    <3> QED
      BY <2>1, <3>1
  <2>2. CASE ssa_worklist # <<>> /\ VisitAsserts(Head(ssa_worklist))
    <3>1. Head(ssa_worklist) \in Instrs(fn)
      BY <1>1, <2>2 DEF TypeOK
    <3> QED
      BY <2>2, <3>1
  <2> QED
    BY <2>1, <2>2 DEF Abort
<1>5. ~ WellTyped(fn)
  BY <1>1, <1>3, <1>4, NoAssertFails
<1> QED
  BY <1>1, <1>2, <1>5 DEF IInv, NothingForgotten, Analysing, KindsMatch, TypedNeverAborts

LEMMA ConvergedInv == IInv /\ Converged => IInv'
<1> SUFFICES ASSUME IInv, Converged PROVE IInv'
  OBVIOUS
<1>1. /\ TypeOK /\ NothingForgotten /\ KindsMatch /\ pc = "loop" /\ pc' = "transform"
      /\ flow_worklist = <<>> /\ ssa_worklist = <<>>
      /\ UNCHANGED <<fn, values, flow_worklist, ssa_worklist, executable_blocks,
                     executable_edges, current, next>>
  BY DEF IInv, Converged
<1>2. TypeOK'
  BY <1>1 DEF TypeOK
<1>3. NothingForgotten'
  BY <1>1 DEF NothingForgotten, Analysing, Pending, Settled, HasResult, FallsThrough
<1> QED
  BY <1>1, <1>2, <1>3 DEF IInv, KindsMatch, TypedNeverAborts

\* The rewritten function has the instructions and the blocks of the old one.
LEMMA TransformInv == IInv /\ Transform => IInv'
<1> SUFFICES ASSUME IInv, Transform PROVE IInv'
  OBVIOUS
<1>1. /\ TypeOK /\ pc = "transform" /\ pc' = "done"
      /\ fn' = Transformed(fn, values)
      /\ UNCHANGED <<values, flow_worklist, ssa_worklist, executable_blocks,
                     executable_edges, current, next>>
  BY DEF IInv, Transform
<1>2. IsFunction(fn) /\ current \in Blocks(fn)
  BY <1>1, FunctionsAssumption DEF TypeOK, IsSsa
<1>3. /\ Instrs(fn') = Instrs(fn) /\ Blocks(fn') = Blocks(fn)
      /\ Ins(fn', current) = Ins(fn, current)
  BY <1>1, <1>2 DEF Transformed, Instrs, Blocks, Ins, IsFunction
<1>4. TypeOK'
  BY <1>1, <1>3 DEF TypeOK
<1> QED
  BY <1>1, <1>4 DEF IInv, NothingForgotten, Analysing, TypedNeverAborts

LEMMA StutterInv == IInv /\ UNCHANGED vars => IInv'
<1> SUFFICES ASSUME IInv, UNCHANGED vars PROVE IInv'
  OBVIOUS
<1>1. UNCHANGED <<fn, values, flow_worklist, ssa_worklist, executable_blocks,
                  executable_edges, pc, current, next>>
  BY DEF vars
<1>2. TypeOK'
  BY <1>1 DEF IInv, TypeOK
<1>3. NothingForgotten'
  BY <1>1 DEF IInv, NothingForgotten, Analysing, Pending, Settled, HasResult, FallsThrough
<1> QED
  BY <1>1, <1>2, <1>3 DEF IInv, KindsMatch, TypedNeverAborts

LEMMA StepInv == IInv /\ [Next]_vars => IInv'
BY TakeBlockInv, VisitNextInv, EndBlockInv, TakeUserInv, NoUserInv, AbortInv,
   ConvergedInv, TransformInv, StutterInv DEF Next

LEMMA InvFixpoint == IInv => FixpointReached
<1> SUFFICES ASSUME IInv, pc = "transform" PROVE FixpointReached
  BY DEF FixpointReached
<1>1. /\ NothingForgotten /\ Analysing
      /\ Range(flow_worklist) = {} /\ Range(ssa_worklist) = {}
  BY DEF IInv, Analysing, Range
<1>2. \A b, k : ~ Pending(b, k)
  BY <1>1 DEF Pending
<1> QED
  BY <1>1, <1>2 DEF NothingForgotten, FixpointReached

\* No element rises and nothing executable is taken back.
Down == /\ \A i \in Instrs(fn) : Leq(values'[i], values[i])
        /\ executable_blocks \subseteq executable_blocks'
        /\ executable_edges \subseteq executable_edges'

LEMMA StepDescends == IInv /\ Next => Down
<1> SUFFICES ASSUME IInv, Next PROVE Down
  OBVIOUS
<1>1. TypeOK
  BY DEF IInv
<1>2. ASSUME NEW i \in Instrs(fn), NEW w, WorkOK(w), Visit(i, w), fn' = fn, pc # "done",
             w.blocks = executable_blocks, w.edges = executable_edges
      PROVE  Down
  <2>1. fn \in Functions /\ values \in [Instrs(fn) -> Lattice]
    BY <1>1, <1>2 DEF TypeOK
  <2>2. /\ \A j \in Instrs(fn) \ {i} : values'[j] = values[j]
        /\ Leq(values'[i], values[i])
        /\ Grows(w, Work')
    BY <1>2, <2>1, VisitFacts
  <2>3. \A j \in Instrs(fn) : Leq(values'[j], values[j])
    BY <2>2 DEF Leq
  <2> QED
    BY <1>2, <2>2, <2>3 DEF Grows, Work, Down
<1>3. CASE VisitNext
  <2>1. fn \in Functions /\ Ins(fn, current) \in Seq(Instrs(fn))
    BY <1>1, <1>3, SsaFacts DEF TypeOK, VisitNext
  <2>2. Ins(fn, current)[next] \in Instrs(fn)
    BY <1>1, <1>3, <2>1 DEF TypeOK, VisitNext
  <2>3. /\ WorkOK(Work) /\ Work.blocks = executable_blocks
        /\ Work.edges = executable_edges
    BY <1>1, WorkIsOK DEF Work
  <2> QED
    BY <1>2, <1>3, <2>2, <2>3 DEF VisitNext
<1>4. CASE TakeUser
  <2> DEFINE w == [Work EXCEPT !.ssa = Tail(@)]
  <2>1. /\ ssa_worklist \in Seq(Instrs(fn)) /\ ssa_worklist # <<>>
        /\ fn' = fn /\ pc # "done" /\ Visit(Head(ssa_worklist), w)
    BY <1>1, <1>4 DEF TypeOK, TakeUser, AtUsers
  <2>2. Head(ssa_worklist) \in Instrs(fn) /\ Tail(ssa_worklist) \in Seq(Instrs(fn))
    BY <2>1
  <2>3. WorkOK(w) /\ w.blocks = executable_blocks /\ w.edges = executable_edges
    BY <1>1, <2>2, WorkIsOK DEF Work, WorkOK
  <2> HIDE DEF w
  <2> QED
    BY <1>2, <2>1, <2>2, <2>3
<1>5. CASE EndBlock
  <2>1. /\ executable_blocks' = executable_blocks
           \/ executable_blocks' = executable_blocks \cup {Head(Succ(fn, current))}
        /\ executable_edges \subseteq executable_edges'
        /\ values' = values
    BY <1>5 DEF EndBlock, SetWork, Work, MarkExecutable
  <2> QED
    BY <2>1 DEF Leq, Down
<1>6. CASE \/ TakeBlock \/ NoUser \/ Abort \/ Converged \/ Transform
  <2>1. UNCHANGED <<values, executable_blocks, executable_edges>>
    BY <1>6 DEF TakeBlock, NoUser, Abort, Converged, Transform, vars
  <2> QED
    BY <2>1 DEF Leq, Down
<1> QED
  BY <1>3, <1>4, <1>5, <1>6 DEF Next

-----------------------------------------------------------------------------
\* What transform() leaves.  No element of an instruction without a result
\* is a constant, so nothing that ends a block or stores becomes one.

ConstantsHaveResults ==
  \A i \in Instrs(fn) : IsConstant(values[i]) => HasResult(fn, i)

WellFormed(f) ==
  /\ BranchesResolved(f)
  /\ \A i \in Placed(f), v \in Instrs(f) : i \in Range(f.users[v]) <=> v \in Reads(f, i)

WellFormedInv == (pc # "done" => ConstantsHaveResults) /\ WellFormed(fn)

LEMMA PlacedFacts ==
  ASSUME NEW f \in Functions, NEW i \in Placed(f)
  PROVE  /\ i \in Instrs(f)
         /\ \E b \in Blocks(f) : i \in Range(Ins(f, b))
<1>1. f.order \in Seq(Blocks(f))
  BY SsaFacts DEF IsFunction
<1>2. PICK b \in Range(f.order) : i \in Range(Ins(f, b))
  BY DEF Placed
<1>3. b \in Blocks(f)
  BY <1>1 DEF Range
<1>4. Ins(f, b) \in Seq(Instrs(f))
  BY <1>3, SsaFacts
<1> QED
  BY <1>2, <1>3, <1>4 DEF Range

LEMMA GivenWellFormed ==
  ASSUME NEW f \in Functions
  PROVE  WellFormed(f)
<1>1. ASSUME NEW i \in Placed(f), NEW v \in Instrs(f), v \in Reads(f, i)
      PROVE  i \in Range(f.users[v])
  BY <1>1, SsaFacts, PlacedFacts DEF UsersComplete
<1>2. ASSUME NEW i \in Placed(f), NEW v \in Instrs(f), i \in Range(f.users[v])
      PROVE  v \in Reads(f, i)
  BY <1>2, UsersAssumption DEF UsersRead
<1> QED
  BY <1>1, <1>2, SsaFacts DEF WellFormed

LEMMA VisitKeepsResults ==
  ASSUME fn \in Functions, values \in [Instrs(fn) -> Lattice], ConstantsHaveResults,
         NEW w, NEW i \in Instrs(fn), Visit(i, w), fn' = fn
  PROVE  ConstantsHaveResults'
<1>1. CASE IsBranch(i)
  BY <1>1 DEF Visit, VisitBranch, ConstantsHaveResults
<1>2. CASE ~IsBranch(i)
  <2>1. values' = [values EXCEPT ![i] = NewElement(i)]
    BY <1>2 DEF Visit, VisitValue
  <2>2. ASSUME IsConstant(NewElement(i)) PROVE HasResult(fn, i)
    <3>1. SUFFICES ASSUME ~HasResult(fn, i) PROVE FALSE
      OBVIOUS
    <3>2. fn.code[i].op \in {"br", "cond_br", "ret", "store"}
      BY <3>1, SsaFacts DEF MatchesOpcode, HasResult
    <3>3. fn.code[i].op # "phi" /\ ~IsFoldable(fn.code[i].op)
      BY <3>2 DEF IsFoldable, Arithmetic, Comparisons
    <3>4. NewElement(i) = values[i]
      BY <3>1, <3>3 DEF NewElement
    <3> QED
      BY <2>2, <3>1, <3>4 DEF ConstantsHaveResults
  <2> QED
    BY <2>1, <2>2 DEF ConstantsHaveResults
<1> QED
  BY <1>1, <1>2

\* The parts of the function that transform() makes.
LEMMA TransformedParts ==
  ASSUME NEW f \in Functions, NEW vals
  PROVE  LET g == Transformed(f, vals)
         IN  /\ Instrs(g) = Instrs(f) /\ Blocks(g) = Blocks(f) /\ Placed(g) = Placed(f)
             /\ \A b \in Blocks(f) : /\ Ins(g, b) = Ins(f, b)
                                     /\ Succ(g, b) = TakenSucc(f, vals, b)
             /\ \A i \in Instrs(f) : g.code[i] = Rewritten(f, vals, i)
             /\ \A v \in Instrs(f) :
                  Range(g.users[v]) =
                    {u \in Range(f.users[v]) :
                       ~ (/\ BecomesBr(f, vals, u) \/ BecomesConst(f, vals, u)
                          /\ v \in Range(f.code[u].args))}
<1> DEFINE g == Transformed(f, vals)
           drops(u, v) == /\ BecomesBr(f, vals, u) \/ BecomesConst(f, vals, u)
                          /\ v \in Range(f.code[u].args)
<1>1. /\ DOMAIN f = {"entry", "order", "block", "code", "users"}
      /\ f.block \in [Blocks(f) -> [ins : Seq(Instrs(f)), succ : Seq(Blocks(f)),
                                     pred : Seq(Blocks(f))]]
      /\ f.users \in [Instrs(f) -> Seq(Instrs(f))]
      /\ f.order \in Seq(Blocks(f))
  BY SsaFacts DEF IsFunction
<1>2. /\ g.code = [i \in Instrs(f) |-> Rewritten(f, vals, i)]
      /\ g.users = [v \in Instrs(f) |->
                      Filtered(f.users[v], {u \in Range(f.users[v]) : ~drops(u, v)})]
      /\ g.block = [b \in Blocks(f) |-> [f.block[b] EXCEPT !.succ = TakenSucc(f, vals, b)]]
      /\ g.order = f.order
  BY <1>1 DEF Transformed
<1> HIDE DEF g
<1>3. Instrs(g) = Instrs(f) /\ Blocks(g) = Blocks(f)
  BY <1>2 DEF Instrs, Blocks
<1>4. ASSUME NEW b \in Blocks(f)
      PROVE  Ins(g, b) = Ins(f, b) /\ Succ(g, b) = TakenSucc(f, vals, b)
  <2>1. g.block[b] = [f.block[b] EXCEPT !.succ = TakenSucc(f, vals, b)]
    BY <1>2
  <2>2. f.block[b] \in [ins : Seq(Instrs(f)), succ : Seq(Blocks(f)), pred : Seq(Blocks(f))]
    BY <1>1
  <2> QED
    BY <2>1, <2>2 DEF Ins, Succ
<1>5. Placed(g) = Placed(f)
  <2>1. \A b \in Range(f.order) : b \in Blocks(f)
    BY <1>1 DEF Range
  <2> QED
    BY <1>2, <1>4, <2>1 DEF Placed
<1>6. ASSUME NEW v \in Instrs(f)
      PROVE  Range(g.users[v]) = {u \in Range(f.users[v]) : ~drops(u, v)}
  <2> DEFINE S == {u \in Range(f.users[v]) : ~drops(u, v)}
  <2>1. f.users[v] \in Seq(Instrs(f)) /\ g.users[v] = Filtered(f.users[v], S)
    BY <1>1, <1>2
  <2>2. Range(g.users[v]) = Range(f.users[v]) \cap S
    BY <2>1, FilteredFacts
  <2> QED
    BY <2>2
<1> QED
  BY <1>2, <1>3, <1>4, <1>5, <1>6 DEF g

LEMMA RewrittenFacts ==
  ASSUME NEW f \in Functions, NEW vals, NEW i \in Instrs(f),
         IsConstant(vals[i]) => HasResult(f, i)
  PROVE  LET c == f.code[i]
             r == Rewritten(f, vals, i)
         IN  /\ r.parent = c.parent
             /\ IsTerminator(r.op) <=> IsTerminator(c.op)
             /\ r.op = "br" => c.op = "br" \/ BecomesBr(f, vals, i)
             /\ r.op = "cond_br" => c.op = "cond_br" /\ ~BecomesBr(f, vals, i)
             /\ BecomesBr(f, vals, i) => r.args = <<>> /\ r.inc = c.inc
             /\ BecomesConst(f, vals, i) => r.args = <<>> /\ r.inc = <<>>
             /\ ~BecomesBr(f, vals, i) /\ ~BecomesConst(f, vals, i) => r = c
<1> DEFINE c == f.code[i]
           r == Rewritten(f, vals, i)
<1>1. DOMAIN c = {"op", "ty", "args", "k", "tgt", "inc", "parent"} /\ MatchesOpcode(c)
  BY SsaFacts DEF IsCode
<1>2. CASE BecomesBr(f, vals, i)
  <2>0. c.op = "cond_br" /\ ~BecomesConst(f, vals, i)
    BY <1>2 DEF BecomesBr, BecomesConst
  <2>1. r = [c EXCEPT !.op = "br", !.args = <<>>, !.tgt = <<c.tgt[TakenIndex(f, vals, i)]>>]
    BY <1>2, <2>0 DEF Rewritten
  <2>2. r.op = "br" /\ r.args = <<>> /\ r.inc = c.inc /\ r.parent = c.parent
    <3> HIDE DEF c
    <3> QED
      BY <1>1, <2>1
  <2> QED
    BY <1>2, <2>0, <2>2 DEF IsTerminator
<1>3. CASE ~BecomesBr(f, vals, i) /\ BecomesConst(f, vals, i)
  <2>1. r = [c EXCEPT !.op = IF vals[i].kind = "icons" THEN "iconst" ELSE "bconst",
                      !.k = vals[i].value, !.args = <<>>, !.inc = <<>>, !.tgt = <<>>]
    BY <1>3 DEF Rewritten
  <2>2. r.op \in {"iconst", "bconst"} /\ r.args = <<>> /\ r.inc = <<>> /\ r.parent = c.parent
    <3> HIDE DEF c
    <3> QED
      BY <1>1, <2>1
  <2>3. c.op \notin {"br", "cond_br", "ret", "store"}
    BY <1>1, <1>3 DEF BecomesConst, HasResult, MatchesOpcode
  <2> QED
    BY <1>3, <2>2, <2>3 DEF IsTerminator
<1>4. CASE ~BecomesBr(f, vals, i) /\ ~BecomesConst(f, vals, i)
  BY <1>4 DEF Rewritten
<1> QED
  BY <1>2, <1>3, <1>4

LEMMA TransformedResolved ==
  ASSUME NEW f \in Functions, NEW vals,
         \A i \in Instrs(f) : IsConstant(vals[i]) => HasResult(f, i)
  PROVE  BranchesResolved(Transformed(f, vals))
<1> DEFINE g == Transformed(f, vals)
<1>1. /\ Blocks(g) = Blocks(f)
      /\ \A b \in Blocks(f) : Ins(g, b) = Ins(f, b) /\ Succ(g, b) = TakenSucc(f, vals, b)
      /\ \A i \in Instrs(f) : g.code[i] = Rewritten(f, vals, i)
  BY TransformedParts
<1> HIDE DEF g
<1> SUFFICES ASSUME NEW b \in Blocks(f), NEW k \in DOMAIN Ins(f, b)
             PROVE  LET i == Ins(f, b)[k] IN
                    /\ g.code[i].parent = b
                    /\ IsTerminator(g.code[i].op) <=> k = Len(Ins(f, b)) /\ HasTerminator(g, b)
                    /\ g.code[i].op = "br" => Len(TakenSucc(f, vals, b)) = 1
                    /\ g.code[i].op = "cond_br" => Len(TakenSucc(f, vals, b)) = 2
  BY <1>1 DEF BranchesResolved, g
<1> DEFINE s == Ins(f, b)
           i == s[k]
           last == s[Len(s)]
<1>2. s \in Seq(Instrs(f)) /\ k \in 1 .. Len(s) /\ Len(s) \in Nat
  BY SsaFacts
<1>3. i \in Instrs(f) /\ last \in Instrs(f)
  BY <1>2
<1>4. /\ f.code[i].parent = b
      /\ IsTerminator(f.code[i].op) <=> k = Len(s) /\ HasTerminator(f, b)
      /\ f.code[i].op = "br" => Len(Succ(f, b)) = 1
      /\ f.code[i].op = "cond_br" => Len(Succ(f, b)) = 2
  BY SsaFacts DEF BranchesResolved
<1>5. HasTerminator(g, b) <=> HasTerminator(f, b)
  <2>1. IsTerminator(g.code[last].op) <=> IsTerminator(f.code[last].op)
    BY <1>1, <1>3, RewrittenFacts
  <2> QED
    BY <1>1, <2>1 DEF HasTerminator
<1>6. f.code[i].op \in {"br", "cond_br"} => HasTerminator(f, b) /\ i = last
  BY <1>4 DEF IsTerminator
<1>7. /\ g.code[i].parent = f.code[i].parent
      /\ IsTerminator(g.code[i].op) <=> IsTerminator(f.code[i].op)
      /\ g.code[i].op = "br" => f.code[i].op = "br" \/ BecomesBr(f, vals, i)
      /\ g.code[i].op = "cond_br" => f.code[i].op = "cond_br" /\ ~BecomesBr(f, vals, i)
  BY <1>1, <1>3, RewrittenFacts
<1>8. BecomesBr(f, vals, i) => f.code[i].op = "cond_br"
  BY DEF BecomesBr
<1>9. g.code[i].op = "br" => Len(TakenSucc(f, vals, b)) = 1
  <2>1. CASE BecomesBr(f, vals, i)
    <3>1. TakenSucc(f, vals, b) = <<Succ(f, b)[TakenIndex(f, vals, last)]>>
      BY <1>6, <1>8, <2>1 DEF TakenSucc
    <3> QED
      BY <3>1
  <2>2. CASE f.code[i].op = "br"
    BY <1>4, <1>6, <1>8, <2>2 DEF TakenSucc
  <2> QED
    BY <1>7, <2>1, <2>2
<1>10. g.code[i].op = "cond_br" => Len(TakenSucc(f, vals, b)) = 2
  BY <1>4, <1>6, <1>7 DEF TakenSucc
<1> QED
  BY <1>4, <1>5, <1>7, <1>9, <1>10

LEMMA TransformedWellFormed ==
  ASSUME NEW f \in Functions, NEW vals,
         \A i \in Instrs(f) : IsConstant(vals[i]) => HasResult(f, i)
  PROVE  WellFormed(Transformed(f, vals))
<1> DEFINE g == Transformed(f, vals)
           drops(u, v) == /\ BecomesBr(f, vals, u) \/ BecomesConst(f, vals, u)
                          /\ v \in Range(f.code[u].args)
<1>1. /\ Instrs(g) = Instrs(f) /\ Placed(g) = Placed(f)
      /\ \A i \in Instrs(f) : g.code[i] = Rewritten(f, vals, i)
      /\ \A v \in Instrs(f) :
           Range(g.users[v]) = {u \in Range(f.users[v]) : ~drops(u, v)}
  BY TransformedParts
<1>2. BranchesResolved(g)
  BY TransformedResolved
<1> HIDE DEF g
<1>3. ASSUME NEW i \in Placed(f), NEW v \in Instrs(f)
      PROVE  i \in Range(g.users[v]) <=> v \in Reads(g, i)
  <2>1. i \in Instrs(f)
    BY PlacedFacts
  <2>2. i \in Range(f.users[v]) <=> v \in Reads(f, i)
    BY GivenWellFormed DEF WellFormed
  <2>3. /\ Incoming(f, i) \subseteq Range(f.code[i].args)
        /\ ~IsPhi(f, i) => Incoming(f, i) = {}
    BY UsersAssumption DEF UsersRead
  <2>4. Range(<<>>) = {}
    BY DEF Range
  <2>5. CASE BecomesBr(f, vals, i) \/ BecomesConst(f, vals, i)
    <3>1. g.code[i].args = <<>> /\ (g.code[i].inc = <<>> \/ g.code[i].inc = f.code[i].inc)
      BY <1>1, <2>1, <2>5, RewrittenFacts
    <3>2. BecomesBr(f, vals, i) => Incoming(f, i) = {}
      BY <2>3 DEF BecomesBr, IsPhi
    <3>3. BecomesConst(f, vals, i) /\ ~BecomesBr(f, vals, i) => g.code[i].inc = <<>>
      BY <1>1, <2>1, RewrittenFacts
    <3>4. Reads(g, i) = {}
      BY <2>4, <2>5, <3>1, <3>2, <3>3 DEF Reads, Incoming
    <3>5. i \in Range(f.users[v]) => drops(i, v)
      BY <2>2, <2>3, <2>5 DEF Reads
    <3> QED
      BY <1>1, <3>4, <3>5
  <2>6. CASE ~BecomesBr(f, vals, i) /\ ~BecomesConst(f, vals, i)
    <3>1. g.code[i] = f.code[i]
      BY <1>1, <2>1, <2>6, RewrittenFacts
    <3>2. Reads(g, i) = Reads(f, i)
      BY <3>1 DEF Reads, Incoming
    <3> QED
      BY <1>1, <2>2, <2>6, <3>2
  <2> QED
    BY <2>5, <2>6
<1> QED
  BY <1>1, <1>2, <1>3 DEF WellFormed, g

LEMMA StepWellFormed ==
  ASSUME IInv, WellFormedInv, [Next]_vars
  PROVE  WellFormedInv'
<1>1. TypeOK /\ (pc # "done" => fn \in Functions /\ ConstantsHaveResults)
      /\ values \in [Instrs(fn) -> Lattice] /\ WellFormed(fn)
  BY DEF IInv, TypeOK, WellFormedInv
<1>2. ASSUME NEW w, NEW i \in Instrs(fn), Visit(i, w), fn' = fn, pc # "done"
      PROVE  WellFormedInv'
  BY <1>1, <1>2, VisitKeepsResults DEF WellFormedInv
<1>3. CASE VisitNext
  <2>1. Ins(fn, current)[next] \in Instrs(fn)
    <3>1. Ins(fn, current) \in Seq(Instrs(fn)) /\ next \in 1 .. Len(Ins(fn, current))
      BY <1>1, <1>3, SsaFacts DEF TypeOK, VisitNext
    <3> QED
      BY <3>1
  <2> QED
    BY <1>2, <1>3, <2>1 DEF VisitNext
<1>4. CASE TakeUser
  <2>1. Head(ssa_worklist) \in Instrs(fn)
    BY <1>1, <1>4 DEF TypeOK, TakeUser
  <2> QED
    BY <1>2, <1>4, <2>1 DEF TakeUser, AtUsers
<1>5. CASE Transform
  <2>1. fn \in Functions /\ pc' = "done" /\ fn' = Transformed(fn, values)
        /\ \A i \in Instrs(fn) : IsConstant(values[i]) => HasResult(fn, i)
    BY <1>1, <1>5 DEF Transform, ConstantsHaveResults
  <2> QED
    BY <2>1, TransformedWellFormed DEF WellFormedInv
<1>6. CASE TakeBlock \/ EndBlock \/ NoUser \/ Abort \/ Converged
  <2>1. fn' = fn /\ values' = values /\ pc # "done"
    BY <1>6 DEF TakeBlock, EndBlock, NoUser, Abort, AtUsers, Converged
  <2> QED
    BY <1>1, <2>1 DEF WellFormedInv, ConstantsHaveResults
<1>7. CASE UNCHANGED vars
  BY <1>1, <1>7 DEF vars, WellFormedInv, ConstantsHaveResults
<1> QED
  BY <1>3, <1>4, <1>5, <1>6, <1>7 DEF Next

-----------------------------------------------------------------------------
\* The theorems.

\* The strengthening that the properties below follow from: the types of the
\* state, the agreement of elements with operands, and of elements with types.
THEOREM Invariant == Spec => []IInv
<1>1. Init => IInv
  BY InitInv
<1>2. IInv /\ [Next]_vars => IInv'
  BY StepInv
<1> QED
  BY <1>1, <1>2, PTL DEF Spec

\* Only blocks found executable are ever queued, visited or the target of an
\* executable edge, and every element is one of the lattice (sccp.hpp 197-273).
THEOREM TypeCorrect == Spec => []TypeOK
<1>1. IInv => TypeOK
  BY DEF IInv
<1> QED
  BY <1>1, Invariant, PTL

\* No instruction of an executable block is left behind with a stale element
\* (sccp.hpp 197-273).
THEOREM NothingIsForgotten == Spec => []NothingForgotten
<1>1. IInv => NothingForgotten
  BY DEF IInv
<1> QED
  BY <1>1, Invariant, PTL

\* What transform() reads is a fixpoint of the equations of the analysis
\* (sccp.hpp 253-279).
THEOREM FixpointIsReached == Spec => []FixpointReached
BY InvFixpoint, Invariant, PTL

\* No assertion of the pass, nor of the arithmetic it calls, fails on a function
\* typed as infer_op types it and with the opcodes from_opkind picks (sccp.hpp
\* 136, 147, 164-187, 222-228; int_semantics.hpp 24, 53-54).
THEOREM WellTypedNeverAborts == Spec => []TypedNeverAborts
<1>1. IInv => TypedNeverAborts
  BY DEF IInv
<1> QED
  BY <1>1, Invariant, PTL

\* No element rises and nothing executable is taken back (sccp.hpp 47-81, 230-241).
THEOREM OnlyDescending == Spec => OnlyDescends
<1>1. IInv /\ [Next]_vars => [Down]_vars
  BY StepDescends
<1>2. Spec => [][Down]_vars
  BY <1>1, Invariant, PTL DEF Spec
<1> QED
  BY <1>2 DEF OnlyDescends, Down

\* What transform() leaves, dce and simplify_cfg can rely on: a value lists
\* exactly its readers, and a block has the successors of its last branch
\* (sccp.hpp 275-318).
THEOREM TransformLeavesWellFormed == Spec => []LeavesWellFormed
<1>1. Init => WellFormedInv
  <2> SUFFICES ASSUME Init PROVE WellFormedInv
    OBVIOUS
  <2>1. fn \in Functions /\ values = [i \in Instrs(fn) |-> Top]
    BY DEF Init
  <2>2. ConstantsHaveResults
    BY <2>1 DEF ConstantsHaveResults, IsConstant, Top
  <2> QED
    BY <2>1, <2>2, GivenWellFormed DEF WellFormedInv
<1>2. IInv /\ WellFormedInv /\ [Next]_vars => WellFormedInv'
  BY StepWellFormed
<1>3. WellFormedInv => LeavesWellFormed
  BY DEF WellFormedInv, WellFormed, LeavesWellFormed
<1> QED
  BY <1>1, <1>2, <1>3, Invariant, PTL DEF Spec

-----------------------------------------------------------------------------

\* The instruction of function f agrees with the elements and the edges.
SettledIn(f, i) ==
  LET c == f.code[i]
      succ == Succ(f, c.parent)
      cond == values[c.args[1]]
      plain == c.op \notin {"br", "cond_br", "phi"} /\ ~ IsFoldable(c.op)
  IN  /\ c.op = "br" => <<c.parent, Head(succ)>> \in executable_edges
      /\ c.op = "cond_br" =>
           /\ cond.kind # "icons"
           /\ TakenTrue(cond) => <<c.parent, Head(succ)>> \in executable_edges
           /\ TakenFalse(cond) => <<c.parent, succ[Len(succ)]>> \in executable_edges
      /\ c.op = "phi" =>
           \A v \in LiveIncoming(f, i, executable_edges) : Leq(values[i], values[v])
      /\ IsFoldable(c.op) => Leq(values[i], folded_value(f, i, values))
      /\ plain /\ HasResult(f, i) => values[i] = Bot

\* What the analysis has found is a solution of its equations over f.
Solved(f) ==
  /\ values \in [Instrs(f) -> Lattice]
  /\ f.entry \in executable_blocks
  /\ executable_blocks \subseteq Blocks(f)
  /\ executable_edges \subseteq Blocks(f) \X executable_blocks
  /\ \A b \in executable_blocks :
       /\ \A k \in DOMAIN Ins(f, b) : SettledIn(f, Ins(f, b)[k])
       /\ ~HasTerminator(f, b) /\ Succ(f, b) # <<>> =>
            <<b, Head(Succ(f, b))>> \in executable_edges

\* What a name holds, if it holds anything, agrees with its element.
EnvAgrees(env) == \A v \in Instrs(source) : env[v] # Undefined => Agrees(env[v], values[v])

\* The machine stands in an executable block, came along an executable edge
\* and holds what the elements allow.
RunAgrees(m) ==
  /\ Machine(source, m)
  /\ m.block \in executable_blocks
  /\ m.pos \in 1 .. Len(Ins(source, m.block)) + 1
  /\ HasTerminator(source, m.block) => m.pos <= Len(Ins(source, m.block))
  /\ EnvAgrees(m.env) /\ EnvAgrees(m.at_entry)
  /\ \/ <<m.prev, m.block>> \in executable_edges
     \/ \A v \in Instrs(source) : m.at_entry[v] = Undefined

-----------------------------------------------------------------------------
\* The equations.

\* In a function that the pass was given, an instruction of an executable
\* block is settled.
LEMMA SolvedFacts ==
  ASSUME source \in Functions, Solved(source), NEW b \in executable_blocks,
         NEW k \in DOMAIN Ins(source, b)
  PROVE  LET i == Ins(source, b)[k]
             c == source.code[i]
         IN  /\ i \in Instrs(source) /\ c.parent = b
             /\ SettledIn(source, i) /\ MatchesOpcode(c) /\ c.op \in Ops
             /\ c.args \in Seq(Instrs(source))
             /\ DOMAIN c.inc \subseteq Blocks(source)
             /\ \A p \in DOMAIN c.inc : c.inc[p] \in Instrs(source)
             /\ IsTerminator(c.op) <=> k = Len(Ins(source, b)) /\ HasTerminator(source, b)
<1>1. b \in Blocks(source) /\ Ins(source, b) \in Seq(Instrs(source))
  BY SsaFacts DEF Solved
<1>2. Ins(source, b)[k] \in Instrs(source)
  BY <1>1
<1>3. BranchesResolved(source) /\ IsCode(source, Ins(source, b)[k])
      /\ MatchesOpcode(source.code[Ins(source, b)[k]])
  BY <1>2, SsaFacts
<1> QED
  BY <1>1, <1>2, <1>3 DEF Solved, BranchesResolved, IsCode, Range

-----------------------------------------------------------------------------
\* Elements and words.

\* A word that agrees with an element agrees with every lower one.
LEMMA AgreesDown ==
  ASSUME NEW w, NEW d, NEW e, Agrees(w, e), Leq(d, e)
  PROVE  Agrees(w, d)
BY DEF Agrees, Leq, IsConstant, Top, Bot

\* An element that is no constant agrees with nothing or with everything.
LEMMA AgreesNonConstant ==
  ASSUME NEW w, NEW e, Agrees(w, e)
  PROVE  IF IsConstant(e) THEN e.value = w ELSE e = Bot
BY DEF Agrees, IsConstant, Bot

\* A pure operation computes what folding its operands' elements gives.
LEMMA ComputeAgrees ==
  ASSUME source \in Functions, NEW i \in Instrs(source), IsFoldable(source.code[i].op),
         NEW env, EnvAgrees(env),
         \A v \in Range(source.code[i].args) : env[v] # Undefined,
         NEW a, a = env[source.code[i].args[1]], NEW b, b = env[source.code[i].args[2]],
         Compute(source.code[i], a, b) # None
  PROVE  Agrees(Compute(source.code[i], a, b), folded_value(source, i, values))
<1> DEFINE c == source.code[i]
           lhs == values[c.args[1]]
           rhs == values[c.args[2]]
           w == Compute(c, a, b)
<1>1. MatchesOpcode(c) /\ c.args \in Seq(Instrs(source))
  BY SsaFacts DEF IsCode
<1>2. \A n \in DOMAIN c.args : Agrees(env[c.args[n]], values[c.args[n]])
  BY <1>1 DEF EnvAgrees, Range
<1>3. CASE c.op \in {"iconst", "bconst"}
  <2>1. c.op = "iconst" => w = normalize(c.k, c.ty)
    BY ComputeFacts
  <2>2. c.op = "bconst" => w = c.k
    BY ComputeFacts
  <2> DEFINE e == folded_value(source, i, values)
  <2>3. /\ c.op = "iconst" => e = Icons(normalize(c.k, c.ty))
        /\ c.op = "bconst" => e = Bcons(c.k)
    BY DEF folded_value
  <2> HIDE DEF e, w
  <2>4. Agrees(w, e)
    BY <1>3, <2>1, <2>2, <2>3 DEF Agrees, IsConstant, Icons, Bcons
  <2> QED
    BY <2>4 DEF e, w
<1>4. CASE c.op \in {"neg", "lnot"}
  <2>1. Agrees(a, lhs)
    BY <1>1, <1>2, <1>4 DEF MatchesOpcode
  <2>2. w = IF c.op = "neg" THEN eval_neg(c.ty, a) ELSE 1 - a
    BY <1>4, ComputeFacts
  <2>3. folded_value(source, i, values) =
          IF ~ IsConstant(lhs) THEN lhs
          ELSE IF c.op = "neg" THEN Icons(eval_neg(c.ty, lhs.value)) ELSE Bcons(1 - lhs.value)
    BY <1>4 DEF folded_value
  <2>4. CASE IsConstant(lhs)
    <3> HIDE DEF lhs
    <3>1. lhs.value = a
      BY <2>1, <2>4, AgreesNonConstant
    <3>2. folded_value(source, i, values) = IF c.op = "neg" THEN Icons(w) ELSE Bcons(w)
      BY <2>2, <2>3, <2>4, <3>1
    <3>3. Agrees(w, Icons(w)) /\ Agrees(w, Bcons(w))
      BY DEF Agrees, IsConstant, Icons, Bcons
    <3> QED
      BY <3>2, <3>3
  <2>5. CASE ~ IsConstant(lhs)
    <3> HIDE DEF lhs, w
    <3>1. lhs = Bot
      BY <2>1, <2>5, AgreesNonConstant
    <3>2. \A v : Agrees(v, Bot)
      BY DEF Agrees, Bot, IsConstant
    <3> QED
      BY <2>3, <2>5, <3>1, <3>2
  <2> QED
    BY <2>4, <2>5
<1>5. CASE c.op \in Arithmetic \cup Comparisons
  <2>1. Agrees(a, lhs) /\ Agrees(b, rhs)
    BY <1>1, <1>2, <1>5 DEF MatchesOpcode
  <2>2. c.op \notin {"iconst", "bconst", "neg", "lnot"}
    BY <1>5 DEF Arithmetic, Comparisons
  <2>3. w = IF c.op \in Comparisons THEN (IF eval_cmp(c.op, a, b) THEN 1 ELSE 0)
            ELSE eval_arith(c.op, c.ty, a, b)
    BY <1>5, ComputeFacts
  <2>4. folded_value(source, i, values) =
          IF ~ IsConstant(lhs) THEN lhs
          ELSE IF ~ IsConstant(rhs) THEN rhs
          ELSE IF c.op \in Comparisons THEN Compared(c.op, lhs.value, rhs.value)
          ELSE IF eval_arith(c.op, c.ty, lhs.value, rhs.value) = None THEN Bot
          ELSE Icons(eval_arith(c.op, c.ty, lhs.value, rhs.value))
    BY <2>2 DEF folded_value, is_comparison
  <2>5. CASE ~ IsConstant(lhs) \/ ~ IsConstant(rhs)
    <3> HIDE DEF lhs, rhs, w
    <3>1. (~ IsConstant(lhs) => lhs = Bot) /\ (~ IsConstant(rhs) => rhs = Bot)
      BY <2>1, AgreesNonConstant
    <3>2. folded_value(source, i, values) = Bot
      BY <2>4, <2>5, <3>1
    <3>3. Agrees(w, Bot)
      BY DEF Agrees
    <3> QED
      BY <3>2, <3>3 DEF w
  <2>6. CASE IsConstant(lhs) /\ IsConstant(rhs)
    <3> HIDE DEF lhs, rhs
    <3>1. lhs.value = a /\ rhs.value = b
      BY <2>1, <2>6, AgreesNonConstant
    <3>2. CASE c.op \in Comparisons
      <4>1. folded_value(source, i, values) = Bcons(w)
        BY <2>3, <2>4, <2>6, <3>1, <3>2 DEF Compared, ToBool
      <4> QED
        BY <4>1 DEF Agrees, IsConstant, Bcons
    <3>3. CASE c.op \notin Comparisons
      <4>1. folded_value(source, i, values) = Icons(w)
        BY <2>3, <2>4, <2>6, <3>1, <3>3
      <4> QED
        BY <4>1 DEF Agrees, IsConstant, Icons
    <3> QED
      BY <3>2, <3>3
  <2> QED
    BY <2>5, <2>6
<1> QED
  BY <1>3, <1>4, <1>5 DEF IsFoldable

-----------------------------------------------------------------------------
\* The run of the function the pass was given.

\* The instruction that a run comes to.
LEMMA HereFacts ==
  ASSUME source \in Functions, Solved(source), NEW m, RunAgrees(m),
         m.pos <= Len(Ins(source, m.block))
  PROVE  LET i == Here(source, m)
             c == source.code[i]
         IN  /\ i = Ins(source, m.block)[m.pos] /\ m.pos \in DOMAIN Ins(source, m.block)
             /\ i \in Instrs(source) /\ c.parent = m.block
             /\ SettledIn(source, i) /\ MatchesOpcode(c) /\ c.op \in Ops
             /\ c.args \in Seq(Instrs(source))
             /\ \A p \in DOMAIN c.inc : c.inc[p] \in Instrs(source)
             /\ IsTerminator(c.op) <=> /\ m.pos = Len(Ins(source, m.block))
                                       /\ HasTerminator(source, m.block)
<1>1. Ins(source, m.block) \in Seq(Instrs(source))
  BY SsaFacts DEF Solved, RunAgrees
<1>2. m.pos \in DOMAIN Ins(source, m.block) /\ m.block \in executable_blocks
  BY <1>1 DEF RunAgrees
<1> QED
  BY <1>2, SolvedFacts DEF Here

\* What a phi or a pure operation binds agrees with the element it has.
LEMMA BoundAgrees ==
  ASSUME source \in Functions, Solved(source), NEW m, RunAgrees(m),
         m.pos <= Len(Ins(source, m.block)),
         OperandsDefined(source, m) \/ IsPhi(source, Here(source, m)),
         LET op == source.code[Here(source, m)].op IN op = "phi" \/ IsFoldable(op),
         NEW reply, NEW n, n = Execute(source, m, reply)
  PROVE  \/ n = Stop(m, "stuck") \/ n = Stop(m, "trap")
         \/ \E w : /\ n = Bind(source, m, w)
                   /\ w # Undefined => Agrees(w, values[Here(source, m)])
<1> DEFINE i == Here(source, m)
           c == source.code[i]
<1>1. /\ i \in Instrs(source) /\ c.parent = m.block
      /\ SettledIn(source, i) /\ MatchesOpcode(c)
      /\ c.args \in Seq(Instrs(source))
      /\ \A p \in DOMAIN c.inc : c.inc[p] \in Instrs(source)
  BY HereFacts
<1>2. CASE c.op = "phi"
  <2> DEFINE v == c.inc[m.prev]
             w == m.at_entry[v]
  <2>1. CASE m.prev \in DOMAIN c.inc
    <3>1. n = Bind(source, m, w)
      BY <1>2, <2>1, ExecuteFacts
    <3>2. ASSUME w # Undefined PROVE Agrees(w, values[i])
      <4>1. v \in Instrs(source) /\ Agrees(w, values[v])
        BY <1>1, <2>1, <3>2 DEF RunAgrees, EnvAgrees
      <4>2. <<m.prev, c.parent>> \in executable_edges
        BY <1>1, <3>2, <4>1 DEF RunAgrees
      <4>3. v \in LiveIncoming(source, i, executable_edges)
        BY <2>1, <4>2 DEF LiveIncoming
      <4>4. Leq(values[i], values[v])
        BY <1>1, <1>2, <4>3 DEF SettledIn
      <4> QED
        BY <4>1, <4>4, AgreesDown
    <3> QED
      BY <3>1, <3>2
  <2>2. CASE m.prev \notin DOMAIN c.inc
    BY <1>2, <2>2, ExecuteFacts
  <2> QED
    BY <2>1, <2>2
<1>3. CASE IsFoldable(c.op)
  <2> DEFINE a == Operand(source, m, 1)
             b == Operand(source, m, 2)
             w == Compute(c, a, b)
  <2>1. n = IF w = None THEN Stop(m, "trap") ELSE Bind(source, m, w)
    BY <1>3, ExecuteFacts
  <2>2. ASSUME w # None PROVE Agrees(w, values[i])
    <3>1. OperandsDefined(source, m)
      BY <1>3, OpKinds DEF IsPhi
    <3>2. \A v \in Range(c.args) : m.env[v] # Undefined
      BY <3>1 DEF OperandsDefined
    <3>3. a = m.env[c.args[1]] /\ b = m.env[c.args[2]]
      BY DEF Operand
    <3>4. Agrees(w, folded_value(source, i, values))
      BY <1>1, <1>3, <2>2, <3>2, <3>3, ComputeAgrees DEF RunAgrees
    <3>5. Leq(values[i], folded_value(source, i, values))
      BY <1>1, <1>3 DEF SettledIn
    <3> QED
      BY <3>4, <3>5, AgreesDown
  <2> QED
    BY <2>1, <2>2
<1> QED
  BY <1>2, <1>3

LEMMA FirstOf ==
  ASSUME NEW S, NEW t \in Seq(S), Len(t) = 1
  PROVE  t[1] \in S /\ 1 \in DOMAIN t
OBVIOUS

\* A conditional branch finds the bool that its condition's element allows.
LEMMA CondAgrees ==
  ASSUME source \in Functions, Solved(source), NEW m, RunAgrees(m),
         m.pos <= Len(Ins(source, m.block)), OperandsDefined(source, m),
         source.code[Here(source, m)].op = "cond_br"
  PROVE  LET cond == values[source.code[Here(source, m)].args[1]]
             w == Operand(source, m, 1)
             s == Succ(source, m.block)
         IN  /\ IsConstant(cond) => cond.value = w /\ cond.value \in {0, 1}
             /\ <<m.block, IF w = 1 THEN Head(s) ELSE s[Len(s)]>> \in executable_edges
<1> DEFINE i == Here(source, m)
           c == source.code[i]
           cond == values[c.args[1]]
           w == Operand(source, m, 1)
           s == Succ(source, m.block)
<1>1. /\ i \in Instrs(source) /\ c.parent = m.block
      /\ SettledIn(source, i) /\ MatchesOpcode(c)
      /\ c.args \in Seq(Instrs(source))
  BY HereFacts
<1>2. c.args[1] \in Instrs(source) /\ 1 \in DOMAIN c.args
  <2>1. Len(c.args) = 1
    BY <1>1 DEF MatchesOpcode
  <2> QED
    BY <1>1, <2>1, FirstOf
<1>3. w = m.env[c.args[1]] /\ w # Undefined
  BY <1>2 DEF Operand, OperandsDefined, Range
<1>4. Agrees(w, cond)
  BY <1>2, <1>3 DEF RunAgrees, EnvAgrees
<1>5. /\ cond.kind # "icons"
      /\ TakenTrue(cond) => <<m.block, Head(s)>> \in executable_edges
      /\ TakenFalse(cond) => <<m.block, s[Len(s)]>> \in executable_edges
  BY <1>1 DEF SettledIn
<1>6. cond \in Lattice
  BY <1>2 DEF Solved
<1> HIDE DEF cond, w, s
<1>7. ASSUME IsConstant(cond) PROVE cond.value = w /\ cond.value \in {0, 1}
  <2>1. cond.value = w
    BY <1>4, <1>7, AgreesNonConstant
  <2>2. cond.value \in {0, 1}
    BY <1>5, <1>6, <1>7, LatticeFacts DEF IsConstant
  <2> QED
    BY <2>1, <2>2
<1>8. (w = 1 => TakenTrue(cond)) /\ (w # 1 => TakenFalse(cond))
  BY <1>7 DEF TakenTrue, TakenFalse
<1>9. <<m.block, IF w = 1 THEN Head(s) ELSE s[Len(s)]>> \in executable_edges
  BY <1>5, <1>8
<1> QED
  BY <1>7, <1>9 DEF cond, w, s

\* The run stops where it is.
LEMMA HaltKeeps ==
  ASSUME NEW m, RunAgrees(m), NEW n, Machine(source, n), Halted(m, n)
  PROVE  RunAgrees(n)
BY DEF RunAgrees, EnvAgrees, Halted, SamePlace

\* It goes on to the next instruction; what a name now holds agrees with its
\* element.
LEMMA AdvanceKeeps ==
  ASSUME source \in Functions, Solved(source), NEW m, RunAgrees(m),
         m.pos <= Len(Ins(source, m.block)),
         ~ IsTerminator(source.code[Here(source, m)].op),
         NEW n, Machine(source, n), Advanced(m, n),
         \/ n.env = m.env
         \/ \E w : /\ Rebound(n.env, m.env, Here(source, m), w)
                   /\ w # Undefined => Agrees(w, values[Here(source, m)])
  PROVE  RunAgrees(n)
<1>1. /\ Here(source, m) \in Instrs(source)
      /\ HasTerminator(source, m.block) => m.pos # Len(Ins(source, m.block))
  BY HereFacts
<1>2. Len(Ins(source, m.block)) \in Nat
  BY SsaFacts DEF Solved, RunAgrees
<1>3. n.pos \in 1 .. Len(Ins(source, m.block)) + 1
      /\ HasTerminator(source, m.block) => n.pos <= Len(Ins(source, m.block))
  BY <1>1, <1>2 DEF RunAgrees, Advanced
<1>4. EnvAgrees(n.env)
  <2>1. CASE n.env = m.env
    BY <2>1 DEF RunAgrees
  <2>2. CASE n.env # m.env
    <3>1. PICK w : /\ Rebound(n.env, m.env, Here(source, m), w)
                   /\ w # Undefined => Agrees(w, values[Here(source, m)])
      BY <2>2
    <3> DEFINE i == Here(source, m)
    <3> HIDE DEF i
    <3>2. n.env = [m.env EXCEPT ![i] = w] /\ DOMAIN m.env = Instrs(source)
          /\ i \in Instrs(source)
      BY <1>1, <3>1 DEF Rebound, RunAgrees, Machine, i
    <3>3. \A v \in Instrs(source) : n.env[v] = IF v = i THEN w ELSE m.env[v]
      BY <3>2
    <3> QED
      BY <3>1, <3>3 DEF RunAgrees, EnvAgrees, i
  <2> QED
    BY <2>1, <2>2
<1> QED
  BY <1>3, <1>4 DEF RunAgrees, EnvAgrees, Advanced, SamePlace

\* Control enters a block along an executable edge.
LEMMA GotoKeeps ==
  ASSUME source \in Functions, Solved(source), NEW m, RunAgrees(m), NEW b,
         <<m.block, b>> \in executable_edges
  PROVE  RunAgrees(Goto(m, b))
<1> DEFINE n == Goto(m, b)
<1>0. Machine(source, m)
  BY DEF RunAgrees
<1>1. CASE m.entered = MaxBlocks
  BY <1>0, <1>1, GotoFacts, HaltKeeps
<1>2. CASE m.entered # MaxBlocks
  <2>1. /\ Machine(source, n) /\ n.env = m.env /\ n.at_entry = m.env
        /\ n.prev = m.block /\ n.block = b /\ n.pos = 1
    BY <1>0, <1>2, GotoFacts
  <2>2. b \in executable_blocks
    BY DEF Solved
  <2>3. Ins(source, b) \in Seq(Instrs(source))
    BY <2>2, SsaFacts DEF Solved
  <2>4. HasTerminator(source, b) => 1 <= Len(Ins(source, b))
    BY <2>3 DEF HasTerminator
  <2> HIDE DEF n
  <2> QED
    BY <2>1, <2>2, <2>3, <2>4 DEF RunAgrees, EnvAgrees, n
<1> QED
  BY <1>1, <1>2

LEMMA ExecuteKeeps ==
  ASSUME source \in Functions, Solved(source), NEW m, RunAgrees(m),
         m.pos <= Len(Ins(source, m.block)),
         OperandsDefined(source, m) \/ IsPhi(source, Here(source, m)),
         NEW reply, NEW n, n = Execute(source, m, reply)
  PROVE  RunAgrees(n)
<1> DEFINE i == Here(source, m)
           c == source.code[i]
           x == Operand(source, m, 1)
           y == Operand(source, m, 2)
<1>1. /\ Machine(source, m)
      /\ i \in Instrs(source) /\ c.parent = m.block
      /\ SettledIn(source, i) /\ MatchesOpcode(c) /\ c.op \in Ops
  BY HereFacts DEF RunAgrees
<1>2. ASSUME NEW s, n = Stop(m, s) PROVE RunAgrees(n)
  BY <1>1, <1>2, StopFacts, HaltKeeps
<1>3. ASSUME ~ IsTerminator(c.op), NEW w, w # Undefined => Agrees(w, values[i]),
             n = Bind(source, m, w)
      PROVE  RunAgrees(n)
  <2>1. Machine(source, n) /\ Advanced(m, n) /\ Rebound(n.env, m.env, i, w)
    BY <1>1, <1>3, BindFacts
  <2> QED
    BY <1>3, <2>1, AdvanceKeeps
<1>4. CASE c.op = "phi" \/ IsFoldable(c.op)
  <2>1. ~ IsTerminator(c.op)
    BY <1>4, OpKinds DEF IsTerminator, IsFoldable, Arithmetic, Comparisons
  <2>2. \/ n = Stop(m, "stuck") \/ n = Stop(m, "trap")
        \/ \E w : /\ n = Bind(source, m, w)
                  /\ w # Undefined => Agrees(w, values[i])
    BY <1>4, BoundAgrees
  <2> QED
    BY <1>2, <1>3, <2>1, <2>2
<1>5. CASE c.op \in {"param", "alloca", "load", "call"}
  <2>1. ~ IsTerminator(c.op) /\ c.op \notin {"br", "cond_br", "phi"} /\ ~ IsFoldable(c.op)
    BY <1>5 DEF IsTerminator, IsFoldable, Arithmetic, Comparisons
  <2>2. HasResult(source, i)
    BY <1>1, <1>5 DEF MatchesOpcode, HasResult
  <2>3. values[i] = Bot
    BY <1>1, <2>1, <2>2 DEF SettledIn
  <2>4. \A w : Agrees(w, values[i])
    BY <2>3 DEF Agrees
  <2>5. ASSUME NEW w, Machine(source, n), Advanced(m, n), Rebound(n.env, m.env, i, w)
        PROVE  RunAgrees(n)
    BY <2>1, <2>4, <2>5, AdvanceKeeps
  <2>6. CASE c.op \in {"param", "alloca"}
    <3>1. PICK v : n = Allot(source, m, v)
      BY <2>6, ExecuteFacts
    <3>2. Machine(source, n) /\ Advanced(m, n) /\ Rebound(n.env, m.env, i, i)
      BY <1>1, <3>1, AllotFacts
    <3> QED
      BY <2>5, <3>2
  <2>7. CASE c.op = "load"
    <3>1. n = IF m.cell[x] = Undefined THEN Stop(m, "trap") ELSE Bind(source, m, m.cell[x])
      BY <2>7, ExecuteFacts
    <3> QED
      BY <1>2, <1>3, <2>1, <2>4, <3>1
  <2>8. CASE c.op = "call"
    <3>1. n = Call(source, m, reply)
      BY <2>8, ExecuteFacts
    <3>2. Machine(source, n) /\ Advanced(m, n) /\ Rebound(n.env, m.env, i, reply)
      BY <1>1, <3>1, CallFacts
    <3> QED
      BY <2>5, <3>2
  <2> QED
    BY <1>5, <2>6, <2>7, <2>8
<1>6. CASE c.op = "store"
  <2>1. n = Store(m, x, y) /\ ~ IsTerminator(c.op)
    BY <1>6, ExecuteFacts DEF IsTerminator
  <2>2. Machine(source, n) /\ Advanced(m, n) /\ n.env = m.env
    BY <1>1, <2>1, StoreFacts
  <2> QED
    BY <2>1, <2>2, AdvanceKeeps
<1>7. CASE c.op = "ret"
  <2>1. PICK w : n = Returned(m, w)
    BY <1>7, ExecuteFacts
  <2> QED
    BY <1>1, <2>1, ReturnedFacts, HaltKeeps
<1>8. CASE c.op = "br"
  <2>1. n = Goto(m, Head(Succ(source, m.block)))
    BY <1>8, ExecuteFacts
  <2>2. <<m.block, Head(Succ(source, m.block))>> \in executable_edges
    BY <1>1, <1>8 DEF SettledIn
  <2> QED
    BY <2>1, <2>2, GotoKeeps
<1>9. CASE c.op = "cond_br"
  <2> DEFINE s == Succ(source, m.block)
             b == IF x = 1 THEN Head(s) ELSE s[Len(s)]
  <2>1. n = Goto(m, b)
    BY <1>9, ExecuteFacts
  <2>2. OperandsDefined(source, m)
    BY <1>9 DEF IsPhi
  <2>3. <<m.block, b>> \in executable_edges
    BY <1>9, <2>2, CondAgrees
  <2> QED
    BY <2>1, <2>3, GotoKeeps
<1> QED
  BY <1>1, <1>4, <1>5, <1>6, <1>7, <1>8, <1>9 DEF Ops, IsFoldable

\* A step of the run of the source.
LEMMA StepKeeps ==
  ASSUME source \in Functions, Solved(source), NEW m, RunAgrees(m),
         NEW n \in Steps(source, m)
  PROVE  RunAgrees(n)
<1>0. Machine(source, m)
  BY DEF RunAgrees
<1>1. CASE n = Stop(m, "stuck")
  BY <1>0, <1>1, StopFacts, HaltKeeps
<1>2. CASE ~(m.pos <= Len(Ins(source, m.block))) /\ n = StepOver(source, m)
  <2> DEFINE b == m.block
             s == Succ(source, b)
  <2>1. ~ HasTerminator(source, b) /\ b \in executable_blocks
    BY <1>2 DEF RunAgrees
  <2>2. n = IF s = <<>> THEN Stop(m, "stuck") ELSE Goto(m, Head(s))
    BY <1>2 DEF StepOver
  <2>3. CASE s # <<>>
    <3>1. <<b, Head(s)>> \in executable_edges
      BY <2>1, <2>3 DEF Solved
    <3> QED
      BY <2>2, <2>3, <3>1, GotoKeeps
  <2> QED
    BY <1>1, <2>2, <2>3
<1>3. CASE /\ m.pos <= Len(Ins(source, m.block))
           /\ OperandsDefined(source, m) \/ IsPhi(source, Here(source, m))
           /\ \E reply : n = Execute(source, m, reply)
  <2>1. PICK reply : n = Execute(source, m, reply)
    BY <1>3
  <2> QED
    BY <1>3, <2>1, ExecuteKeeps
<1> QED
  BY <1>1, <1>2, <1>3, StepCases


LEMMA StartAgrees ==
  ASSUME source \in Functions, Solved(source), NEW a
  PROVE  RunAgrees(Start(source, a))
<1> DEFINE m == Start(source, a)
<1>1. /\ Machine(source, m) /\ m.block = source.entry /\ m.pos = 1
      /\ \A v \in Instrs(source) : m.env[v] = Undefined /\ m.at_entry[v] = Undefined
  BY StartOfRun
<1>2. source.entry \in executable_blocks
  BY DEF Solved
<1>3. Ins(source, source.entry) \in Seq(Instrs(source))
  BY SsaFacts
<1>4. HasTerminator(source, source.entry) => 1 <= Len(Ins(source, source.entry))
  BY <1>3 DEF HasTerminator
<1> HIDE DEF m
<1> QED
  BY <1>1, <1>2, <1>3, <1>4 DEF RunAgrees, EnvAgrees, m


-----------------------------------------------------------------------------
\* The constants found are of the type of the value, and normalised to it:
\* a constant that transform() writes down is the one that is read back.

FitsType(e, ty) == e.kind = "icons" => normalize(e.value, ty) = e.value
Fits(f) == WellTyped(f) => \A i \in Instrs(f) : FitsType(values[i], f.code[i].ty)
Resulting(f) == \A i \in Instrs(f) : IsConstant(values[i]) => HasResult(f, i)

LEMMA NonIntegersFit ==
  /\ \A e, ty : ~ IsConstant(e) => FitsType(e, ty)
  /\ \A n, ty : FitsType(Bcons(n), ty)
  /\ \A ty : FitsType(Top, ty) /\ FitsType(Bot, ty)
BY DEF FitsType, IsConstant, Bcons, Top, Bot

LEMMA FoldedFits ==
  ASSUME fn \in Functions, values \in [Instrs(fn) -> Lattice], WellTyped(fn), KindsMatch, Fits(fn),
         NEW i \in Instrs(fn), IsFoldable(fn.code[i].op)
  PROVE  FitsType(folded_value(fn, i, values), fn.code[i].ty)
<1> DEFINE c == fn.code[i]
           lhs == values[c.args[1]]
           rhs == values[c.args[2]]
           folded == folded_value(fn, i, values)
<1>1. /\ MatchesOpcode(c) /\ c.args \in Seq(Instrs(fn))
      /\ c.ty.bits \in 0 .. WordBits
  BY SsaFacts DEF IsCode, IsType
<1>2. is_integer_ty(c.ty) => c.ty.bits \in 1 .. WordBits
  BY <1>1, WordBitsAssumption DEF MatchesOpcode
<1>3. ASSUME NEW n, n = normalize(n, c.ty) PROVE FitsType(Icons(n), c.ty)
  BY <1>3 DEF FitsType, Icons
<1>4. ~ FoldAsserts(fn, i, values)
  BY NoAssertFails DEF VisitAsserts
<1>5. CASE c.op \in {"iconst", "bconst"}
  <2>1. /\ c.op = "iconst" => folded = Icons(normalize(c.k, c.ty))
        /\ c.op = "bconst" => folded = Bcons(c.k)
    BY DEF folded_value
  <2>2. CASE c.op = "iconst"
    <3>1. c.k \in Word /\ c.ty.bits \in 1 .. WordBits
      BY <1>1, <1>2, <2>2 DEF MatchesOpcode
    <3> QED
      BY <1>3, <2>1, <2>2, <3>1, NormalizeTwice
  <2> QED
    BY <1>5, <2>1, <2>2, NonIntegersFit
<1>6. CASE c.op \in {"neg", "lnot"}
  <2>1. lhs \in Lattice
    BY <1>1, <1>6 DEF MatchesOpcode
  <2>2. folded = IF ~ IsConstant(lhs) THEN lhs
                 ELSE IF c.op = "neg" THEN Icons(eval_neg(c.ty, lhs.value))
                 ELSE Bcons(1 - lhs.value)
    BY <1>6 DEF folded_value
  <2>3. CASE c.op = "neg" /\ IsConstant(lhs)
    <3>1. lhs.kind = "icons" /\ is_integer_ty(c.ty)
      BY <1>4, <2>3 DEF FoldAsserts
    <3>2. lhs.value \in Word
      BY <2>1, <3>1, LatticeFacts
    <3>3. normalize(eval_neg(c.ty, lhs.value), c.ty) = eval_neg(c.ty, lhs.value)
      BY <1>2, <3>1, <3>2, NegationIsNormal
    <3> QED
      BY <1>3, <2>2, <2>3, <3>3
  <2> HIDE DEF folded, lhs
  <2>4. ~ (c.op = "neg" /\ IsConstant(lhs)) => FitsType(folded, c.ty)
    BY <2>2, NonIntegersFit
  <2> QED
    BY <2>3, <2>4 DEF folded
<1>7. CASE c.op \in Arithmetic \cup Comparisons
  <2>1. lhs \in Lattice /\ c.args[1] \in Instrs(fn) /\ rhs \in Lattice
    BY <1>1, <1>7 DEF MatchesOpcode
  <2>2. c.op \notin {"iconst", "bconst", "neg", "lnot"}
    BY <1>7 DEF Arithmetic, Comparisons
  <2> DEFINE n == eval_arith(c.op, c.ty, lhs.value, rhs.value)
  <2>3. \/ folded = lhs /\ ~ IsConstant(lhs)
        \/ folded = rhs /\ ~ IsConstant(rhs)
        \/ folded = Compared(c.op, lhs.value, rhs.value)
        \/ folded = Bot
        \/ /\ c.op \in Arithmetic /\ IsConstant(lhs) /\ IsConstant(rhs)
           /\ folded = Icons(n) /\ n # None
    BY <1>7, <2>2 DEF folded_value, is_comparison
  <2>4. CASE /\ c.op \in Arithmetic /\ IsConstant(lhs) /\ IsConstant(rhs)
             /\ folded = Icons(n) /\ n # None
    <3>0. /\ is_integer_ty(c.ty) /\ FitsSignedness(c.op, c.ty)
          /\ fn.code[c.args[1]].ty = c.ty
      BY <2>4 DEF WellTyped
    <3>1. lhs.kind = "icons" /\ rhs.kind = "icons"
      BY <1>4, <2>2, <2>4 DEF FoldAsserts
    <3>2. lhs.value \in Word /\ rhs.value \in Word /\ c.ty.bits \in 1 .. WordBits
      BY <1>2, <2>1, <3>0, <3>1, LatticeFacts
    <3>4. normalize(lhs.value, c.ty) = lhs.value
      BY <2>1, <3>0, <3>1 DEF Fits, FitsType
    <3>5. c.op = "shr" => ~ is_signed_integer_ty(c.ty)
      BY <3>0 DEF FitsSignedness, is_signed_integer_ty, is_unsigned_integer_ty
    <3>6. ~ NotFolded(c.op, c.ty, lhs.value, rhs.value)
      BY <2>4 DEF eval_arith
    <3>7. normalize(n, c.ty) = n
      BY <2>4, <3>2, <3>4, <3>5, <3>6, FoldIsNormal
    <3> HIDE DEF n
    <3> QED
      BY <1>3, <2>4, <3>7
  <2> HIDE DEF folded, lhs, rhs, n
  <2> QED
    BY <2>3, <2>4, NonIntegersFit DEF folded, Compared
<1> QED
  BY <1>5, <1>6, <1>7 DEF IsFoldable

LEMMA VisitFits ==
  ASSUME fn \in Functions, values \in [Instrs(fn) -> Lattice], KindsMatch, Fits(fn),
         NEW w, WorkOK(w), NEW i \in Instrs(fn), Visit(i, w), fn' = fn
  PROVE  Fits(fn)'
<1>1. /\ \A j \in Instrs(fn) \ {i} : values'[j] = values[j]
      /\ values'[i] \in {values[i], NewElement(i)}
  BY VisitFacts
<1>2. ASSUME WellTyped(fn) PROVE FitsType(NewElement(i), fn.code[i].ty)
  <2> DEFINE c == fn.code[i]
  <2>1. \A j \in Instrs(fn) : FitsType(values[j], fn.code[j].ty)
    BY <1>2 DEF Fits
  <2>2. CASE c.op = "phi"
    <3> DEFINE L == {values[v] : v \in LiveIncoming(fn, i, executable_edges)}
    <3>1. /\ LiveIncoming(fn, i, executable_edges) \subseteq Incoming(fn, i)
          /\ Incoming(fn, i) \subseteq Instrs(fn)
      BY SsaFacts DEF LiveIncoming, Incoming, IsCode, Range
    <3>2. \A v \in Incoming(fn, i) : FitsType(values[v], c.ty)
      BY <1>2, <2>1, <2>2, <3>1 DEF WellTyped
    <3>3. \A e \in L : FitsType(e, c.ty)
      BY <3>1, <3>2
    <3>4. NewElement(i) = MeetAll(values[i], L)
      BY <2>2, OpKinds DEF NewElement
    <3> HIDE DEF L
    <3> QED
      BY <2>1, <3>3, <3>4, MeetAllFacts, NonIntegersFit
  <2>3. CASE IsFoldable(c.op)
    <3> DEFINE folded == folded_value(fn, i, values)
    <3>1. NewElement(i) = Meet(values[i], folded)
      BY <2>3, OpKinds DEF NewElement
    <3>2. FitsType(folded, c.ty)
      BY <1>2, <2>3, FoldedFits
    <3> HIDE DEF folded
    <3> QED
      BY <2>1, <3>1, <3>2, MeetFacts, NonIntegersFit
  <2>4. CASE c.op # "phi" /\ ~ IsFoldable(c.op)
    BY <2>1, <2>4, NonIntegersFit DEF NewElement
  <2> QED
    BY <2>2, <2>3, <2>4
<1> QED
  BY <1>1, <1>2 DEF Fits


-----------------------------------------------------------------------------
\* The run of the function that transform() made.

\* A name that holds something in s holds it in t.
Refines(t, s) == \A v \in Instrs(source) : s[v] # Undefined => t[v] = s[v]

\* Machine y of the new function stands where x of the old one does.
Matches(x, y) ==
  /\ y.status = x.status /\ y.value = x.value
  /\ y.block = x.block /\ y.prev = x.prev /\ y.pos = x.pos /\ y.entered = x.entered
  /\ y.cell = x.cell /\ y.args = x.args /\ y.trace = x.trace
  /\ Refines(y.env, x.env) /\ Refines(y.at_entry, x.at_entry)

\* It may go on where x trapped or had no value to go on with.
Follows(x, y) ==
  Matches(x, y) \/ (x.status \in {"trap", "stuck"} /\ Continues(y.trace, x.trace))

\* g is what transform() makes of the function.
Rewrote(g) ==
  /\ Instrs(g) = Instrs(source) /\ g.entry = source.entry
  /\ \A b \in Blocks(source) : /\ Ins(g, b) = Ins(source, b)
                               /\ Succ(g, b) = TakenSucc(source, values, b)
  /\ \A i \in Instrs(source) : g.code[i] = Rewritten(source, values, i)

LEMMA TransformedRewrote ==
  ASSUME source \in Functions
  PROVE  Rewrote(Transformed(source, values))
<1> DEFINE g == Transformed(source, values)
<1>1. DOMAIN source = {"entry", "order", "block", "code", "users"}
  BY SsaFacts DEF IsFunction
<1>2. g.entry = source.entry
  BY <1>1 DEF Transformed
<1> HIDE DEF g
<1>3. /\ Instrs(g) = Instrs(source)
      /\ \A b \in Blocks(source) : /\ Ins(g, b) = Ins(source, b)
                                   /\ Succ(g, b) = TakenSucc(source, values, b)
      /\ \A i \in Instrs(source) : g.code[i] = Rewritten(source, values, i)
  BY TransformedParts DEF g
<1> QED
  BY <1>2, <1>3 DEF Rewrote, g

\* What becomes of an instruction.
LEMMA RewrittenParts ==
  ASSUME source \in Functions, Resulting(source), NEW i \in Instrs(source)
  PROVE  LET c == source.code[i]
             r == Rewritten(source, values, i)
         IN  /\ BecomesBr(source, values, i) =>
                  /\ c.op = "cond_br" /\ IsConstant(values[c.args[1]])
                  /\ r.op = "br" /\ r.args = <<>>
             /\ BecomesConst(source, values, i) =>
                  /\ ~ BecomesBr(source, values, i)
                  /\ c.op \notin {"br", "cond_br", "ret", "store"} /\ IsConstant(values[i])
                  /\ r.op = IF values[i].kind = "icons" THEN "iconst" ELSE "bconst"
                  /\ r.k = values[i].value /\ r.args = <<>> /\ r.ty = c.ty
             /\ ~BecomesBr(source, values, i) /\ ~BecomesConst(source, values, i) => r = c
<1> DEFINE c == source.code[i]
           r == Rewritten(source, values, i)
<1>1. DOMAIN c = {"op", "ty", "args", "k", "tgt", "inc", "parent"} /\ MatchesOpcode(c)
  BY SsaFacts DEF IsCode
<1>2. CASE BecomesBr(source, values, i)
  <2>1. c.op = "cond_br" /\ IsConstant(values[c.args[1]]) /\ ~BecomesConst(source, values, i)
    BY <1>2 DEF BecomesBr, BecomesConst
  <2>2. r = [c EXCEPT !.op = "br", !.args = <<>>,
                      !.tgt = <<c.tgt[TakenIndex(source, values, i)]>>]
    BY <1>2, <2>1 DEF Rewritten
  <2>3. r.op = "br" /\ r.args = <<>>
    <3> HIDE DEF c
    <3> QED
      BY <1>1, <2>2
  <2> QED
    BY <1>2, <2>1, <2>3
<1>3. CASE BecomesConst(source, values, i)
  <2>1. ~BecomesBr(source, values, i) /\ IsConstant(values[i])
    BY <1>3 DEF BecomesBr, BecomesConst
  <2>2. r = [c EXCEPT !.op = IF values[i].kind = "icons" THEN "iconst" ELSE "bconst",
                      !.k = values[i].value, !.args = <<>>, !.inc = <<>>, !.tgt = <<>>]
    BY <1>3, <2>1 DEF Rewritten
  <2>3. /\ r.op = IF values[i].kind = "icons" THEN "iconst" ELSE "bconst"
        /\ r.k = values[i].value /\ r.args = <<>> /\ r.ty = c.ty
    <3> HIDE DEF c
    <3> QED
      BY <1>1, <2>2
  <2>4. c.op \notin {"br", "cond_br", "ret", "store"}
    BY <1>1, <2>1 DEF Resulting, HasResult, MatchesOpcode
  <2> QED
    BY <1>3, <2>1, <2>3, <2>4
<1>4. CASE ~BecomesBr(source, values, i) /\ ~BecomesConst(source, values, i)
  BY <1>4 DEF Rewritten
<1> QED
  BY <1>2, <1>3, <1>4

\* Steps that keep two machines in the same place.
LEMMA MatchesHalt ==
  ASSUME NEW x, NEW y, Matches(x, y), NEW m, Halted(x, m), NEW n, Halted(y, n),
         n.status = m.status, n.value = m.value
  PROVE  Matches(m, n)
BY DEF Matches, Halted, SamePlace

LEMMA MatchesAdvance ==
  ASSUME NEW x, NEW y, Matches(x, y), NEW m, Advanced(x, m), NEW n, Advanced(y, n),
         n.cell = m.cell, n.trace = m.trace, Refines(n.env, m.env)
  PROVE  Matches(m, n)
BY DEF Matches, Advanced, SamePlace

LEMMA RefinesUpdate ==
  ASSUME NEW t, NEW s, Refines(t, s), DOMAIN t = Instrs(source), DOMAIN s = Instrs(source),
         NEW i, NEW v, NEW w, w # Undefined => v = w,
         NEW u, Rebound(u, t, i, v), NEW r, Rebound(r, s, i, w)
  PROVE  Refines(u, r)
<1>1. u = [t EXCEPT ![i] = v] /\ r = [s EXCEPT ![i] = w]
  BY DEF Rebound
<1>2. \A k \in Instrs(source) : /\ u[k] = IF k = i THEN v ELSE t[k]
                                /\ r[k] = IF k = i THEN w ELSE s[k]
  BY <1>1
<1> QED
  BY <1>2 DEF Refines

LEMMA MatchesStop ==
  ASSUME NEW f, NEW g, NEW x, NEW y, Matches(x, y), Machine(f, x), Machine(g, y), NEW s
  PROVE  Matches(Stop(x, s), Stop(y, s))
<1> DEFINE m == Stop(x, s)
           n == Stop(y, s)
<1>1. Halted(x, m) /\ Halted(y, n) /\ m.status = s /\ n.status = s
      /\ m.value = x.value /\ n.value = y.value
  BY StopFacts
<1>2. x.value = y.value
  BY DEF Matches
<1> HIDE DEF m, n
<1>3. Matches(m, n)
  BY <1>1, <1>2, MatchesHalt
<1> QED
  BY <1>3 DEF m, n

LEMMA MatchesGoto ==
  ASSUME NEW f, NEW g, NEW x, NEW y, Matches(x, y), Machine(f, x), Machine(g, y), NEW b
  PROVE  Matches(Goto(x, b), Goto(y, b))
<1> DEFINE m == Goto(x, b)
           n == Goto(y, b)
<1>1. /\ m.env = x.env /\ m.cell = x.cell /\ m.trace = x.trace
      /\ m.args = x.args /\ m.value = x.value
      /\ x.entered = MaxBlocks => Halted(x, m) /\ m.status = "cut"
      /\ x.entered # MaxBlocks =>
           /\ m.status = x.status /\ m.prev = x.block /\ m.block = b /\ m.pos = 1
           /\ m.entered = x.entered + 1 /\ m.at_entry = x.env
  BY GotoFacts
<1>2. /\ n.env = y.env /\ n.cell = y.cell /\ n.trace = y.trace
      /\ n.args = y.args /\ n.value = y.value
      /\ y.entered = MaxBlocks => Halted(y, n) /\ n.status = "cut"
      /\ y.entered # MaxBlocks =>
           /\ n.status = y.status /\ n.prev = y.block /\ n.block = b /\ n.pos = 1
           /\ n.entered = y.entered + 1 /\ n.at_entry = y.env
  BY GotoFacts
<1>3. y.entered = x.entered
  BY DEF Matches
<1> HIDE DEF m, n
<1>4. CASE x.entered = MaxBlocks
  BY <1>1, <1>2, <1>3, <1>4, MatchesHalt DEF Matches, m, n
<1>5. CASE x.entered # MaxBlocks
  <2>1. Matches(m, n)
    BY <1>1, <1>2, <1>3, <1>5 DEF Matches
  <2> QED
    BY <2>1 DEF m, n
<1> QED
  BY <1>4, <1>5

LEMMA MatchesBind ==
  ASSUME NEW g, Instrs(g) = Instrs(source), NEW x, NEW y, Matches(x, y),
         Machine(source, x), Machine(g, y), Here(g, y) = Here(source, x),
         NEW w, NEW v, w # Undefined => v = w
  PROVE  Matches(Bind(source, x, w), Bind(g, y, v))
<1> DEFINE i == Here(source, x)
           m == Bind(source, x, w)
           n == Bind(g, y, v)
<1>1. /\ Advanced(x, m) /\ m.cell = x.cell /\ m.trace = x.trace
      /\ Rebound(m.env, x.env, i, w)
  BY BindFacts
<1>2. /\ Advanced(y, n) /\ n.cell = y.cell /\ n.trace = y.trace
      /\ Rebound(n.env, y.env, Here(g, y), v)
  BY BindFacts
<1>3. /\ DOMAIN x.env = Instrs(source) /\ DOMAIN y.env = Instrs(source)
      /\ Refines(y.env, x.env) /\ x.cell = y.cell /\ x.trace = y.trace
  BY DEF Machine, Matches
<1> HIDE DEF m, n, i
<1>4. Rebound(n.env, y.env, i, v)
  BY <1>2 DEF i
<1>5. Refines(n.env, m.env)
  BY <1>1, <1>3, <1>4, RefinesUpdate
<1>6. Matches(m, n)
  BY <1>1, <1>2, <1>3, <1>5, MatchesAdvance
<1> QED
  BY <1>6 DEF m, n

\* Both machines come to the same instruction, or both have left the block.
LEMMA SameHere ==
  ASSUME source \in Functions, Solved(source), NEW g, Rewrote(g),
         NEW x, RunAgrees(x), NEW y, Matches(x, y)
  PROVE  /\ Ins(g, y.block) = Ins(source, x.block) /\ Here(g, y) = Here(source, x)
         /\ Succ(g, y.block) = TakenSucc(source, values, x.block)
         /\ x.block \in Blocks(source)
         /\ Len(Ins(source, x.block)) \in Nat /\ x.pos \in Nat
<1>1. x.block \in Blocks(source) /\ y.block = x.block /\ y.pos = x.pos
  BY DEF RunAgrees, Solved, Matches
<1>2. Ins(source, x.block) \in Seq(Instrs(source))
  BY <1>1, SsaFacts
<1> QED
  BY <1>1, <1>2 DEF Rewrote, Here, RunAgrees

\* They read the same operands.
LEMMA SameOperands ==
  ASSUME NEW g, NEW x, NEW y, Matches(x, y), Here(g, y) = Here(source, x),
         g.code[Here(source, x)] = source.code[Here(source, x)],
         source.code[Here(source, x)].args \in Seq(Instrs(source)),
         OperandsDefined(source, x)
  PROVE  /\ OperandsDefined(g, y)
         /\ \A n \in DOMAIN source.code[Here(source, x)].args :
              Operand(g, y, n) = Operand(source, x, n)
<1> DEFINE c == source.code[Here(source, x)]
<1>1. \A n \in DOMAIN c.args : c.args[n] \in Instrs(source) /\ c.args[n] \in Range(c.args)
  BY DEF Range
<1>2. \A v \in Range(c.args) : v \in Instrs(source)
  BY DEF Range
<1>3. \A v \in Range(c.args) : x.env[v] # Undefined /\ y.env[v] = x.env[v]
  BY <1>2 DEF OperandsDefined, Matches, Refines
<1> QED
  BY <1>1, <1>3 DEF OperandsDefined, Operand

\* An instruction that is left as it is does the same in both runs.
LEMMA UnchangedStep ==
  ASSUME source \in Functions, Solved(source), NEW g, Rewrote(g),
         NEW x, RunAgrees(x), NEW y, Matches(x, y), Machine(g, y),
         x.pos <= Len(Ins(source, x.block)),
         g.code[Here(source, x)] = source.code[Here(source, x)],
         IsTerminator(source.code[Here(source, x)].op) =>
           Succ(g, y.block) = Succ(source, x.block),
         OperandsDefined(source, x) \/ IsPhi(source, Here(source, x)),
         NEW r, NEW q, source.code[Here(source, x)].op = "call" => q = r
  PROVE  Matches(Execute(source, x, r), Execute(g, y, q))
<1> DEFINE i == Here(source, x)
           c == source.code[i]
           a == Operand(source, x, 1)
           b == Operand(source, x, 2)
           d == Operand(g, y, 1)
           e == Operand(g, y, 2)
           m == Execute(source, x, r)
           n == Execute(g, y, q)
           s == Succ(source, x.block)
<1>1. /\ Here(g, y) = i /\ Instrs(g) = Instrs(source)
      /\ Machine(source, x) /\ i \in Instrs(source)
      /\ MatchesOpcode(c) /\ c.op \in Ops /\ c.args \in Seq(Instrs(source))
      /\ \A p \in DOMAIN c.inc : c.inc[p] \in Instrs(source)
  BY SameHere, HereFacts DEF RunAgrees, Rewrote
<1>2. ASSUME c.op # "phi"
      PROVE  /\ OperandsDefined(source, x)
             /\ \A k \in DOMAIN c.args : Operand(g, y, k) = Operand(source, x, k)
  <2>1. OperandsDefined(source, x)
    BY <1>2 DEF IsPhi
  <2> QED
    BY <1>1, <2>1, SameOperands
<1>3. /\ y.cell = x.cell /\ y.args = x.args /\ y.trace = x.trace /\ y.prev = x.prev
      /\ Refines(y.at_entry, x.at_entry) /\ Refines(y.env, x.env)
      /\ y.value = x.value /\ y.status = x.status
  BY DEF Matches
<1>4. DOMAIN x.env = Instrs(source) /\ DOMAIN y.env = Instrs(source)
  BY <1>1 DEF Machine
<1>5. CASE c.op = "phi"
  <2>1. CASE x.prev \in DOMAIN c.inc
    <3> DEFINE w == x.at_entry[c.inc[x.prev]]
               v == y.at_entry[c.inc[x.prev]]
    <3>1. m = Bind(source, x, w)
      BY <1>5, <2>1, ExecuteFacts
    <3>2. n = Bind(g, y, v)
      BY <1>1, <1>3, <1>5, <2>1, ExecuteFacts
    <3>3. w # Undefined => v = w
      BY <1>1, <1>3, <2>1 DEF Refines
    <3> HIDE DEF w, v, m, n
    <3>4. Matches(m, n)
      BY <1>1, <3>1, <3>2, <3>3, MatchesBind
    <3> QED
      BY <3>4 DEF m, n
  <2>2. CASE x.prev \notin DOMAIN c.inc
    <3>1. m = Stop(x, "stuck")
      BY <1>5, <2>2, ExecuteFacts
    <3>2. n = Stop(y, "stuck")
      BY <1>1, <1>3, <1>5, <2>2, ExecuteFacts
    <3> QED
      BY <1>1, <3>1, <3>2, MatchesStop
  <2> QED
    BY <2>1, <2>2
<1>6. CASE c.op \in {"param", "alloca"}
  <2> DEFINE w == IF c.op = "param" THEN x.args[c.k] ELSE Undefined
  <2>1. m = Allot(source, x, w)
    BY <1>6, ExecuteFacts
  <2>2. n = Allot(g, y, w)
    BY <1>1, <1>3, <1>6, ExecuteFacts
  <2> HIDE DEF m, n, w, i
  <2>3. /\ Advanced(x, m) /\ m.trace = x.trace
        /\ Rebound(m.cell, x.cell, i, w) /\ Rebound(m.env, x.env, i, i)
    BY <1>1, <2>1, AllotFacts DEF i
  <2>4. /\ Advanced(y, n) /\ n.trace = y.trace
        /\ Rebound(n.cell, y.cell, i, w) /\ Rebound(n.env, y.env, i, i)
    BY <1>1, <2>2, AllotFacts
  <2>5. n.cell = m.cell
    BY <1>3, <2>3, <2>4 DEF Rebound
  <2>6. Refines(n.env, m.env)
    BY <1>3, <1>4, <2>3, <2>4, RefinesUpdate
  <2>7. Matches(m, n)
    BY <1>3, <2>3, <2>4, <2>5, <2>6, MatchesAdvance
  <2> QED
    BY <2>7 DEF m, n
<1>7. CASE c.op = "load"
  <2>1. 1 \in DOMAIN c.args
    BY <1>1, <1>7 DEF MatchesOpcode
  <2>2. d = a
    BY <1>2, <1>7, <2>1
  <2> DEFINE w == x.cell[a]
  <2>3. m = IF w = Undefined THEN Stop(x, "trap") ELSE Bind(source, x, w)
    BY <1>7, ExecuteFacts
  <2>4. n = IF w = Undefined THEN Stop(y, "trap") ELSE Bind(g, y, w)
    BY <1>1, <1>3, <1>7, <2>2, ExecuteFacts
  <2> HIDE DEF w, m, n
  <2>5. Matches(m, n)
    BY <1>1, <2>3, <2>4, MatchesStop, MatchesBind
  <2> QED
    BY <2>5 DEF m, n
<1>8. CASE c.op = "store"
  <2>1. 1 \in DOMAIN c.args /\ 2 \in DOMAIN c.args
    BY <1>1, <1>8 DEF MatchesOpcode
  <2>2. d = a /\ e = b
    BY <1>2, <1>8, <2>1
  <2>3. m = Store(x, a, b)
    BY <1>8, ExecuteFacts
  <2>4. n = Store(y, a, b)
    BY <1>1, <1>8, <2>2, ExecuteFacts
  <2> HIDE DEF m, n, a, b
  <2>5. /\ Advanced(x, m) /\ m.trace = x.trace /\ m.env = x.env
        /\ Rebound(m.cell, x.cell, a, b)
    BY <1>1, <2>3, StoreFacts
  <2>6. /\ Advanced(y, n) /\ n.trace = y.trace /\ n.env = y.env
        /\ Rebound(n.cell, y.cell, a, b)
    BY <2>4, StoreFacts
  <2>7. n.cell = m.cell
    BY <1>3, <2>5, <2>6 DEF Rebound
  <2>8. Matches(m, n)
    BY <1>3, <2>5, <2>6, <2>7, MatchesAdvance
  <2> QED
    BY <2>8 DEF m, n
<1>9. CASE c.op = "call"
  <2>1. m = Call(source, x, r)
    BY <1>9, ExecuteFacts
  <2>2. n = Call(g, y, r)
    BY <1>1, <1>9, ExecuteFacts
  <2>3. CallOf(g, y, r) = CallOf(source, x, r)
    BY <1>1, <1>2, <1>9 DEF CallOf
  <2> DEFINE t == Append(x.trace, CallOf(source, x, r))
  <2> HIDE DEF m, n, i, t
  <2>4. /\ Advanced(x, m) /\ m.cell = x.cell /\ m.trace = t
        /\ Rebound(m.env, x.env, i, r)
    BY <1>1, <2>1, CallFacts DEF i, t
  <2>5. /\ Advanced(y, n) /\ n.cell = y.cell /\ n.trace = t
        /\ Rebound(n.env, y.env, i, r)
    BY <1>1, <1>3, <2>2, <2>3, CallFacts DEF t
  <2>6. Refines(n.env, m.env)
    BY <1>3, <1>4, <2>4, <2>5, RefinesUpdate
  <2>7. Matches(m, n)
    BY <1>3, <2>4, <2>5, <2>6, MatchesAdvance
  <2> QED
    BY <2>7 DEF m, n
<1>10. CASE c.op = "ret"
  <2> DEFINE w == IF c.args = <<>> THEN 0 ELSE a
  <2>1. c.args # <<>> => d = a
    BY <1>1, <1>2, <1>10
  <2>2. m = Returned(x, w)
    BY <1>10, ExecuteFacts
  <2>3. n = Returned(y, w)
    BY <1>1, <1>10, <2>1, ExecuteFacts
  <2> HIDE DEF m, n, w
  <2>4. Halted(x, m) /\ m.status = "ret" /\ m.value = w
    BY <1>1, <2>2, ReturnedFacts
  <2>5. Halted(y, n) /\ n.status = "ret" /\ n.value = w
    BY <2>3, ReturnedFacts
  <2>6. Matches(m, n)
    BY <2>4, <2>5, MatchesHalt
  <2> QED
    BY <2>6 DEF m, n
<1>11. CASE c.op = "br"
  <2>1. m = Goto(x, Head(s))
    BY <1>11, ExecuteFacts
  <2>2. n = Goto(y, Head(s))
    BY <1>1, <1>11, ExecuteFacts DEF IsTerminator
  <2> QED
    BY <1>1, <2>1, <2>2, MatchesGoto
<1>12. CASE c.op = "cond_br"
  <2>1. 1 \in DOMAIN c.args
    BY <1>1, <1>12 DEF MatchesOpcode
  <2>2. d = a
    BY <1>2, <1>12, <2>1
  <2> DEFINE to == IF a = 1 THEN Head(s) ELSE s[Len(s)]
  <2>3. m = Goto(x, to)
    BY <1>12, ExecuteFacts
  <2>4. n = Goto(y, to)
    BY <1>1, <1>12, <2>2, ExecuteFacts DEF IsTerminator
  <2> HIDE DEF to
  <2> QED
    BY <1>1, <2>3, <2>4, MatchesGoto
<1>13. CASE IsFoldable(c.op)
  <2> DEFINE w == Compute(c, a, b)
  <2>1. Compute(c, d, e) = w
    <3>1. CASE c.op \in Arithmetic \cup Comparisons
      <4>1. 1 \in DOMAIN c.args /\ 2 \in DOMAIN c.args
        BY <1>1, <3>1 DEF MatchesOpcode
      <4> QED
        BY <1>2, <1>13, <4>1, OpKinds
    <3>2. CASE c.op \in {"neg", "lnot"}
      <4>1. 1 \in DOMAIN c.args
        BY <1>1, <3>2 DEF MatchesOpcode
      <4>2. d = a
        BY <1>2, <3>2, <4>1
      <4>3. /\ c.op = "neg" => w = eval_neg(c.ty, a) /\ Compute(c, d, e) = eval_neg(c.ty, d)
            /\ c.op = "lnot" => w = 1 - a /\ Compute(c, d, e) = 1 - d
        BY ComputeFacts
      <4> QED
        BY <3>2, <4>2, <4>3
    <3>3. CASE c.op \in {"iconst", "bconst"}
      <4>1. /\ c.op = "iconst" => w = normalize(c.k, c.ty) /\ Compute(c, d, e) = normalize(c.k, c.ty)
            /\ c.op = "bconst" => w = c.k /\ Compute(c, d, e) = c.k
        BY ComputeFacts
      <4> QED
        BY <3>3, <4>1
    <3> QED
      BY <1>13, <3>1, <3>2, <3>3 DEF IsFoldable
  <2>2. m = IF w = None THEN Stop(x, "trap") ELSE Bind(source, x, w)
    BY <1>13, ExecuteFacts
  <2>3. n = IF Compute(c, d, e) = None THEN Stop(y, "trap") ELSE Bind(g, y, Compute(c, d, e))
    BY <1>1, <1>13, ExecuteFacts
  <2>4. n = IF w = None THEN Stop(y, "trap") ELSE Bind(g, y, w)
    BY <2>1, <2>3
  <2> HIDE DEF w, m, n
  <2>5. Matches(m, n)
    BY <1>1, <2>2, <2>4, MatchesStop, MatchesBind
  <2> QED
    BY <2>5 DEF m, n
<1> QED
  BY <1>1, <1>5, <1>6, <1>7, <1>8, <1>9, <1>10, <1>11, <1>12, <1>13 DEF Ops, IsFoldable

\* A branch on a constant goes where the original one goes.
LEMMA BranchStep ==
  ASSUME source \in Functions, Solved(source), Resulting(source), NEW g, Rewrote(g),
         NEW x, RunAgrees(x), NEW y, Matches(x, y), Machine(g, y),
         x.pos <= Len(Ins(source, x.block)),
         BecomesBr(source, values, Here(source, x)), OperandsDefined(source, x),
         NEW r, NEW q
  PROVE  Matches(Execute(source, x, r), Execute(g, y, q))
<1> DEFINE i == Here(source, x)
           c == source.code[i]
           s == Succ(source, x.block)
           t == Succ(g, y.block)
           w == Operand(source, x, 1)
           cond == values[c.args[1]]
           b == Ins(source, x.block)
<1>1. /\ Here(g, y) = i /\ i \in Instrs(source) /\ Machine(source, x)
      /\ c.op = "cond_br" /\ IsConstant(cond)
      /\ g.code[i].op = "br"
  BY SameHere, HereFacts, RewrittenParts DEF RunAgrees, Rewrote
<1>2. HasTerminator(source, x.block) /\ i = b[Len(b)]
  BY <1>1, HereFacts DEF IsTerminator
<1>3. t = <<s[TakenIndex(source, values, i)]>>
  BY <1>2, SameHere DEF TakenSucc
<1>4. cond.value = w /\ w \in {0, 1}
  BY <1>1, CondAgrees
<1>5. Len(s) = 2
  <2>1. x.block \in Blocks(source) /\ x.pos \in DOMAIN b /\ i = b[x.pos]
    BY SameHere, HereFacts
  <2> QED
    <3>1. BranchesResolved(source)
      BY SsaFacts
    <3> QED
      BY <1>1, <2>1, <3>1 DEF BranchesResolved
<1>6. s \in Seq(Blocks(source))
  BY SameHere, SsaFacts
<1>7. Head(t) = IF w = 1 THEN Head(s) ELSE s[Len(s)]
  <2>1. Head(t) = s[TakenIndex(source, values, i)]
    BY <1>3
  <2>2. Head(s) = s[1]
    BY <1>5, <1>6
  <2> QED
    BY <1>4, <1>5, <2>1, <2>2 DEF TakenIndex
<1> DEFINE to == IF w = 1 THEN Head(s) ELSE s[Len(s)]
<1>8. Execute(source, x, r) = Goto(x, to)
  BY <1>1, ExecuteFacts
<1>9. Execute(g, y, q) = Goto(y, to)
  <2>1. PICK j : j = g.code[Here(g, y)]
    OBVIOUS
  <2>2. j.op = "br" => Execute(g, y, q) = Goto(y, Head(Succ(g, y.block)))
    BY <2>1, ExecuteFacts
  <2>3. j.op = "br"
    BY <1>1, <2>1
  <2> QED
    BY <1>7, <2>2, <2>3
<1> HIDE DEF to
<1> QED
  BY <1>1, <1>8, <1>9, MatchesGoto

\* A value found constant becomes the one that the original run computes, if
\* it computes any.
LEMMA ConstantStep ==
  ASSUME source \in Functions, Solved(source), Resulting(source), Fits(source), WellTyped(source),
         NEW g, Rewrote(g),
         NEW x, RunAgrees(x), NEW y, Matches(x, y), Machine(g, y),
         x.pos <= Len(Ins(source, x.block)),
         BecomesConst(source, values, Here(source, x)),
         OperandsDefined(source, x) \/ IsPhi(source, Here(source, x)),
         NEW r, NEW q
  PROVE  LET m == Execute(source, x, r)
         IN  \/ m = Stop(x, "stuck") \/ m = Stop(x, "trap")
             \/ Matches(m, Execute(g, y, q))
<1> DEFINE i == Here(source, x)
           c == source.code[i]
           k == values[i].value
           m == Execute(source, x, r)
           n == Execute(g, y, q)
           z == g.code[i]
<1>1. /\ Here(g, y) = i /\ i \in Instrs(source) /\ Machine(source, x)
      /\ Instrs(g) = Instrs(source) /\ values[i] \in Lattice
      /\ c.op \notin {"br", "cond_br", "ret", "store"} /\ IsConstant(values[i])
      /\ z.op = IF values[i].kind = "icons" THEN "iconst" ELSE "bconst"
      /\ z.k = k /\ z.ty = c.ty
  BY SameHere, HereFacts, RewrittenParts DEF RunAgrees, Rewrote, Solved
<1>2. c.op = "phi" \/ IsFoldable(c.op)
  <2>1. SUFFICES ASSUME c.op # "phi", ~IsFoldable(c.op) PROVE FALSE
    OBVIOUS
  <2>2. HasResult(source, i) /\ SettledIn(source, i)
    BY <1>1, HereFacts DEF Resulting
  <2>3. values[i] = Bot
    BY <1>1, <2>1, <2>2 DEF SettledIn
  <2> QED
    BY <1>1, <2>3 DEF IsConstant, Bot
<1>3. n = Bind(g, y, k)
  <2> DEFINE v == Compute(z, Operand(g, y, 1), Operand(g, y, 2))
  <2>1. v = k /\ k # None
    <3>1. CASE values[i].kind = "icons"
      <4>1. k \in Word /\ normalize(k, c.ty) = k
        BY <1>1, <3>1, LatticeFacts DEF Fits, FitsType
      <4>2. v = normalize(z.k, z.ty)
        BY <1>1, <3>1, ComputeFacts
      <4> QED
        BY <1>1, <4>1, <4>2 DEF Word, None
    <3>2. CASE values[i].kind # "icons"
      <4>1. values[i].kind = "bcons" /\ k \in {0, 1}
        BY <1>1, <3>2, LatticeFacts DEF IsConstant
      <4>2. v = z.k
        BY <1>1, <3>2, ComputeFacts
      <4> QED
        BY <1>1, <4>1, <4>2 DEF None
    <3> QED
      BY <3>1, <3>2
  <2>2. z.op \notin Special
    BY <1>1 DEF Special
  <2>3. n = IF v = None THEN Stop(y, "trap") ELSE Bind(g, y, v)
    BY <1>1, <2>2, ExecuteFacts
  <2> HIDE DEF v, n
  <2> QED
    BY <2>1, <2>3 DEF n
<1>4. \/ m = Stop(x, "stuck") \/ m = Stop(x, "trap")
      \/ \E w : m = Bind(source, x, w) /\ (w # Undefined => Agrees(w, values[i]))
  BY <1>2, BoundAgrees
<1>5. ASSUME NEW w, m = Bind(source, x, w), w # Undefined => Agrees(w, values[i])
      PROVE  Matches(m, n)
  <2>1. w # Undefined => k = w
    BY <1>1, <1>5, AgreesNonConstant
  <2> HIDE DEF m, n, k
  <2>2. Matches(m, n)
    BY <1>1, <1>3, <1>5, <2>1, MatchesBind
  <2> QED
    BY <2>2 DEF m, n
<1> QED
  BY <1>4, <1>5

\* A step of the new machine keeps up with the next one of the old machine,
\* whose calls are the first of t.
LEMMA LockStep ==
  ASSUME source \in Functions, Solved(source), Resulting(source), Fits(source), WellTyped(source),
         NEW g, Rewrote(g),
         NEW x, RunAgrees(x), NEW y, Matches(x, y), Machine(g, y),
         NEW m \in Steps(source, x), NEW n \in Steps(g, y),
         NEW t, Continues(t, m.trace),
         Len(n.trace) \in DOMAIN t => n.trace[Len(n.trace)].reply = t[Len(n.trace)].reply
  PROVE  Follows(m, n)
<1> DEFINE i == Here(source, x)
           c == source.code[i]
           b == Ins(source, x.block)
<1>1. /\ Machine(source, x) /\ x.block \in Blocks(source)
      /\ Ins(g, y.block) = b /\ Here(g, y) = i
      /\ Succ(g, y.block) = TakenSucc(source, values, x.block)
      /\ y.pos = x.pos /\ x.pos \in Nat /\ Len(b) \in Nat
  BY SameHere DEF RunAgrees, Matches
<1>2. Machine(source, m) /\ Machine(g, n) /\ Continues(m.trace, x.trace) /\ Continues(n.trace, y.trace)
  BY <1>1, StepFacts
<1>3. ASSUME NEW s, s \in {"stuck", "trap"}, m = Stop(x, s)
      PROVE  Follows(m, n)
  <2>1. m.status = s /\ m.trace = x.trace
    BY <1>1, <1>3, StopFacts DEF Halted
  <2>2. Continues(n.trace, m.trace)
    BY <1>2, <2>1 DEF Matches
  <2> QED
    BY <1>3, <2>1, <2>2 DEF Follows
<1>4. CASE ~(x.pos <= Len(b))
  <2> DEFINE s == Succ(source, x.block)
  <2>1. ~ HasTerminator(source, x.block)
    BY <1>4 DEF RunAgrees
  <2>2. Succ(g, y.block) = s
    BY <1>1, <2>1 DEF TakenSucc
  <2>3. m = StepOver(source, x) /\ n = StepOver(g, y)
    BY <1>1, <1>4, StepCases
  <2>4. /\ m = IF s = <<>> THEN Stop(x, "stuck") ELSE Goto(x, Head(s))
        /\ n = IF s = <<>> THEN Stop(y, "stuck") ELSE Goto(y, Head(s))
    BY <2>2, <2>3 DEF StepOver
  <2> HIDE DEF s
  <2>5. Matches(m, n)
    BY <1>1, <2>4, MatchesStop, MatchesGoto
  <2> QED
    BY <2>5 DEF Follows
<1>5. ASSUME x.pos <= Len(b), OperandsDefined(source, x) \/ IsPhi(source, i),
             NEW r, m = Execute(source, x, r)
      PROVE  Follows(m, n)
  <2>1. /\ i \in Instrs(source) /\ c.args \in Seq(Instrs(source))
        /\ g.code[i] = Rewritten(source, values, i)
        /\ IsTerminator(c.op) <=> x.pos = Len(b) /\ HasTerminator(source, x.block)
        /\ i = b[x.pos]
    BY <1>1, <1>5, HereFacts DEF Rewrote
  <2>2. /\ BecomesBr(source, values, i) =>
             c.op = "cond_br" /\ g.code[i].op = "br" /\ g.code[i].args = <<>>
        /\ BecomesConst(source, values, i) => g.code[i].args = <<>>
        /\ ~BecomesBr(source, values, i) /\ ~BecomesConst(source, values, i) => g.code[i] = c
    BY <2>1, RewrittenParts
  <2>3. OperandsDefined(g, y) \/ IsPhi(g, i)
    <3>1. CASE g.code[i].args = <<>>
      BY <1>1, <3>1 DEF OperandsDefined, Range
    <3>2. CASE g.code[i] = c
      BY <1>1, <1>5, <2>1, <3>2, SameOperands DEF IsPhi
    <3> QED
      BY <2>2, <3>1, <3>2
  <2>4. PICK q : n = Execute(g, y, q)
    BY <1>1, <1>5, <2>3, StepCases
  <2>5. CASE BecomesBr(source, values, i)
    <3>1. OperandsDefined(source, x)
      BY <1>5, <2>2, <2>5 DEF IsPhi
    <3> QED
      BY <1>5, <2>4, <2>5, <3>1, BranchStep DEF Follows
  <2>6. CASE BecomesConst(source, values, i)
    <3>1. m = Stop(x, "stuck") \/ m = Stop(x, "trap") \/ Matches(m, n)
      BY <1>5, <2>4, <2>6, ConstantStep
    <3> QED
      BY <1>3, <3>1 DEF Follows
  <2>7. CASE ~BecomesBr(source, values, i) /\ ~BecomesConst(source, values, i)
    <3>1. g.code[i] = c
      BY <2>2, <2>7
    <3>2. ASSUME c.op = "call" PROVE q = r
      <4>1. m = Call(source, x, r)
        BY <1>5, <3>2, ExecuteFacts
      <4>2. n = Call(g, y, q)
        BY <1>1, <2>4, <3>1, <3>2, ExecuteFacts
      <4> DEFINE l == Len(x.trace) + 1
      <4>3. m.trace = Append(x.trace, CallOf(source, x, r)) /\ \E S : x.trace \in Seq(S)
        BY <1>1, <4>1, CallFacts DEF Machine
      <4>4. n.trace = Append(x.trace, CallOf(g, y, q))
        BY <4>2, CallFacts DEF Matches
      <4>5. Len(m.trace) = l /\ m.trace[l] = CallOf(source, x, r) /\ Len(x.trace) \in Nat
        BY <4>3, AppendFacts
      <4>6. Len(n.trace) = l /\ n.trace[l] = CallOf(g, y, q)
        BY <4>3, <4>4, AppendFacts
      <4>7. l \in DOMAIN t /\ t[l] = m.trace[l]
        <5>1. (\E S : t \in Seq(S)) /\ l \in 1 .. Len(m.trace) /\ Len(m.trace) <= Len(t)
          BY <4>5 DEF Continues
        <5> QED
          BY <5>1 DEF Continues
      <4>8. CallOf(source, x, r).reply = r /\ CallOf(g, y, q).reply = q
        BY DEF CallOf
      <4> HIDE DEF l
      <4> QED
        BY <4>5, <4>6, <4>7, <4>8
    <3>3. IsTerminator(c.op) => Succ(g, y.block) = Succ(source, x.block)
      BY <1>1, <2>1, <2>7 DEF TakenSucc
    <3> QED
      BY <1>5, <2>4, <3>1, <3>2, <3>3, UnchangedStep DEF Follows
  <2> QED
    BY <2>5, <2>6, <2>7
<1> QED
  BY <1>3, <1>4, <1>5, StepCases

-----------------------------------------------------------------------------
\* The invariant.

\* The states of the first run from the one that the second run has come to:
\* it follows the first of them.
Ahead(h, n) ==
  /\ h[n] = before
  /\ \A k \in 1 .. n : RunAgrees(h[k]) /\ Continues(before.trace, h[k].trace)
  /\ \A k \in 1 .. n - 1 : h[k + 1] \in Steps(source, h[k])
  /\ after.status = "idle" => h[1] = Start(source, before.args)
  /\ after.status # "idle" =>
       Machine(source, after) /\ (WellTyped(source) => Follows(h[1], after))

\* The second run has come to a state that the first one went through.
OnTheWay == \E n, h : n \in Nat \ {0} /\ Ahead(h, n)

SoundInv ==
  /\ IInv
  /\ source \in Functions
  /\ pc # "done" => source = fn /\ Uncalled /\ fn.entry \in executable_blocks
  /\ pc = "done" => Solved(source) /\ fn = Transformed(source, values)
  /\ Resulting(source) /\ Fits(source)
  /\ after.status # "idle" => before.status \notin {"idle", "run"}
  /\ before.status # "idle" => OnTheWay

LEMMA InitSound == SoundInit => SoundInv
<1> SUFFICES ASSUME SoundInit PROVE SoundInv
  OBVIOUS
<1>1. Init /\ source = fn /\ Uncalled /\ IInv
  BY InitInv DEF SoundInit
<1>2. before.status = "idle" /\ after.status = "idle"
  BY <1>1 DEF Uncalled, Idle
<1>3. \A i \in Instrs(fn) : values[i] = Top
  BY <1>1 DEF Init
<1>4. Resulting(fn) /\ Fits(fn)
  BY <1>3, NonIntegersFit DEF Resulting, Fits, IsConstant, Top
<1> QED
  BY <1>1, <1>2, <1>4 DEF Init, SoundInv

\* When the analysis stops at its fixpoint, what it has found is a solution.
LEMMA FixpointSolves ==
  ASSUME IInv, pc = "transform", fn.entry \in executable_blocks
  PROVE  Solved(fn)
<1>1. TypeOK /\ FixpointReached
  BY InvFixpoint DEF IInv
<1> QED
  BY <1>1 DEF TypeOK, FixpointReached, FallsThrough, Solved, Settled, SettledIn

\* A step of the analysis keeps the constants normalised.
LEMMA StepFits ==
  ASSUME IInv, pc # "done", Fits(fn), Next, ~Transform
  PROVE  Fits(fn)'
<1>1. TypeOK /\ fn \in Functions /\ values \in [Instrs(fn) -> Lattice] /\ KindsMatch
  BY DEF IInv, TypeOK
<1>2. CASE VisitNext
  <2>1. Ins(fn, current)[next] \in Instrs(fn)
    <3>1. Ins(fn, current) \in Seq(Instrs(fn)) /\ next \in 1 .. Len(Ins(fn, current))
      BY <1>1, <1>2, SsaFacts DEF TypeOK, VisitNext
    <3> QED
      BY <3>1
  <2>2. WorkOK(Work)
    BY <1>1, WorkIsOK
  <2> QED
    BY <1>1, <1>2, <2>1, <2>2, VisitFits DEF VisitNext
<1>3. CASE TakeUser
  <2> DEFINE w == [Work EXCEPT !.ssa = Tail(@)]
  <2>1. ssa_worklist \in Seq(Instrs(fn)) /\ ssa_worklist # <<>>
    BY <1>1, <1>3 DEF TypeOK, TakeUser
  <2>2. Head(ssa_worklist) \in Instrs(fn) /\ Tail(ssa_worklist) \in Seq(Instrs(fn))
    BY <2>1
  <2>3. WorkOK(w)
    BY <1>1, <2>2, WorkIsOK DEF Work, WorkOK
  <2>4. fn' = fn /\ Visit(Head(ssa_worklist), w)
    BY <1>3 DEF TakeUser
  <2> HIDE DEF w
  <2> QED
    BY <1>1, <2>2, <2>3, <2>4, VisitFits
<1>4. CASE TakeBlock \/ EndBlock \/ NoUser \/ Abort \/ Converged
  <2>1. fn' = fn /\ values' = values
    BY <1>4 DEF TakeBlock, EndBlock, NoUser, Abort, Converged
  <2> QED
    BY <2>1 DEF Fits
<1> QED
  BY <1>2, <1>3, <1>4 DEF Next

LEMMA PropagateSound == SoundInv /\ Propagate => SoundInv'
<1> SUFFICES ASSUME SoundInv, Propagate PROVE SoundInv'
  OBVIOUS
<1>1. /\ IInv /\ pc # "done" /\ Next /\ UNCHANGED <<source, before, after>>
      /\ source = fn /\ source \in Functions /\ Uncalled
      /\ fn.entry \in executable_blocks /\ Resulting(fn) /\ Fits(fn)
  BY DEF SoundInv, Propagate
<1>2. IInv' /\ Uncalled' /\ before'.status = "idle" /\ after'.status = "idle"
  BY <1>1, StepInv DEF Uncalled, Idle
<1>3. CASE Transform
  <2>1. /\ pc = "transform" /\ pc' = "done" /\ fn' = Transformed(source, values)
        /\ UNCHANGED <<values, executable_blocks, executable_edges>>
    BY <1>1, <1>3 DEF Transform
  <2>2. Solved(source)
    BY <1>1, <2>1, FixpointSolves
  <2>3. Solved(source)' /\ Resulting(source)' /\ Fits(source)'
    BY <1>1, <2>1, <2>2 DEF Solved, SettledIn, Resulting, Fits
  <2> QED
    BY <1>1, <1>2, <2>1, <2>3 DEF SoundInv
<1>4. CASE ~ Transform
  <2>1. fn' = fn /\ pc' # "done"
    BY <1>1, <1>4 DEF Next, TakeBlock, VisitNext, EndBlock, TakeUser, NoUser, Abort, Converged
  <2>2. executable_blocks \subseteq executable_blocks'
    BY <1>1, StepDescends DEF Down
  <2>3. Fits(source)'
    BY <1>1, <1>4, <2>1, StepFits DEF Fits
  <2>4. Resulting(source)'
    <3>1. WellFormedInv
      BY <1>1, GivenWellFormed DEF WellFormedInv, ConstantsHaveResults, Resulting
    <3>2. WellFormedInv'
      BY <1>1, <3>1, StepWellFormed
    <3> QED
      BY <1>1, <2>1, <3>2 DEF WellFormedInv, ConstantsHaveResults, Resulting
  <2> QED
    BY <1>1, <1>2, <2>1, <2>2, <2>3, <2>4 DEF SoundInv
<1> QED
  BY <1>3, <1>4

\* What is claimed of a machine outlasts the analysis.
Frozen == UNCHANGED <<source, values, executable_blocks, executable_edges>>

LEMMA RunAgreesStays ==
  ASSUME Frozen, NEW m, RunAgrees(m)
  PROVE  RunAgrees(m)'
BY DEF Frozen, RunAgrees, EnvAgrees, Machine

\* The first run is called.
LEMMA CallBeforeAhead ==
  ASSUME source \in Functions, Solved(source), NEW a, before' = Start(source, a),
         Frozen, after'.status = "idle"
  PROVE  OnTheWay'
<1> PICK m : m = before'
  OBVIOUS
<1> DEFINE h == [k \in {1} |-> m]
<1>1. RunAgrees(m) /\ m.args = a /\ m = Start(source, a)
  BY StartAgrees, StartOfRun
<1>2. RunAgrees(m)'
  BY <1>1, RunAgreesStays
<1>3. Continues(m.trace, m.trace)
  BY <1>1, ContinuesFacts DEF RunAgrees, Machine
<1>4. Start(source, m.args)' = m
  BY <1>1 DEF Frozen
<1>5. h[1] = m /\ 1 .. 1 = {1} /\ 1 .. 0 = {}
  OBVIOUS
<1> HIDE DEF h
<1>6. Ahead(h, 1)'
  BY <1>1, <1>2, <1>3, <1>4, <1>5 DEF Ahead
<1> QED
  BY <1>6, 1 \in Nat \ {0} DEF OnTheWay

\* The first run goes on.
LEMMA StepBeforeAhead ==
  ASSUME source \in Functions, Solved(source), NEW n \in Nat \ {0}, NEW h, Ahead(h, n),
         before' \in Steps(source, before), Frozen, after.status = "idle", after' = after
  PROVE  OnTheWay'
<1> PICK m : m = before'
  OBVIOUS
<1> DEFINE g == [k \in 1 .. n + 1 |-> IF k = n + 1 THEN m ELSE h[k]]
<1>1. RunAgrees(before) /\ Machine(source, before) /\ m \in Steps(source, before)
  BY DEF Ahead, RunAgrees
<1>2. RunAgrees(m) /\ m.args = before.args /\ Continues(m.trace, before.trace)
  BY <1>1, StepKeeps, StepFacts
<1>3. Continues(m.trace, m.trace)
  BY <1>2, ContinuesFacts DEF RunAgrees, Machine
<1>4. /\ g[n + 1] = m /\ g[1] = h[1] /\ g[n] = h[n]
      /\ \A k \in 1 .. n : g[k] = h[k]
      /\ \A k \in 1 .. n + 1 : k \in 1 .. n \/ k = n + 1
      /\ \A k \in 1 .. n : (k \in 1 .. n - 1 /\ k + 1 \in 1 .. n) \/ k = n
  OBVIOUS
<1> HIDE DEF g
<1>5. \A k \in 1 .. n + 1 : RunAgrees(g[k])' /\ Continues(m.trace, g[k].trace)
  <2>1. \A k \in 1 .. n : RunAgrees(h[k]) /\ Continues(m.trace, h[k].trace)
    BY <1>2, ContinuesFacts DEF Ahead
  <2>2. \A k \in 1 .. n + 1 : RunAgrees(g[k]) /\ Continues(m.trace, g[k].trace)
    BY <1>2, <1>3, <1>4, <2>1
  <2> QED
    BY <2>2, RunAgreesStays
<1>6. \A k \in 1 .. n : g[k + 1] \in Steps(source', g[k])
  <2>1. h[n] = before /\ \A k \in 1 .. n - 1 : h[k + 1] \in Steps(source, h[k])
    BY DEF Ahead
  <2> QED
    BY <1>1, <1>4, <2>1 DEF Frozen
<1>7. h[1] = Start(source', m.args)
  BY <1>2 DEF Ahead, Frozen
<1>8. (n + 1) - 1 = n /\ n + 1 \in Nat \ {0}
  OBVIOUS
<1>9. Ahead(g, n + 1)'
  BY <1>4, <1>5, <1>6, <1>7, <1>8 DEF Ahead
<1> QED
  BY <1>8, <1>9 DEF OnTheWay

\* The second run is called.
LEMMA CallAfterAhead ==
  ASSUME source \in Functions, NEW n \in Nat \ {0}, NEW h, Ahead(h, n),
         Rewrote(fn), after.status = "idle", after' = Start(fn, before.args),
         Frozen, before' = before
  PROVE  Ahead(h, n)'
<1> PICK y : y = after'
  OBVIOUS
<1> DEFINE x == Start(source, before.args)
<1>1. /\ y = Start(fn, before.args) /\ h[1] = x
      /\ Instrs(fn) = Instrs(source) /\ fn.entry = source.entry
  BY DEF Ahead, Rewrote
<1>2. /\ x.status = "run" /\ x.block = source.entry
      /\ x.prev = source.entry /\ x.pos = 1 /\ x.entered = 1
      /\ x.cell = Blank(source)
      /\ x.args = before.args /\ x.trace = <<>> /\ x.value = 0
      /\ \A v \in Instrs(source) : x.env[v] = Undefined /\ x.at_entry[v] = Undefined
  BY StartOfRun
<1>3. /\ Machine(fn, y) /\ y.status = "run" /\ y.block = source.entry
      /\ y.prev = source.entry /\ y.pos = 1 /\ y.entered = 1
      /\ y.cell = Blank(fn)
      /\ y.args = before.args /\ y.trace = <<>> /\ y.value = 0
  BY <1>1, StartOfRun
<1>4. Blank(fn) = Blank(source) /\ Machine(source, y)
  BY <1>1, <1>3 DEF Blank, Machine
<1> HIDE DEF x
<1>5. Matches(x, y)
  BY <1>2, <1>3, <1>4 DEF Matches, Refines
<1>6. Machine(source, y)' /\ Follows(h[1], y)'
  BY <1>1, <1>4, <1>5 DEF Frozen, Machine, Follows, Matches, Refines
<1>7. \A k \in 1 .. n : RunAgrees(h[k])'
  BY RunAgreesStays DEF Ahead
<1> QED
  BY <1>3, <1>6, <1>7 DEF Ahead, Frozen

\* The second run catches up with the next state of the first.
LEMMA StepAfterAhead ==
  ASSUME source \in Functions, Solved(source), Resulting(source), Fits(source),
         NEW n \in Nat \ {0}, NEW h, Ahead(h, n), Rewrote(fn),
         before.status \notin {"idle", "run"}, after.status # "idle",
         after' \in Steps(fn, after), SameReplies(after'), Frozen, before' = before
  PROVE  OnTheWay'
<1> PICK y : y = after'
  OBVIOUS
<1>1. /\ Machine(fn, after) /\ Instrs(fn) = Instrs(source)
      /\ h[n] = before
      /\ \A k \in 1 .. n : RunAgrees(h[k]) /\ Continues(before.trace, h[k].trace)
      /\ \A k \in 1 .. n - 1 : h[k + 1] \in Steps(source, h[k])
      /\ WellTyped(source) => Follows(h[1], after)
  BY DEF Ahead, Rewrote, Machine
<1>2. /\ y \in Steps(fn, after)
      /\ Len(y.trace) \in DOMAIN before.trace =>
           y.trace[Len(y.trace)].reply = before.trace[Len(y.trace)].reply
  BY DEF SameReplies
<1>3. Machine(fn, y) /\ Continues(y.trace, after.trace) /\ y.status # "idle"
  BY <1>1, <1>2, StepFacts
<1>4. Machine(source, y) /\ Machine(source, y)'
  BY <1>1, <1>3 DEF Machine, Frozen
<1>5. \A k \in 1 .. n : RunAgrees(h[k])'
  BY <1>1, RunAgreesStays
<1>6. ASSUME WellTyped(source) => Follows(h[1], y)
      PROVE  OnTheWay'
  <2>1. WellTyped(source)' => Follows(h[1], y)'
    BY <1>6 DEF Frozen, Follows, Matches, Refines
  <2>2. Ahead(h, n)'
    BY <1>1, <1>3, <1>4, <1>5, <2>1 DEF Ahead, Frozen
  <2> QED
    BY <2>2 DEF OnTheWay
<1>7. CASE ~ WellTyped(source)
  BY <1>6, <1>7
<1>8. CASE WellTyped(source) /\ ~ Matches(h[1], after)
  <2>1. h[1].status \in {"trap", "stuck"} /\ Continues(after.trace, h[1].trace)
    BY <1>1, <1>8 DEF Follows
  <2>2. Continues(y.trace, h[1].trace)
    BY <1>3, <2>1, ContinuesFacts
  <2>3. Follows(h[1], y)
    BY <2>1, <2>2 DEF Follows
  <2> QED
    BY <1>6, <2>3
<1>9. CASE WellTyped(source) /\ Matches(h[1], after)
  <2>1. after.status = "run"
    BY <1>2, StepCases
  <2>2. h[1].status = "run"
    BY <1>9, <2>1 DEF Matches
  <2>3. n # 1
    BY <1>1, <2>2
  <2>4. 1 \in 1 .. n /\ 1 \in 1 .. n - 1 /\ 2 \in 1 .. n
    BY <2>3
  <2>5. h[2] \in Steps(source, h[1]) /\ RunAgrees(h[1]) /\ Continues(before.trace, h[2].trace)
    BY <1>1, <2>4
  <2>6. Follows(h[2], y)
    BY <1>1, <1>2, <1>9, <2>5, LockStep
  <2> DEFINE l == n - 1
             g == [k \in 1 .. l |-> h[k + 1]]
  <2>7. /\ l \in Nat \ {0} /\ g[l] = before /\ g[1] = h[2]
        /\ \A k \in 1 .. l : g[k] = h[k + 1] /\ k + 1 \in 1 .. n
        /\ \A k \in 1 .. l - 1 : /\ g[k] = h[k + 1] /\ g[k + 1] = h[(k + 1) + 1]
                               /\ k + 1 \in 1 .. n - 1
    BY <1>1, <2>3
  <2> HIDE DEF l, g
  <2>8. \A k \in 1 .. l : RunAgrees(g[k])' /\ Continues(before.trace, g[k].trace)
    BY <1>1, <1>5, <2>7
  <2>9. \A k \in 1 .. l - 1 : g[k + 1] \in Steps(source', g[k])
    BY <1>1, <2>7 DEF Frozen
  <2>10. Follows(g[1], y)'
    BY <2>6, <2>7 DEF Frozen, Follows, Matches, Refines
  <2>11. Ahead(g, l)'
    BY <1>3, <1>4, <2>7, <2>8, <2>9, <2>10 DEF Ahead
  <2> QED
    BY <2>7, <2>11 DEF OnTheWay
<1> QED
  BY <1>7, <1>8, <1>9

LEMMA ObserveSound == SoundInv /\ Observe => SoundInv'
<1> SUFFICES ASSUME SoundInv, Observe PROVE SoundInv'
  OBVIOUS
<1>1. /\ IInv /\ pc = "done" /\ source \in Functions /\ Solved(source)
      /\ Resulting(source) /\ Fits(source) /\ fn = Transformed(source, values)
      /\ after.status # "idle" => before.status \notin {"idle", "run"}
      /\ before.status # "idle" => OnTheWay
  BY DEF SoundInv, Observe
<1>2. Compare(fn) /\ UNCHANGED vars
  BY DEF Observe, vars
<1>3. source' = source /\ Frozen /\ fn' = fn /\ pc' = "done" /\ values' = values
  BY <1>1, <1>2 DEF Compare, CallBefore, StepBefore, CallAfter, StepAfter, vars, Frozen
<1>4. IInv' /\ Solved(source)' /\ Resulting(source)' /\ Fits(source)'
      /\ (fn = Transformed(source, values))'
  <2>1. IInv'
    BY <1>1, <1>2, StepInv
  <2>2. Solved(source)'
    BY <1>1, <1>3 DEF Frozen, Solved, SettledIn
  <2>3. Resulting(source)' /\ Fits(source)'
    BY <1>1, <1>3 DEF Frozen, Resulting, Fits
  <2>4. (fn = Transformed(source, values))'
    BY <1>1, <1>3
  <2> QED
    BY <2>1, <2>2, <2>3, <2>4
<1>5. Rewrote(fn)
  BY <1>1, TransformedRewrote
<1>6. /\ before'.status # "idle" => OnTheWay'
      /\ after'.status # "idle" => before'.status \notin {"idle", "run"}
  <2>1. CASE CallBefore
    <3>1. /\ \E a : before' = Start(source, a)
          /\ after' = after /\ before.status = "idle"
      BY <2>1 DEF CallBefore
    <3>2. after'.status = "idle"
      BY <1>1, <3>1
    <3> QED
      BY <1>1, <1>3, <3>1, <3>2, CallBeforeAhead
  <2>2. CASE StepBefore
    <3>1. /\ before.status = "run" /\ before' \in Steps(source, before) /\ after' = after
      BY <2>2 DEF StepBefore
    <3>2. after.status = "idle"
      BY <1>1, <3>1
    <3>3. PICK n, h : n \in Nat \ {0} /\ Ahead(h, n)
      BY <1>1, <3>1 DEF OnTheWay
    <3> QED
      BY <1>1, <1>3, <3>1, <3>2, <3>3, StepBeforeAhead
  <2>3. CASE CallAfter(fn)
    <3>1. /\ before.status \notin {"idle", "run"} /\ after.status = "idle"
          /\ after' = Start(fn, before.args) /\ before' = before
      BY <2>3 DEF CallAfter
    <3>2. PICK n, h : n \in Nat \ {0} /\ Ahead(h, n)
      BY <1>1, <3>1 DEF OnTheWay
    <3>3. Ahead(h, n)'
      BY <1>1, <1>3, <1>5, <3>1, <3>2, CallAfterAhead
    <3>4. OnTheWay'
      BY <3>2, <3>3 DEF OnTheWay
    <3> QED
      BY <3>1, <3>4
  <2>4. CASE StepAfter(fn)
    <3>1. /\ after.status = "run" /\ before' = before
          /\ after' \in Steps(fn, after) /\ SameReplies(after')
      BY <2>4 DEF StepAfter
    <3>2. before.status \notin {"idle", "run"} /\ after.status # "idle"
      BY <1>1, <3>1
    <3>3. PICK n, h : n \in Nat \ {0} /\ Ahead(h, n)
      BY <1>1, <3>2 DEF OnTheWay
    <3>4. OnTheWay'
      BY <1>1, <1>3, <1>5, <3>1, <3>2, <3>3, StepAfterAhead
    <3> QED
      BY <3>1, <3>2, <3>4
  <2> QED
    BY <1>2, <2>1, <2>2, <2>3, <2>4 DEF Compare
<1> QED
  BY <1>1, <1>3, <1>4, <1>6 DEF SoundInv

LEMMA StutterSound == SoundInv /\ UNCHANGED allvars => SoundInv'
<1> SUFFICES ASSUME SoundInv, UNCHANGED allvars PROVE SoundInv'
  OBVIOUS
<1>1. UNCHANGED vars /\ UNCHANGED <<source, before, after, fn, pc>> /\ Frozen
  BY DEF allvars, vars, Frozen
<1>2. IInv'
  BY <1>1, StepInv DEF SoundInv
<1>3. /\ Solved(source) => Solved(source)'
      /\ Resulting(source)' /\ Fits(source)'
  <2>1. Solved(source) => Solved(source)'
    BY <1>1 DEF Frozen, Solved, SettledIn
  <2>2. Resulting(source)'
    BY <1>1 DEF SoundInv, Frozen, Resulting
  <2>3. Fits(source)'
    BY <1>1 DEF SoundInv, Frozen, Fits
  <2> QED
    BY <2>1, <2>2, <2>3
<1>4. ASSUME NEW n \in Nat \ {0}, NEW h, Ahead(h, n)
      PROVE  Ahead(h, n)'
  <2>1. \A k \in 1 .. n : RunAgrees(h[k])'
    BY <1>1, <1>4, RunAgreesStays DEF Ahead
  <2>2. Machine(source, after) => Machine(source, after)'
    BY <1>1 DEF Machine
  <2>3. (WellTyped(source) => Follows(h[1], after)) => (WellTyped(source) => Follows(h[1], after))'
    BY <1>1 DEF Follows, Matches, Refines
  <2> QED
    BY <1>1, <1>4, <2>1, <2>2, <2>3 DEF Ahead
<1>5. OnTheWay => OnTheWay'
  BY <1>4 DEF OnTheWay
<1> QED
  BY <1>1, <1>2, <1>3, <1>5 DEF SoundInv, Uncalled, Frozen

-----------------------------------------------------------------------------
\* The theorems.

\* The strengthening that the two properties follow from: what the analysis
\* found solves its equations over the function it was given, its constants
\* are normalised to their types, the first run agrees with it, and the
\* second run follows a state that the first one went through.
THEOREM SoundInvariant == SoundSpec => []SoundInv
<1>1. SoundInit => SoundInv
  BY InitSound
<1>2. SoundInv /\ [SoundNext]_allvars => SoundInv'
  BY PropagateSound, ObserveSound, StutterSound DEF SoundNext
<1> QED
  BY <1>1, <1>2, PTL DEF SoundSpec

\* In every run of every function of the SSA form, called with any arguments
\* and whatever its callees reply: control only enters blocks found
\* executable, and what is computed is the constant that was found or was
\* found overdefined (sccp.hpp 209-273).
THEOREM AnalysisIsSound == SoundSpec => []AnalysisSound
<1>1. SoundInv => AnalysisSound
  <2> SUFFICES ASSUME SoundInv, before.status # "idle" PROVE AnalysisSound
    BY DEF AnalysisSound
  <2>1. PICK n, h : n \in Nat \ {0} /\ Ahead(h, n)
    BY DEF SoundInv, OnTheWay
  <2>2. RunAgrees(before)
    BY <2>1 DEF Ahead
  <2> QED
    BY <2>2 DEF RunAgrees, EnvAgrees, AnalysisSound
<1> QED
  BY <1>1, SoundInvariant, PTL

\* On a function that is typed as infer_op types it and whose opcodes are those
\* from_opkind picks, transform() keeps the behaviour: called with the
\* same arguments and given the same replies, the new function makes the
\* calls of the old one and returns what it returns (sccp.hpp 275-318).
THEOREM BehaviourIsPreserved ==
  SoundSpec => [](WellTyped(source) => BehaviourPreserved)
<1>1. ASSUME SoundInv, WellTyped(source) PROVE BehaviourPreserved
  <2> SUFFICES ASSUME before.status # "idle", after.status # "idle"
               PROVE  SameCalls /\ SameEnd
    BY DEF BehaviourPreserved
  <2>1. PICK n, h : n \in Nat \ {0} /\ Ahead(h, n)
    BY <1>1 DEF SoundInv, OnTheWay
  <2> DEFINE x == h[1]
  <2>2. Follows(x, after) /\ Continues(before.trace, x.trace)
    BY <1>1, <2>1 DEF Ahead
  <2>3. x.status # "run" => n = 1
    <3>1. SUFFICES ASSUME x.status # "run", n # 1 PROVE FALSE
      OBVIOUS
    <3>2. 1 \in 1 .. n - 1
      BY <2>1, <3>1
    <3>3. h[2] \in Steps(source, x)
      BY <2>1, <3>2 DEF Ahead
    <3> QED
      BY <3>1, <3>3, StepCases
  <2>4. n = 1 => x = before
    BY <2>1 DEF Ahead
  <2>5. (\E S : before.trace \in Seq(S)) /\ (\E S : x.trace \in Seq(S))
    BY <2>2 DEF Continues
  <2> HIDE DEF x
  <2>6. CASE Matches(x, after)
    <3>1. after.trace = x.trace /\ after.status = x.status /\ after.value = x.value
      BY <2>6 DEF Matches
    <3>2. \A k \in DOMAIN after.trace : after.trace[k] = before.trace[k]
      BY <2>2, <2>5, <3>1 DEF Continues
    <3>3. SameCalls
      BY <3>2 DEF SameCalls
    <3>4. SameEnd
      BY <2>3, <2>4, <3>1 DEF SameEnd
    <3> QED
      BY <3>3, <3>4
  <2>7. CASE x.status \in {"trap", "stuck"} /\ Continues(after.trace, x.trace)
    <3>1. x = before
      BY <2>3, <2>4, <2>7
    <3>2. \A k \in DOMAIN before.trace : after.trace[k] = before.trace[k]
      BY <2>5, <2>7, <3>1 DEF Continues
    <3> QED
      BY <2>7, <3>1, <3>2 DEF SameCalls, SameEnd
  <2> QED
    BY <2>2, <2>6, <2>7 DEF Follows
<1>2. SoundInv => (WellTyped(source) => BehaviourPreserved)
  BY <1>1
<1> QED
  BY <1>2, SoundInvariant, PTL
=============================================================================
