------------------------------ MODULE DceProofs ------------------------------
(***************************************************************************)
(* Dead code elimination, proved for every function it may be run on.      *)
(***************************************************************************)
EXTENDS Dce, Facts

\* Which positions <<n, k>> the loop over the blocks has passed.
Behind(n, k) == n < at[1] \/ (n = at[1] /\ k < at[2])

At(n, k) == Ins(fn, fn.order[n])[k]

\* Every root passed so far is marked.
RootsFound ==
  \A n \in DOMAIN fn.order : \A k \in DOMAIN Ins(fn, fn.order[n]) :
    (pc # "roots" \/ Behind(n, k)) /\ HasSideEffects(fn.code[At(n, k)].op)
      => At(n, k) \in useful

\* The sweep leaves nothing behind that is not marked.
UselessErased ==
  \A n \in DOMAIN fn.order : \A k \in DOMAIN Ins(fn, fn.order[n]) :
    (pc = "sweep" /\ Behind(n, k)) \/ pc = "done" => At(n, k) \in useful

\* The inductive invariant: NothingLost says that the marks get closed,
\* and the rest that the sweep erases exactly what is not marked.
IInv ==
  /\ TypeOK
  /\ NothingLost
  /\ useful \subseteq Placed(fn)
  /\ pc \notin {"sweep", "done"} => OperandsPlaced(fn)
  /\ pc \in {"sweep", "done"} => worklist = <<>>
  /\ RootsFound
  /\ UselessErased

-----------------------------------------------------------------------------
LEMMA PlacedAt ==
  ASSUME NEW f, IsFunction(f), NEW i
  PROVE  i \in Placed(f) <=>
           \E n \in DOMAIN f.order : \E k \in DOMAIN Ins(f, f.order[n]) :
             i = Ins(f, f.order[n])[k]
  BY DEF Placed, Range

LEMMA FunctionFacts ==
  ASSUME NEW f, IsFunction(f)
  PROVE  /\ f.order \in Seq(Blocks(f))
         /\ \A b \in Blocks(f) : Ins(f, b) \in Seq(Instrs(f))
         /\ \A i \in Instrs(f) : f.code[i].args \in Seq(Instrs(f))
         /\ Placed(f) \subseteq Instrs(f)
<1>1. f.order \in Seq(Blocks(f))
  BY DEF IsFunction
<1>2. \A b \in Blocks(f) : Ins(f, b) \in Seq(Instrs(f))
  BY DEF IsFunction, Ins
<1>3. \A i \in Instrs(f) : f.code[i].args \in Seq(Instrs(f))
  BY DEF IsFunction, IsCode
<1>4. ASSUME NEW i \in Placed(f) PROVE i \in Instrs(f)
  <2>1. PICK n \in DOMAIN f.order :
               \E k \in DOMAIN Ins(f, f.order[n]) : i = Ins(f, f.order[n])[k]
    BY <1>4, PlacedAt
  <2>2. f.order[n] \in Blocks(f)
    BY <1>1
  <2> QED
    BY <1>2, <2>1, <2>2
<1> QED
  BY <1>1, <1>2, <1>3, <1>4

\* Erasing one instruction changes one block and nothing else.
LEMMA WithoutFacts ==
  ASSUME NEW f, IsFunction(f), NEW b \in Blocks(f), NEW k \in DOMAIN Ins(f, b)
  PROVE  /\ IsFunction(Without(f, b, k))
         /\ Without(f, b, k).order = f.order
         /\ Without(f, b, k).code = f.code
         /\ Blocks(Without(f, b, k)) = Blocks(f)
         /\ \A c \in Blocks(f) :
              Ins(Without(f, b, k), c) =
                IF c = b THEN RemoveAt(Ins(f, b), k) ELSE Ins(f, c)
<1> DEFINE g == Without(f, b, k)
<1>1. Ins(f, b) \in Seq(Instrs(f)) /\ k \in 1 .. Len(Ins(f, b))
  BY FunctionFacts
<1>2. RemoveAt(Ins(f, b), k) \in Seq(Instrs(f))
  BY <1>1, RemoveAtProperties
<1>3. /\ DOMAIN g = DOMAIN f
      /\ g.order = f.order /\ g.code = f.code /\ g.users = f.users
      /\ g.entry = f.entry
      /\ g.block = [f.block EXCEPT ![b].ins = RemoveAt(@, k)]
  BY DEF Without, IsFunction
<1>4. g.block \in [Blocks(f) -> [ins : Seq(Instrs(f)), succ : Seq(Blocks(f)),
                                 pred : Seq(Blocks(f))]]
  <2> DEFINE R == [ins : Seq(Instrs(f)), succ : Seq(Blocks(f)), pred : Seq(Blocks(f))]
             short == [f.block[b] EXCEPT !.ins = RemoveAt(@, k)]
  <2>1. f.block \in [Blocks(f) -> R]
    BY DEF IsFunction
  <2>2. f.block[b] \in R /\ RemoveAt(f.block[b].ins, k) \in Seq(Instrs(f))
    BY <1>2, <2>1 DEF Ins
  <2>3. short \in R
    BY <2>2
  <2>4. g.block = [f.block EXCEPT ![b] = short]
    BY <1>3
  <2> HIDE DEF R, short
  <2>5. g.block \in [Blocks(f) -> R]
    BY <2>1, <2>3, <2>4
  <2> QED
    BY <2>5 DEF R
<1>5. Blocks(g) = Blocks(f) /\ Instrs(g) = Instrs(f)
  BY <1>3, <1>4 DEF Blocks, Instrs
<1>6. \A c \in Blocks(f) :
        Ins(g, c) = IF c = b THEN RemoveAt(Ins(f, b), k) ELSE Ins(f, c)
  BY <1>3, <1>4 DEF IsFunction, Ins, Blocks
<1> HIDE DEF g
<1>7. IsFunction(g)
  BY <1>3, <1>4, <1>5 DEF IsFunction, IsCode
<1> QED
  BY <1>3, <1>5, <1>6, <1>7 DEF g

-----------------------------------------------------------------------------
LEMMA AtFacts ==
  ASSUME TypeOK
  PROVE  /\ at = <<at[1], at[2]>>
         /\ at[1] \in 1 .. Len(fn.order) + 1 /\ at[2] \in Nat \ {0}
         /\ Len(fn.order) \in Nat /\ DOMAIN fn.order = 1 .. Len(fn.order)
         /\ \A n \in DOMAIN fn.order :
              /\ fn.order[n] \in Blocks(fn)
              /\ Ins(fn, fn.order[n]) \in Seq(Instrs(fn))
              /\ DOMAIN Ins(fn, fn.order[n]) = 1 .. Len(Ins(fn, fn.order[n]))
              /\ Len(Ins(fn, fn.order[n])) \in Nat
<1>1. fn.order \in Seq(Blocks(fn))
  BY FunctionFacts DEF TypeOK
<1>2. \A n \in DOMAIN fn.order : fn.order[n] \in Blocks(fn)
  BY <1>1
<1>3. \A n \in DOMAIN fn.order : Ins(fn, fn.order[n]) \in Seq(Instrs(fn))
  BY <1>2, FunctionFacts DEF TypeOK
<1> QED
  BY <1>1, <1>2, <1>3 DEF TypeOK

\* How the loops over the blocks advance.
LEMMA PassInstr ==
  ASSUME TypeOK, AtInstr, NextInstr,
         NEW n \in DOMAIN fn.order, NEW k \in DOMAIN Ins(fn, fn.order[n]),
         Behind(n, k)'
  PROVE  Behind(n, k) \/ (n = at[1] /\ k = at[2])
<1>1. at'[1] = at[1] /\ at'[2] = at[2] + 1
  BY DEF NextInstr
<1>2. n \in Int /\ k \in Int /\ at[1] \in Int /\ at[2] \in Int
  BY AtFacts
<1> QED
  BY <1>1, <1>2 DEF Behind

LEMMA PassBlock ==
  ASSUME TypeOK, AtBlockEnd, NextBlock,
         NEW n \in DOMAIN fn.order, NEW k \in DOMAIN Ins(fn, fn.order[n]),
         Behind(n, k)'
  PROVE  Behind(n, k)
<1>1. at'[1] = at[1] + 1 /\ at'[2] = 1
  BY DEF NextBlock
<1>2. n \in Int /\ k \in 1 .. Len(Ins(fn, fn.order[n]))
      /\ Len(Ins(fn, fn.order[n])) \in Nat /\ at[1] \in Int /\ at[2] \in Int
  BY AtFacts
<1>3. n = at[1] => k < at[2]
  BY <1>2 DEF AtBlockEnd, AtBlock
<1> QED
  BY <1>1, <1>2, <1>3 DEF Behind

LEMMA PassEnd ==
  ASSUME TypeOK, AtEnd,
         NEW n \in DOMAIN fn.order, NEW k \in DOMAIN Ins(fn, fn.order[n])
  PROVE  Behind(n, k)
<1>1. n \in 1 .. Len(fn.order) /\ Len(fn.order) \in Nat /\ at[1] \in Int
  BY AtFacts
<1> QED
  BY <1>1 DEF Behind, AtEnd

\* The instruction the loops stand at.
LEMMA HereFacts ==
  ASSUME TypeOK, AtInstr
  PROVE  /\ at[1] \in DOMAIN fn.order /\ at[2] \in DOMAIN Ins(fn, AtBlock)
         /\ AtBlock \in Blocks(fn)
         /\ Ins(fn, AtBlock)[at[2]] \in Instrs(fn)
         /\ Ins(fn, AtBlock)[at[2]] \in Placed(fn)
<1>1. at[1] \in DOMAIN fn.order
  BY AtFacts DEF AtInstr
<1>2. AtBlock \in Blocks(fn) /\ Ins(fn, AtBlock) \in Seq(Instrs(fn))
  BY <1>1, AtFacts DEF AtBlock
<1>3. at[2] \in DOMAIN Ins(fn, AtBlock)
  BY <1>1, <1>2, AtFacts DEF AtInstr
<1>4. Ins(fn, AtBlock)[at[2]] \in Instrs(fn)
  BY <1>2, <1>3
<1>5. Ins(fn, AtBlock)[at[2]] \in Placed(fn)
  BY <1>1, <1>3, PlacedAt DEF AtBlock, TypeOK
<1> QED
  BY <1>1, <1>2, <1>3, <1>4, <1>5

LEMMA EnqueueFacts ==
  ASSUME TypeOK, NEW i, Enqueue(i)
  PROVE  /\ useful' = useful \cup {i}
         /\ worklist' \in Seq(useful')
         /\ Range(worklist') = Range(worklist) \cup {i}
<1>1. worklist \in Seq(useful \cup {i})
  BY DEF TypeOK
<1> QED
  BY <1>1, RangeOfAppend DEF Enqueue

LEMMA InitInv == Init => IInv
<1> SUFFICES ASSUME Init PROVE IInv
  OBVIOUS
<1>1. IsFunction(fn) /\ OperandsPlaced(fn)
  BY FunctionsAssumption DEF Init
<1>2. fn.order \in Seq(Blocks(fn))
  BY <1>1, FunctionFacts
<1>3. TypeOK
  BY <1>1, <1>2 DEF Init, TypeOK
<1>4. NothingLost
  BY DEF Init, NothingLost
<1>5. RootsFound /\ UselessErased
  BY <1>3, AtFacts DEF Init, RootsFound, UselessErased, Behind
<1> QED
  BY <1>1, <1>3, <1>4, <1>5 DEF IInv, Init

\* The loop over the roots.
LEMMA ScanInstrInv == IInv /\ ScanInstr => IInv'
<1> SUFFICES ASSUME IInv, ScanInstr PROVE IInv'
  OBVIOUS
<1> DEFINE i == Ins(fn, AtBlock)[at[2]]
<1>1. TypeOK /\ AtInstr /\ NextInstr /\ pc = "roots"
      /\ UNCHANGED <<fn, pc, inst, operand>>
  BY DEF IInv, ScanInstr
<1>2. at[2] + 1 \in Nat \ {0} /\ i \in Instrs(fn) /\ i \in Placed(fn)
  BY <1>1, HereFacts, AtFacts
<1>3. /\ useful \subseteq useful' /\ useful' \subseteq useful \cup {i}
      /\ HasSideEffects(fn.code[i].op) => i \in useful'
      /\ worklist' \in Seq(useful')
      /\ Range(worklist) \subseteq Range(worklist')
      /\ useful' \ useful \subseteq Range(worklist')
  <2>1. CASE HasSideEffects(fn.code[i].op)
    BY <1>1, <2>1, EnqueueFacts DEF ScanInstr
  <2>2. CASE ~HasSideEffects(fn.code[i].op)
    BY <1>1, <2>2 DEF TypeOK, ScanInstr
  <2> QED
    BY <2>1, <2>2
<1> HIDE DEF i
<1>4. TypeOK'
  BY <1>1, <1>2, <1>3, AtFacts DEF TypeOK, NextInstr
<1>5. NothingLost'
  BY <1>1, <1>3 DEF IInv, NothingLost
<1>6. RootsFound'
  <2> SUFFICES ASSUME NEW n \in DOMAIN fn.order,
                      NEW k \in DOMAIN Ins(fn, fn.order[n]),
                      Behind(n, k)', HasSideEffects(fn.code[At(n, k)].op)
               PROVE  At(n, k) \in useful'
    BY <1>1 DEF RootsFound, At
  <2>1. CASE Behind(n, k)
    BY <1>3, <2>1 DEF IInv, RootsFound
  <2>2. CASE n = at[1] /\ k = at[2]
    BY <1>3, <2>2 DEF At, AtBlock, i
  <2> QED
    BY <1>1, <2>1, <2>2, PassInstr
<1>7. UselessErased'
  BY <1>1 DEF UselessErased
<1> QED
  BY <1>1, <1>2, <1>3, <1>4, <1>5, <1>6, <1>7 DEF IInv

LEMMA ScanBlockInv == IInv /\ ScanBlock => IInv'
<1> SUFFICES ASSUME IInv, ScanBlock PROVE IInv'
  OBVIOUS
<1>1. TypeOK /\ AtBlockEnd /\ NextBlock /\ pc = "roots"
      /\ UNCHANGED <<fn, useful, worklist, pc, inst, operand>>
  BY DEF IInv, ScanBlock
<1>2. TypeOK'
  BY <1>1, AtFacts DEF TypeOK, NextBlock, AtBlockEnd
<1>3. RootsFound'
  <2> SUFFICES ASSUME NEW n \in DOMAIN fn.order,
                      NEW k \in DOMAIN Ins(fn, fn.order[n]),
                      Behind(n, k)', HasSideEffects(fn.code[At(n, k)].op)
               PROVE  At(n, k) \in useful
    BY <1>1 DEF RootsFound, At
  <2>1. Behind(n, k)
    BY <1>1, PassBlock
  <2> QED
    BY <2>1 DEF IInv, RootsFound
<1>4. NothingLost' /\ UselessErased'
  BY <1>1 DEF IInv, NothingLost, UselessErased
<1> QED
  BY <1>1, <1>2, <1>3, <1>4 DEF IInv

LEMMA ScanDoneInv == IInv /\ ScanDone => IInv'
<1> SUFFICES ASSUME IInv, ScanDone PROVE IInv'
  OBVIOUS
<1>1. TypeOK /\ AtEnd /\ pc = "roots" /\ pc' = "worklist"
      /\ UNCHANGED <<fn, useful, worklist, at, inst, operand>>
  BY DEF IInv, ScanDone
<1>2. TypeOK'
  BY <1>1 DEF TypeOK
<1>3. RootsFound'
  <2> SUFFICES ASSUME NEW n \in DOMAIN fn.order,
                      NEW k \in DOMAIN Ins(fn, fn.order[n]),
                      HasSideEffects(fn.code[At(n, k)].op)
               PROVE  At(n, k) \in useful
    BY <1>1 DEF RootsFound, At
  <2>1. Behind(n, k)
    BY <1>1, PassEnd
  <2> QED
    BY <2>1 DEF IInv, RootsFound
<1>4. NothingLost' /\ UselessErased'
  BY <1>1 DEF IInv, NothingLost, UselessErased
<1> QED
  BY <1>1, <1>2, <1>3, <1>4 DEF IInv

\* The worklist.
LEMMA PopInv == IInv /\ Pop => IInv'
<1> SUFFICES ASSUME IInv, Pop PROVE IInv'
  OBVIOUS
<1>1. /\ TypeOK /\ pc = "worklist" /\ worklist # <<>>
      /\ inst' = Head(worklist) /\ worklist' = Tail(worklist)
      /\ operand' = 1 /\ pc' = "operands"
      /\ UNCHANGED <<fn, useful, at>>
  BY DEF IInv, Pop
<1>2. /\ inst' \in useful /\ worklist' \in Seq(useful)
      /\ Range(worklist) = Range(worklist') \cup {inst'}
  BY <1>1, RangeOfTail DEF TypeOK
<1>3. TypeOK'
  BY <1>1, <1>2 DEF TypeOK
<1>4. NothingLost'
  <2> SUFFICES ASSUME NEW i \in useful, NEW k \in DOMAIN fn.code[i].args,
                      fn.code[i].args[k] \notin useful, i \notin Range(worklist')
               PROVE  inst' = i /\ operand' <= k
    BY <1>1 DEF NothingLost
  <2>1. i \in Range(worklist)
    BY <1>1 DEF IInv, NothingLost
  <2>2. fn.code[i].args \in Seq(Instrs(fn))
    BY <1>1, FunctionFacts DEF TypeOK
  <2>3. 1 <= k
    BY <2>2
  <2> QED
    BY <1>1, <1>2, <2>1, <2>3
<1>5. RootsFound' /\ UselessErased'
  BY <1>1 DEF IInv, RootsFound, UselessErased, At
<1> QED
  BY <1>1, <1>3, <1>4, <1>5 DEF IInv

LEMMA VisitOperandInv == IInv /\ VisitOperand => IInv'
<1> SUFFICES ASSUME IInv, VisitOperand PROVE IInv'
  OBVIOUS
<1> DEFINE d == fn.code[inst].args[operand]
<1>1. /\ TypeOK /\ pc = "operands" /\ operand <= Len(fn.code[inst].args)
      /\ operand' = operand + 1
      /\ UNCHANGED <<fn, pc, at, inst>>
  BY DEF IInv, VisitOperand
<1>2. inst \in useful /\ inst \in Instrs(fn) /\ inst \in Placed(fn)
  BY <1>1 DEF IInv, TypeOK
<1>3. fn.code[inst].args \in Seq(Instrs(fn)) /\ operand \in Nat \ {0}
  BY <1>1, <1>2, FunctionFacts DEF TypeOK
<1>4. d \in Range(fn.code[inst].args) /\ d \in Instrs(fn)
  BY <1>1, <1>3 DEF Range
<1>5. d \in Placed(fn)
  BY <1>1, <1>2, <1>4 DEF IInv, OperandsPlaced
<1>6. /\ useful' = useful \cup {d}
      /\ worklist' \in Seq(useful')
      /\ Range(worklist) \subseteq Range(worklist')
      /\ useful' \ useful \subseteq Range(worklist')
  <2>1. CASE d \notin useful
    BY <1>1, <2>1, EnqueueFacts DEF VisitOperand
  <2>2. CASE d \in useful
    <3>1. useful' = useful /\ worklist' = worklist
      BY <2>2 DEF VisitOperand
    <3> QED
      BY <1>1, <2>2, <3>1 DEF TypeOK
  <2> QED
    BY <2>1, <2>2
<1>7. TypeOK'
  BY <1>1, <1>2, <1>3, <1>4, <1>6 DEF TypeOK
<1>8. NothingLost'
  <2> SUFFICES ASSUME NEW i \in useful', NEW k \in DOMAIN fn.code[i].args,
                      fn.code[i].args[k] \notin useful', i \notin Range(worklist')
               PROVE  inst = i /\ operand + 1 <= k
    BY <1>1 DEF NothingLost
  <2>1. i \in useful
    BY <1>6
  <2>2. inst = i /\ operand <= k
    BY <1>1, <1>6, <2>1 DEF IInv, NothingLost
  <2>3. k # operand
    BY <1>6, <2>2
  <2> QED
    BY <1>3, <2>2, <2>3
<1>9. RootsFound' /\ UselessErased'
  BY <1>1, <1>6 DEF IInv, RootsFound, UselessErased, At
<1> QED
  BY <1>1, <1>5, <1>6, <1>7, <1>8, <1>9 DEF IInv

LEMMA OperandsDoneInv == IInv /\ OperandsDone => IInv'
<1> SUFFICES ASSUME IInv, OperandsDone PROVE IInv'
  OBVIOUS
<1>1. /\ TypeOK /\ pc = "operands" /\ operand > Len(fn.code[inst].args)
      /\ pc' = "worklist"
      /\ UNCHANGED <<fn, useful, worklist, at, inst, operand>>
  BY DEF IInv, OperandsDone
<1>2. TypeOK'
  BY <1>1 DEF TypeOK
<1>3. NothingLost'
  <2>1. fn.code[inst].args \in Seq(Instrs(fn)) /\ operand \in Nat
    BY <1>1, FunctionFacts DEF TypeOK
  <2>2. \A k \in DOMAIN fn.code[inst].args : ~(operand <= k)
    BY <1>1, <2>1
  <2> QED
    BY <1>1, <2>2 DEF IInv, NothingLost
<1>4. RootsFound' /\ UselessErased'
  BY <1>1 DEF IInv, RootsFound, UselessErased, At
<1> QED
  BY <1>1, <1>2, <1>3, <1>4 DEF IInv

LEMMA MarkedInv == IInv /\ Marked => IInv'
<1> SUFFICES ASSUME IInv, Marked PROVE IInv'
  OBVIOUS
<1>1. /\ TypeOK /\ pc = "worklist" /\ worklist = <<>>
      /\ pc' = "sweep" /\ at' = <<1, 1>>
      /\ UNCHANGED <<fn, useful, worklist, inst, operand>>
  BY DEF IInv, Marked
<1>2. TypeOK'
  BY <1>1, AtFacts DEF TypeOK
<1>3. NothingLost' /\ RootsFound'
  BY <1>1 DEF IInv, NothingLost, RootsFound, At
<1>4. UselessErased'
  <2>1. ASSUME NEW n \in DOMAIN fn.order, NEW k \in DOMAIN Ins(fn, fn.order[n])
        PROVE  ~ Behind(n, k)'
    BY <1>1, AtFacts DEF Behind
  <2> QED
    BY <1>1, <2>1 DEF UselessErased
<1> QED
  BY <1>1, <1>2, <1>3, <1>4 DEF IInv

-----------------------------------------------------------------------------
\* The sweep.

\* Once the scan is over every root that stands in a block is marked.
LEMMA RootsMarked ==
  ASSUME TypeOK, RootsFound, pc # "roots", NEW i \in Placed(fn),
         HasSideEffects(fn.code[i].op)
  PROVE  i \in useful
<1>1. IsFunction(fn)
  BY DEF TypeOK
<1>2. PICK n \in DOMAIN fn.order :
             \E k \in DOMAIN Ins(fn, fn.order[n]) : i = Ins(fn, fn.order[n])[k]
  BY <1>1, PlacedAt
<1> QED
  BY <1>2 DEF RootsFound, At

LEMMA EraseFacts ==
  ASSUME TypeOK, AtInstr, fn' = Without(fn, AtBlock, at[2])
  PROVE  /\ IsFunction(fn') /\ fn'.order = fn.order /\ fn'.code = fn.code
         /\ Blocks(fn') = Blocks(fn)
         /\ \A b \in Blocks(fn) \ {AtBlock} : Ins(fn', b) = Ins(fn, b)
         /\ Ins(fn', AtBlock) = RemoveAt(Ins(fn, AtBlock), at[2])
         /\ Placed(fn') \subseteq Placed(fn)
         /\ Placed(fn) \subseteq Placed(fn') \cup {Ins(fn, AtBlock)[at[2]]}
<1>1. IsFunction(fn) /\ AtBlock \in Blocks(fn) /\ at[2] \in DOMAIN Ins(fn, AtBlock)
  BY HereFacts DEF TypeOK
<1>2. /\ IsFunction(fn') /\ fn'.order = fn.order /\ fn'.code = fn.code
      /\ Blocks(fn') = Blocks(fn)
      /\ \A b \in Blocks(fn) : Ins(fn', b) = IF b = AtBlock
                                              THEN RemoveAt(Ins(fn, AtBlock), at[2])
                                              ELSE Ins(fn, b)
  BY <1>1, WithoutFacts
<1>3. Ins(fn, AtBlock) \in Seq(Instrs(fn)) /\ at[2] \in 1 .. Len(Ins(fn, AtBlock))
  BY <1>1, FunctionFacts
<1>4. /\ Range(Ins(fn', AtBlock)) \subseteq Range(Ins(fn, AtBlock))
      /\ Range(Ins(fn, AtBlock)) \subseteq
           Range(Ins(fn', AtBlock)) \cup {Ins(fn, AtBlock)[at[2]]}
  BY <1>1, <1>2, <1>3, RemoveAtProperties
<1>5. Range(fn.order) \subseteq Blocks(fn)
  BY <1>1, FunctionFacts DEF Range
<1>6. \A b \in Blocks(fn) :
        /\ Range(Ins(fn', b)) \subseteq Range(Ins(fn, b))
        /\ Range(Ins(fn, b)) \subseteq
             Range(Ins(fn', b)) \cup {Ins(fn, AtBlock)[at[2]]}
  BY <1>2, <1>4
<1>7. \A b \in Range(fn.order) :
        /\ Range(Ins(fn', b)) \subseteq Range(Ins(fn, b))
        /\ Range(Ins(fn, b)) \subseteq
             Range(Ins(fn', b)) \cup {Ins(fn, AtBlock)[at[2]]}
  BY <1>5, <1>6
<1>8. /\ Placed(fn') \subseteq Placed(fn)
      /\ Placed(fn) \subseteq Placed(fn') \cup {Ins(fn, AtBlock)[at[2]]}
  BY <1>2, <1>7 DEF Placed
<1> QED
  BY <1>1, <1>2, <1>8

LEMMA EraseInv == IInv /\ SweepInstr /\ Ins(fn, AtBlock)[at[2]] \notin useful => IInv'
<1> SUFFICES ASSUME IInv, SweepInstr, Ins(fn, AtBlock)[at[2]] \notin useful
             PROVE  IInv'
  OBVIOUS
<1>1. /\ TypeOK /\ AtInstr /\ pc = "sweep"
      /\ fn' = Without(fn, AtBlock, at[2])
      /\ UNCHANGED <<useful, worklist, pc, at, inst, operand>>
  BY DEF IInv, SweepInstr
<1>2. /\ IsFunction(fn') /\ fn'.order = fn.order /\ fn'.code = fn.code
      /\ Placed(fn') \subseteq Placed(fn)
  BY <1>1, EraseFacts
<1>3. TypeOK'
  BY <1>1, <1>2 DEF TypeOK, Instrs
<1>4. NothingLost'
  BY <1>1, <1>2 DEF IInv, NothingLost
<1>5. useful' \subseteq Placed(fn')
  BY <1>1, EraseFacts DEF IInv
<1>6. RootsFound'
  <2> SUFFICES ASSUME NEW n \in DOMAIN fn'.order,
                      NEW k \in DOMAIN Ins(fn', fn'.order[n]),
                      HasSideEffects(fn'.code[Ins(fn', fn'.order[n])[k]].op)
               PROVE  Ins(fn', fn'.order[n])[k] \in useful
    BY <1>1 DEF RootsFound, At
  <2>1. Ins(fn', fn'.order[n])[k] \in Placed(fn)
    BY <1>2, PlacedAt
  <2> QED
    BY <1>1, <1>2, <2>1, RootsMarked DEF IInv
<1>7. UselessErased'
  <2> SUFFICES ASSUME NEW n \in DOMAIN fn.order,
                      NEW k \in DOMAIN Ins(fn', fn.order[n]), Behind(n, k)
               PROVE  Ins(fn', fn.order[n])[k] \in useful
    BY <1>1, <1>2 DEF UselessErased, At, Behind
  <2>1. fn.order[n] \in Blocks(fn) /\ n \in Int /\ at[1] \in Int /\ at[2] \in Int
    BY <1>1, AtFacts
  <2>2. CASE fn.order[n] # AtBlock
    <3>1. Ins(fn', fn.order[n]) = Ins(fn, fn.order[n])
      BY <1>1, <2>1, <2>2, EraseFacts
    <3> QED
      BY <1>1, <3>1 DEF IInv, UselessErased, At
  <2>3. CASE fn.order[n] = AtBlock
    <3>1. at[2] \in DOMAIN Ins(fn, fn.order[n])
      BY <1>1, <2>3, HereFacts
    <3>2. ~ Behind(n, at[2])
      BY <1>1, <2>3, <3>1 DEF IInv, UselessErased, At
    <3>3. n = at[1] /\ k < at[2]
      BY <2>1, <3>2 DEF Behind
    <3>4. Ins(fn', AtBlock) = RemoveAt(Ins(fn, AtBlock), at[2])
      BY <1>1, EraseFacts
    <3>5. /\ Ins(fn, AtBlock) \in Seq(Instrs(fn)) /\ Ins(fn', AtBlock) \in Seq(Instrs(fn))
          /\ at[2] \in 1 .. Len(Ins(fn, AtBlock))
      BY <1>1, <2>1, <2>3, <3>1, <3>4, FunctionFacts, RemoveAtProperties DEF TypeOK
    <3>6. k \in 1 .. at[2] - 1 /\ k \in DOMAIN Ins(fn, AtBlock)
      BY <2>3, <3>3, <3>5
    <3>7. Ins(fn', AtBlock)[k] = Ins(fn, AtBlock)[k]
      BY <3>4, <3>5, <3>6, RemoveAtProperties
    <3> QED
      BY <1>1, <2>3, <3>6, <3>7 DEF IInv, UselessErased, At
  <2> QED
    BY <2>2, <2>3
<1> QED
  BY <1>1, <1>3, <1>4, <1>5, <1>6, <1>7 DEF IInv

LEMMA SweepInstrInv == IInv /\ SweepInstr => IInv'
<1> SUFFICES ASSUME IInv, SweepInstr, Ins(fn, AtBlock)[at[2]] \in useful PROVE IInv'
  BY EraseInv
<1>1. /\ TypeOK /\ AtInstr /\ NextInstr /\ pc = "sweep"
      /\ UNCHANGED <<fn, useful, worklist, pc, inst, operand>>
  BY DEF IInv, SweepInstr
<1>2. TypeOK'
  BY <1>1, AtFacts DEF TypeOK, NextInstr
<1>3. NothingLost' /\ RootsFound'
  BY <1>1 DEF IInv, NothingLost, RootsFound, At
<1>4. UselessErased'
  <2> SUFFICES ASSUME NEW n \in DOMAIN fn.order,
                      NEW k \in DOMAIN Ins(fn, fn.order[n]), Behind(n, k)'
               PROVE  At(n, k) \in useful
    BY <1>1 DEF UselessErased, At
  <2>1. CASE Behind(n, k)
    BY <1>1, <2>1 DEF IInv, UselessErased
  <2>2. CASE n = at[1] /\ k = at[2]
    BY <2>2 DEF At, AtBlock
  <2> QED
    BY <1>1, <2>1, <2>2, PassInstr
<1> QED
  BY <1>1, <1>2, <1>3, <1>4 DEF IInv

LEMMA SweepBlockInv == IInv /\ SweepBlock => IInv'
<1> SUFFICES ASSUME IInv, SweepBlock PROVE IInv'
  OBVIOUS
<1>1. TypeOK /\ AtBlockEnd /\ NextBlock /\ pc = "sweep"
      /\ UNCHANGED <<fn, useful, worklist, pc, inst, operand>>
  BY DEF IInv, SweepBlock
<1>2. TypeOK'
  BY <1>1, AtFacts DEF TypeOK, NextBlock, AtBlockEnd
<1>3. NothingLost' /\ RootsFound'
  BY <1>1 DEF IInv, NothingLost, RootsFound, At
<1>4. UselessErased'
  <2> SUFFICES ASSUME NEW n \in DOMAIN fn.order,
                      NEW k \in DOMAIN Ins(fn, fn.order[n]), Behind(n, k)'
               PROVE  At(n, k) \in useful
    BY <1>1 DEF UselessErased, At
  <2>1. Behind(n, k)
    BY <1>1, PassBlock
  <2> QED
    BY <1>1, <2>1 DEF IInv, UselessErased
<1> QED
  BY <1>1, <1>2, <1>3, <1>4 DEF IInv

LEMMA SweepDoneInv == IInv /\ SweepDone => IInv'
<1> SUFFICES ASSUME IInv, SweepDone PROVE IInv'
  OBVIOUS
<1>1. TypeOK /\ AtEnd /\ pc = "sweep" /\ pc' = "done"
      /\ UNCHANGED <<fn, useful, worklist, at, inst, operand>>
  BY DEF IInv, SweepDone
<1>2. TypeOK'
  BY <1>1 DEF TypeOK
<1>3. NothingLost' /\ RootsFound'
  BY <1>1 DEF IInv, NothingLost, RootsFound, At
<1>4. UselessErased'
  <2> SUFFICES ASSUME NEW n \in DOMAIN fn.order,
                      NEW k \in DOMAIN Ins(fn, fn.order[n])
               PROVE  At(n, k) \in useful
    BY <1>1 DEF UselessErased, At
  <2>1. Behind(n, k)
    BY <1>1, PassEnd
  <2> QED
    BY <1>1, <2>1 DEF IInv, UselessErased
<1> QED
  BY <1>1, <1>2, <1>3, <1>4 DEF IInv

LEMMA StepInv == IInv /\ [Next]_vars => IInv'
<1> SUFFICES ASSUME IInv, [Next]_vars PROVE IInv'
  OBVIOUS
<1>1. CASE UNCHANGED vars
  BY <1>1 DEF vars, IInv, TypeOK, NothingLost, RootsFound, UselessErased, Behind, At
<1>2. CASE Terminated
  BY <1>1, <1>2 DEF Terminated
<1> QED
  BY <1>1, <1>2, ScanInstrInv, ScanBlockInv, ScanDoneInv, PopInv, VisitOperandInv,
     OperandsDoneInv, MarkedInv, SweepInstrInv, SweepBlockInv, SweepDoneInv
     DEF Next

THEOREM Invariant == Spec => []IInv
  BY InitInv, StepInv, PTL DEF Spec

-----------------------------------------------------------------------------
\* The marks are always instructions of the function, the queue holds marks,
\* and erasing leaves a function.
THEOREM TypeCorrect == Spec => []TypeOK
<1>1. IInv => TypeOK
  BY DEF IInv
<1> QED
  BY <1>1, Invariant, PTL

\* get_useful() never forgets an operand of what it marked, for any function
\* and any order of its blocks.
THEOREM OperandsNeverLost == Spec => []NothingLost
<1>1. IInv => NothingLost
  BY DEF IInv
<1> QED
  BY <1>1, Invariant, PTL

\* Once run() is over, whatever an instruction reads still stands in a block.
THEOREM NothingDangles == Spec => []NoDanglingOperand
<1>1. IInv => NoDanglingOperand
  <2> SUFFICES ASSUME IInv, pc = "done", NEW i \in Placed(fn),
                      NEW v \in Range(fn.code[i].args)
               PROVE  v \in Placed(fn)
    BY DEF NoDanglingOperand
  <2>0. IsFunction(fn)
    BY DEF IInv, TypeOK
  <2>1. PICK n \in DOMAIN fn.order :
               \E k \in DOMAIN Ins(fn, fn.order[n]) : i = Ins(fn, fn.order[n])[k]
    BY <2>0, PlacedAt
  <2>2. i \in useful
    BY <2>1 DEF IInv, UselessErased, At
  <2>3. PICK k \in DOMAIN fn.code[i].args : v = fn.code[i].args[k]
    BY DEF Range
  <2>4. Range(worklist) = {}
    BY DEF IInv, Range
  <2>5. v \in useful
    BY <2>2, <2>3, <2>4 DEF IInv, NothingLost
  <2> QED
    BY <2>5 DEF IInv
<1> QED
  BY <1>1, Invariant, PTL

-----------------------------------------------------------------------------
\* Every step of the pass is a step of the abstract marking loop, or none.

LEMMA MarkingStep == IInv /\ IInv' /\ [Next]_vars => [Marking!Next]_(Marking!vars)
<1> SUFFICES ASSUME IInv, IInv', [Next]_vars
             PROVE  Marking!Next \/ UNCHANGED Marking!vars
  BY DEF Marking!vars
<1> DEFINE G == [roots |-> Roots, to |-> [i \in Instrs(fn) |-> Range(fn.code[i].args)]]
           done == pc \in {"sweep", "done"}
<1>0. TypeOK
  BY DEF IInv
<1>1. ASSUME UNCHANGED fn PROVE G' = G
  BY <1>1 DEF Roots
<1>2. ASSUME UNCHANGED <<fn, useful>>, done' = done PROVE UNCHANGED Marking!vars
  BY <1>1, <1>2 DEF Marking!vars
<1>3. ASSUME NEW i \in Instrs(fn), UNCHANGED fn, ~ done, ~ done',
             i \notin useful, useful' = useful \cup {i},
             i \in Roots \/ \E j \in useful : i \in Range(fn.code[j].args)
      PROVE  Marking!Next
  <2>1. Marking!Mark(i)
    BY <1>0, <1>1, <1>3 DEF Marking!Mark, TypeOK
  <2> QED
    BY <2>1 DEF Marking!Next
<1>4. CASE ScanInstr
  <2> DEFINE i == Ins(fn, AtBlock)[at[2]]
  <2>1. /\ AtInstr /\ ~ done /\ ~ done' /\ UNCHANGED fn
        /\ IF HasSideEffects(fn.code[i].op) THEN Enqueue(i)
           ELSE UNCHANGED <<useful, worklist>>
    BY <1>4 DEF ScanInstr
  <2>2. i \in Instrs(fn) /\ i \in Placed(fn)
    BY <1>0, <2>1, HereFacts
  <2> HIDE DEF i, G
  <2>3. CASE HasSideEffects(fn.code[i].op) /\ i \notin useful
    BY <1>3, <2>1, <2>2, <2>3 DEF Roots, Enqueue
  <2>4. CASE ~(HasSideEffects(fn.code[i].op) /\ i \notin useful)
    <3>1. useful' = useful
      BY <2>1, <2>4 DEF Enqueue
    <3>2. UNCHANGED <<fn, useful>> /\ done' = done
      BY <2>1, <3>1
    <3> QED
      BY <1>2, <3>2
  <2> QED
    BY <2>3, <2>4
<1>5. CASE VisitOperand
  <2> DEFINE d == fn.code[inst].args[operand]
  <2>1. /\ ~ done /\ ~ done' /\ UNCHANGED fn
        /\ pc = "operands" /\ operand <= Len(fn.code[inst].args)
        /\ IF d \notin useful THEN Enqueue(d) ELSE UNCHANGED <<useful, worklist>>
    BY <1>5 DEF VisitOperand
  <2>2. inst \in useful /\ fn.code[inst].args \in Seq(Instrs(fn))
    BY <1>0, <2>1, FunctionFacts DEF TypeOK
  <2>3. d \in Instrs(fn) /\ d \in Range(fn.code[inst].args)
    BY <1>0, <2>1, <2>2 DEF TypeOK, Range
  <2> HIDE DEF d, G
  <2>4. CASE d \notin useful
    BY <1>3, <2>1, <2>2, <2>3, <2>4 DEF Enqueue
  <2>5. CASE d \in useful
    BY <1>2, <2>1, <2>5
  <2> QED
    BY <2>4, <2>5
<1>6. CASE Marked
  <2>1. /\ pc = "worklist" /\ worklist = <<>> /\ ~ done /\ done'
        /\ UNCHANGED <<fn, useful>>
    BY <1>6 DEF Marked
  <2>2. Roots \subseteq useful
    BY <1>0, <2>1, RootsMarked DEF Roots, IInv
  <2>3. ASSUME NEW x \in useful, NEW v \in Range(fn.code[x].args) PROVE v \in useful
    BY <2>1 DEF IInv, NothingLost, Range
  <2>4. Marking!Closed(useful)
    BY <1>0, <2>2, <2>3 DEF Marking!Closed, TypeOK
  <2>5. Marking!Finish
    BY <1>1, <2>1, <2>4 DEF Marking!Finish
  <2> QED
    BY <2>5 DEF Marking!Next
<1>7. CASE SweepInstr
  <2>1. done /\ done' /\ useful' = useful /\ AtInstr /\ pc = "sweep"
    BY <1>7 DEF SweepInstr
  <2>2. CASE Ins(fn, AtBlock)[at[2]] \in useful
    BY <1>2, <1>7, <2>1, <2>2 DEF SweepInstr
  <2>3. CASE Ins(fn, AtBlock)[at[2]] \notin useful
    <3>1. fn' = Without(fn, AtBlock, at[2])
      BY <1>7, <2>3 DEF SweepInstr
    <3>2. fn'.code = fn.code /\ Placed(fn') \subseteq Placed(fn)
      BY <1>0, <2>1, <3>1, EraseFacts
    <3>3. \A i \in Placed(fn) : HasSideEffects(fn.code[i].op) => i \in useful
      BY <1>0, <2>1, RootsMarked DEF IInv
    <3>4. useful \subseteq Placed(fn')
      BY <2>1 DEF IInv
    <3>5. Roots' = Roots
      BY <3>2, <3>3, <3>4 DEF Roots
    <3>6. G' = G
      BY <3>2, <3>5 DEF Instrs
    <3> QED
      BY <2>1, <3>6 DEF Marking!vars
  <2> QED
    BY <2>2, <2>3
<1>8. CASE ScanBlock \/ ScanDone \/ Pop \/ OperandsDone \/ SweepBlock \/ SweepDone
           \/ Terminated \/ UNCHANGED vars
  <2>1. UNCHANGED <<fn, useful>> /\ done' = done
    BY <1>8 DEF ScanBlock, ScanDone, Pop, OperandsDone, SweepBlock, SweepDone,
                Terminated, vars
  <2> QED
    BY <1>2, <2>1
<1> QED
  BY <1>4, <1>5, <1>6, <1>7, <1>8 DEF Next

\* The pass implements the marking loop of Closure, its fairness apart: it
\* marks only what a side effect needs and sweeps only once that is closed.
THEOREM ImplementsMarking == Spec => Marking!Init /\ [][Marking!Next]_(Marking!vars)
<1>1. Init => Marking!Init
  BY DEF Init, Marking!Init
<1> QED
  BY <1>1, MarkingStep, Invariant, PTL DEF Spec
=============================================================================
