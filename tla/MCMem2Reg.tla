------------------------------ MODULE MCMem2Reg ------------------------------
(***************************************************************************)
(* Functions as control flow simplification hands them over, and graphs of *)
(* every shape: four blocks with nothing in them for the dominators, and   *)
(* three blocks around one variable that each of them calls g with and may *)
(* then store to.                                                          *)
(***************************************************************************)
EXTENDS Mem2RegSound, Programs

Promoted == {counter_scfg, breakout_scfg, shortcut_scfg, merge_scfg, nested_scfg,
             rotate2_scfg}

\* No successor, one, or two.
Ways(S) == {<<>>} \cup {<<b>> : b \in S} \cup (S \X S)
Forward(S) == {s \in Ways(S) : Len(s) = 2 => s[1] < s[2]}

Preds(succ, b) == SelectSeq([p \in DOMAIN succ |-> p], LAMBDA p : b \in Range(succ[p]))

\* A function of Len(succ) blocks with the code and instruction lists given.
Shape(succ, code, ins) ==
  Fn(1, [b \in DOMAIN succ |-> b],
     [b \in DOMAIN succ |-> Block(ins[b], succ[b], Preds(succ, b))], code,
     [i \in DOMAIN code |-> SelectSeq(FlattenSeq(ins), LAMBDA u : i \in Range(code[u].args))])

Connected(f) == Reachable(f) = Range(f.order)

Graphs == {f \in {Shape(<<s>> \o t, <<>>, <<<<>>, <<>>, <<>>, <<>>>>) :
                    s \in {<<2>>, <<2, 3>>}, t \in [1 .. 3 -> Forward(1 .. 4)]} :
             Connected(f)}

\* Block b reads the variable and stores b to it if it is one of S.
Variable(succ, S) ==
  LET end(b) == IF succ[b] = <<>> THEN Op("ret", NoType, <<>>)
                ELSE IF Len(succ[b]) = 1 THEN Br(succ[b][1])
                ELSE CondBr(5 * b, succ[b][1], succ[b][2])
      code(b) == <<Op("load", I32, <<1>>), Call(Bool, 0, <<5 * b - 1>>),
                   IConst(I32, b), Op("store", NoType, <<1, 5 * b + 1>>), end(b)>>
      first(b) == 5 * b - 1
  IN  Shape(succ,
            <<Op("alloca", I32, <<>>), IConst(I32, 0), Op("store", NoType, <<1, 2>>)>>
            \o code(1) \o code(2) \o code(3),
            [b \in 1 .. 3 |->
               (IF b = 1 THEN <<1, 2, 3>> ELSE <<>>) \o <<first(b), first(b) + 1>>
               \o (IF b \in S THEN <<first(b) + 2, first(b) + 3>> ELSE <<>>) \o <<first(b) + 4>>])

Variables == {f \in {Variable(<<s>> \o t, S) :
                       s \in {<<2>>, <<2, 3>>}, t \in [1 .. 2 -> Forward({2, 3})],
                       S \in SUBSET {2, 3}} : Connected(f)}

MCFunctions == Promoted \cup Graphs \cup Variables
MCSamples == {0, 2, 4095}
=============================================================================
