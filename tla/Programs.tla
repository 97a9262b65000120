------------------------------ MODULE Programs ------------------------------
(***************************************************************************)
(* Functions in the form the passes see them: each is the function that    *)
(* the compiler built for the source text above it, dumped after the pass  *)
(* its name ends with (cfg: the CFG builder; scfg: simplify_cfg; ssa:      *)
(* mem2reg).                                                               *)
(* The parent of an instruction that was erased from its block is not      *)
(* read by anything and is the entry here.                                 *)
(* Integer types are scaled down to the word TLC can multiply in; the      *)
(* literals of the programs fit the scaled types.                          *)
(***************************************************************************)
EXTENDS Ir, TLC

I8 == [kind |-> "_int", bits |-> 8]
I32 == [kind |-> "_int", bits |-> 12]
U8 == [kind |-> "_uint", bits |-> 8]
Unit == [kind |-> "_unit", bits |-> 8]

Code(op, ty, args) ==
  [op |-> op, ty |-> ty, args |-> args, k |-> 0, tgt |-> <<>>, inc |-> <<>>]

Op(op, ty, args) == Code(op, ty, args)
IConst(ty, k) == [Code("iconst", ty, <<>>) EXCEPT !.k = k]
BConst(k) == [Code("bconst", Bool, <<>>) EXCEPT !.k = k]
Param(ty, k) == [Code("param", ty, <<>>) EXCEPT !.k = k]
Call(ty, k, args) == [Code("call", ty, args) EXCEPT !.k = k]
Br(label) == [Code("br", NoType, <<>>) EXCEPT !.tgt = <<label>>]
CondBr(cond, yes, no) ==
  [Code("cond_br", NoType, <<cond>>) EXCEPT !.tgt = <<yes, no>>]
Phi(ty, args, inc) == [Code("phi", ty, args) EXCEPT !.inc = inc]

Block(ins, succ, pred) == [ins |-> ins, succ |-> succ, pred |-> pred]

Fn(entry, order, block, code, users) ==
  LET holders(i) == {b \in DOMAIN block : i \in Range(block[b].ins)}
      parent(i) == IF holders(i) = {} THEN entry ELSE CHOOSE b \in holders(i) : TRUE
  IN  [entry |-> entry, order |-> order, block |-> block, users |-> users,
       code |-> [i \in DOMAIN code |-> code[i] @@ [parent |-> parent(i)]]]

\* fn foo() -> i32 {
\*     let x: i32 = 1;
\*     let j = if x > 1 { 1 } else { 2 };
\*     j
\* }
sccp01_cfg ==
  Fn(1, <<1, 2, 3, 4>>,
    <<Block(<<1, 2, 3, 4, 5, 6, 7, 8, 9>>, <<2, 3>>, <<>>),
      Block(<<10, 11, 12>>, <<4>>, <<1>>),
      Block(<<13, 14, 15>>, <<4>>, <<1>>),
      Block(<<16, 17, 18, 19>>, <<>>, <<2, 3>>)>>,
    <<Op("alloca", I32, <<>>), IConst(I32, 1), Op("store", NoType, <<1, 2>>),
      Op("alloca", I32, <<>>), Op("alloca", I32, <<>>), IConst(I32, 1),
      Op("load", I32, <<1>>), Op("slt", Bool, <<6, 7>>), CondBr(8, 1, 2),
      IConst(I32, 1), Op("store", NoType, <<5, 10>>), Br(3), IConst(I32, 2),
      Op("store", NoType, <<5, 13>>), Br(3), Op("load", I32, <<5>>),
      Op("store", NoType, <<4, 16>>), Op("load", I32, <<4>>),
      Op("ret", NoType, <<18>>)>>,
    <<<<3, 7>>, <<3>>, <<>>, <<17, 18>>, <<11, 14, 16>>, <<8>>, <<8>>, <<9>>,
      <<>>, <<11>>, <<>>, <<>>, <<14>>, <<>>, <<>>, <<17>>, <<>>, <<19>>,
      <<>>>>)
sccp01_ssa ==
  Fn(1, <<1, 2, 3, 4>>,
    <<Block(<<1, 2, 3, 4>>, <<2, 3>>, <<>>), Block(<<5, 6>>, <<4>>, <<1>>),
      Block(<<7, 8>>, <<4>>, <<1>>), Block(<<9, 10>>, <<>>, <<2, 3>>)>>,
    <<IConst(I32, 1), IConst(I32, 1), Op("slt", Bool, <<2, 1>>),
      CondBr(3, 1, 2), IConst(I32, 1), Br(3), IConst(I32, 2), Br(3),
      Phi(I32, <<5, 7>>, 2 :> 5 @@ 3 :> 7), Op("ret", NoType, <<9>>)>>,
    <<<<3>>, <<3>>, <<4>>, <<>>, <<9>>, <<>>, <<9>>, <<>>, <<10>>, <<>>>>)
sccp01_sccp ==
  Fn(1, <<1, 2, 3, 4>>,
    <<Block(<<1, 2, 3, 4>>, <<3>>, <<>>), Block(<<5, 6>>, <<4>>, <<1>>),
      Block(<<7, 8>>, <<4>>, <<1>>), Block(<<9, 10>>, <<>>, <<2, 3>>)>>,
    <<IConst(I32, 1), IConst(I32, 1), BConst(0), Br(2), IConst(I32, 1), Br(3),
      IConst(I32, 2), Br(3), IConst(I32, 2), Op("ret", NoType, <<9>>)>>,
    <<<<>>, <<>>, <<>>, <<>>, <<>>, <<>>, <<>>, <<>>, <<10>>, <<>>>>)
sccp01_dce ==
  Fn(1, <<1, 2, 3, 4>>,
    <<Block(<<1>>, <<3>>, <<>>), Block(<<2>>, <<4>>, <<1>>),
      Block(<<3>>, <<4>>, <<1>>), Block(<<4, 5>>, <<>>, <<2, 3>>)>>,
    <<Br(2), Br(3), Br(3), IConst(I32, 2), Op("ret", NoType, <<4>>)>>,
    <<<<>>, <<>>, <<>>, <<5>>, <<>>>>)

\* fn f(n: i32) -> i32 { let mut x = 1; let mut i = 0; while i < n { if x ==
\* 2 { x = 3; } i = i + 1; } return x; }
invariant_ssa ==
  Fn(1, <<1, 2, 3, 4, 5, 6>>,
    <<Block(<<1, 2, 3>>, <<2>>, <<>>),
      Block(<<4, 5, 6, 7, 8>>, <<3, 6>>, <<1, 5>>),
      Block(<<9, 10, 11>>, <<4, 5>>, <<2>>), Block(<<12, 13>>, <<5>>, <<3>>),
      Block(<<14, 15, 16, 17>>, <<2>>, <<4, 3>>), Block(<<18>>, <<>>, <<2>>)>>,
    <<Param(I32, 0), IConst(I32, 1), IConst(I32, 0),
      Phi(I32, <<2, 14>>, 1 :> 2 @@ 5 :> 14),
      Phi(I32, <<3, 16>>, 1 :> 3 @@ 5 :> 16), Op("load", I32, <<1>>),
      Op("slt", Bool, <<5, 6>>), CondBr(7, 2, 3), IConst(I32, 2),
      Op("eq", Bool, <<4, 9>>), CondBr(10, 4, 5), IConst(I32, 3), Br(6),
      Phi(I32, <<4, 12>>, 3 :> 4 @@ 4 :> 12), IConst(I32, 1),
      Op("add", I32, <<5, 15>>), Br(1), Op("ret", NoType, <<4>>)>>,
    <<<<6>>, <<4>>, <<5>>, <<10, 18, 14>>, <<7, 16>>, <<7>>, <<8>>, <<>>,
      <<10>>, <<11>>, <<>>, <<14>>, <<>>, <<4>>, <<16>>, <<5>>, <<>>, <<>>>>)

\* fn f(c: bool) -> i32 { let mut i = 0; while true { if c { break; } i = i +
\* 1; } return i; }
breakout_cfg ==
  Fn(1, <<1, 2, 3, 4, 5, 6, 7>>,
    <<Block(<<1, 2, 3, 4>>, <<2>>, <<>>), Block(<<5, 6>>, <<3, 7>>, <<1, 6>>),
      Block(<<7, 8>>, <<4, 5>>, <<2>>), Block(<<9>>, <<7>>, <<3>>),
      Block(<<10>>, <<6>>, <<3>>),
      Block(<<11, 12, 13, 14, 15>>, <<2>>, <<5>>),
      Block(<<16, 17>>, <<>>, <<2, 4>>)>>,
    <<Param(Bool, 0), Op("alloca", I32, <<>>), IConst(I32, 0),
      Op("store", NoType, <<2, 3>>), BConst(1), CondBr(5, 2, 3),
      Op("load", Bool, <<1>>), CondBr(7, 4, 5), Br(3), Br(6),
      Op("load", I32, <<2>>), IConst(I32, 1), Op("add", I32, <<11, 12>>),
      Op("store", NoType, <<2, 13>>), Br(1), Op("load", I32, <<2>>),
      Op("ret", NoType, <<16>>)>>,
    <<<<7>>, <<4, 11, 14, 16>>, <<4>>, <<>>, <<6>>, <<>>, <<8>>, <<>>, <<>>,
      <<>>, <<13>>, <<13>>, <<14>>, <<>>, <<>>, <<17>>, <<>>>>)
breakout_scfg ==
  Fn(1, <<1, 2, 3, 4, 5>>,
    <<Block(<<1, 2, 3, 4>>, <<2>>, <<>>), Block(<<5, 6>>, <<3, 5>>, <<1, 4>>),
      Block(<<7, 8>>, <<5, 4>>, <<2>>),
      Block(<<9, 10, 11, 12, 13>>, <<2>>, <<3>>),
      Block(<<14, 15>>, <<>>, <<2, 3>>)>>,
    <<Param(Bool, 0), Op("alloca", I32, <<>>), IConst(I32, 0),
      Op("store", NoType, <<2, 3>>), BConst(1), CondBr(5, 2, 3),
      Op("load", Bool, <<1>>), CondBr(7, 4, 5), Op("load", I32, <<2>>),
      IConst(I32, 1), Op("add", I32, <<9, 10>>),
      Op("store", NoType, <<2, 11>>), Br(1), Op("load", I32, <<2>>),
      Op("ret", NoType, <<14>>)>>,
    <<<<7>>, <<4, 9, 12, 14>>, <<4>>, <<>>, <<6>>, <<>>, <<8>>, <<>>, <<11>>,
      <<11>>, <<12>>, <<>>, <<>>, <<15>>, <<>>>>)
breakout_ssa ==
  Fn(1, <<1, 2, 3, 4, 5>>,
    <<Block(<<1, 2>>, <<2>>, <<>>), Block(<<3, 4, 5>>, <<3, 5>>, <<1, 4>>),
      Block(<<6, 7>>, <<5, 4>>, <<2>>), Block(<<8, 9, 10>>, <<2>>, <<3>>),
      Block(<<11>>, <<>>, <<2, 3>>)>>,
    <<Param(Bool, 0), IConst(I32, 0), Phi(I32, <<2, 9>>, 1 :> 2 @@ 4 :> 9),
      BConst(1), CondBr(4, 2, 3), Op("load", Bool, <<1>>), CondBr(6, 4, 5),
      IConst(I32, 1), Op("add", I32, <<3, 8>>), Br(1),
      Op("ret", NoType, <<3>>)>>,
    <<<<6>>, <<3>>, <<9, 11>>, <<5>>, <<>>, <<7>>, <<>>, <<9>>, <<3>>, <<>>,
      <<>>>>)
breakout_sccp ==
  Fn(1, <<1, 2, 3, 4, 5>>,
    <<Block(<<1, 2>>, <<2>>, <<>>), Block(<<3, 4, 5>>, <<3>>, <<1, 4>>),
      Block(<<6, 7>>, <<5, 4>>, <<2>>), Block(<<8, 9, 10>>, <<2>>, <<3>>),
      Block(<<11>>, <<>>, <<2, 3>>)>>,
    <<Param(Bool, 0), IConst(I32, 0), Phi(I32, <<2, 9>>, 1 :> 2 @@ 4 :> 9),
      BConst(1), Br(2), Op("load", Bool, <<1>>), CondBr(6, 4, 5),
      IConst(I32, 1), Op("add", I32, <<3, 8>>), Br(1),
      Op("ret", NoType, <<3>>)>>,
    <<<<6>>, <<3>>, <<9, 11>>, <<>>, <<>>, <<7>>, <<>>, <<9>>, <<3>>, <<>>,
      <<>>>>)
breakout_dce ==
  Fn(1, <<1, 2, 3, 4, 5>>,
    <<Block(<<1, 2>>, <<2>>, <<>>), Block(<<3, 4>>, <<3>>, <<1, 4>>),
      Block(<<5, 6>>, <<5, 4>>, <<2>>), Block(<<7, 8, 9>>, <<2>>, <<3>>),
      Block(<<10>>, <<>>, <<2, 3>>)>>,
    <<Param(Bool, 0), IConst(I32, 0), Phi(I32, <<2, 8>>, 1 :> 2 @@ 4 :> 8),
      Br(2), Op("load", Bool, <<1>>), CondBr(5, 4, 5), IConst(I32, 1),
      Op("add", I32, <<3, 7>>), Br(1), Op("ret", NoType, <<3>>)>>,
    <<<<5>>, <<3>>, <<8, 10>>, <<>>, <<6>>, <<>>, <<8>>, <<3>>, <<>>, <<>>>>)

\* fn f(a: bool, n: i32) -> bool { let t = n < 3; return (t && 1 < 2) || a; }
shortcut_cfg ==
  Fn(1, <<1, 2, 3, 4, 5, 6, 7>>,
    <<Block(<<1, 2, 3, 4, 5, 6, 7, 8, 9, 10, 11>>, <<3, 2>>, <<>>),
      Block(<<12, 13, 14>>, <<4>>, <<1>>),
      Block(<<15, 16, 17, 18, 19>>, <<4>>, <<1>>),
      Block(<<20, 21>>, <<5, 6>>, <<2, 3>>),
      Block(<<22, 23, 24>>, <<7>>, <<4>>),
      Block(<<25, 26, 27>>, <<7>>, <<4>>), Block(<<28, 29>>, <<>>, <<5, 6>>)>>,
    <<Param(Bool, 0), Param(I32, 1), Op("alloca", Bool, <<>>),
      Op("load", I32, <<2>>), IConst(I32, 3), Op("slt", Bool, <<4, 5>>),
      Op("store", NoType, <<3, 6>>), Op("alloca", Bool, <<>>),
      Op("alloca", Bool, <<>>), Op("load", Bool, <<3>>), CondBr(10, 4, 5),
      BConst(0), Op("store", NoType, <<9, 12>>), Br(6), IConst(I32, 1),
      IConst(I32, 2), Op("slt", Bool, <<15, 16>>),
      Op("store", NoType, <<9, 17>>), Br(6), Op("load", Bool, <<9>>),
      CondBr(20, 1, 2), BConst(1), Op("store", NoType, <<8, 22>>), Br(3),
      Op("load", Bool, <<1>>), Op("store", NoType, <<8, 25>>), Br(3),
      Op("load", Bool, <<8>>), Op("ret", NoType, <<28>>)>>,
    <<<<25>>, <<4>>, <<7, 10>>, <<6>>, <<6>>, <<7>>, <<>>, <<23, 26, 28>>,
      <<13, 18, 20>>, <<11>>, <<>>, <<13>>, <<>>, <<>>, <<17>>, <<17>>,
      <<18>>, <<>>, <<>>, <<21>>, <<>>, <<23>>, <<>>, <<>>, <<26>>, <<>>,
      <<>>, <<29>>, <<>>>>)
shortcut_scfg ==
  Fn(1, <<1, 2, 3, 4, 5, 6, 7>>,
    <<Block(<<1, 2, 3, 4, 5, 6, 7, 8, 9, 10, 11>>, <<3, 2>>, <<>>),
      Block(<<12, 13, 14>>, <<4>>, <<1>>),
      Block(<<15, 16, 17, 18, 19>>, <<4>>, <<1>>),
      Block(<<20, 21>>, <<5, 6>>, <<2, 3>>),
      Block(<<22, 23, 24>>, <<7>>, <<4>>),
      Block(<<25, 26, 27>>, <<7>>, <<4>>), Block(<<28, 29>>, <<>>, <<5, 6>>)>>,
    <<Param(Bool, 0), Param(I32, 1), Op("alloca", Bool, <<>>),
      Op("load", I32, <<2>>), IConst(I32, 3), Op("slt", Bool, <<4, 5>>),
      Op("store", NoType, <<3, 6>>), Op("alloca", Bool, <<>>),
      Op("alloca", Bool, <<>>), Op("load", Bool, <<3>>), CondBr(10, 4, 5),
      BConst(0), Op("store", NoType, <<9, 12>>), Br(6), IConst(I32, 1),
      IConst(I32, 2), Op("slt", Bool, <<15, 16>>),
      Op("store", NoType, <<9, 17>>), Br(6), Op("load", Bool, <<9>>),
      CondBr(20, 1, 2), BConst(1), Op("store", NoType, <<8, 22>>), Br(3),
      Op("load", Bool, <<1>>), Op("store", NoType, <<8, 25>>), Br(3),
      Op("load", Bool, <<8>>), Op("ret", NoType, <<28>>)>>,
    <<<<25>>, <<4>>, <<7, 10>>, <<6>>, <<6>>, <<7>>, <<>>, <<23, 26, 28>>,
      <<13, 18, 20>>, <<11>>, <<>>, <<13>>, <<>>, <<>>, <<17>>, <<17>>,
      <<18>>, <<>>, <<>>, <<21>>, <<>>, <<23>>, <<>>, <<>>, <<26>>, <<>>,
      <<>>, <<29>>, <<>>>>)
shortcut_ssa ==
  Fn(1, <<1, 2, 3, 4, 5, 6, 7>>,
    <<Block(<<1, 2, 3, 4, 5, 6>>, <<3, 2>>, <<>>),
      Block(<<7, 8>>, <<4>>, <<1>>), Block(<<9, 10, 11, 12>>, <<4>>, <<1>>),
      Block(<<13, 14>>, <<5, 6>>, <<2, 3>>), Block(<<15, 16>>, <<7>>, <<4>>),
      Block(<<17, 18>>, <<7>>, <<4>>), Block(<<19, 20>>, <<>>, <<5, 6>>)>>,
    <<Param(Bool, 0), Param(I32, 1), Op("load", I32, <<2>>), IConst(I32, 3),
      Op("slt", Bool, <<3, 4>>), CondBr(5, 4, 5), BConst(0), Br(6),
      IConst(I32, 1), IConst(I32, 2), Op("slt", Bool, <<9, 10>>), Br(6),
      Phi(Bool, <<7, 11>>, 2 :> 7 @@ 3 :> 11), CondBr(13, 1, 2), BConst(1),
      Br(3), Op("load", Bool, <<1>>), Br(3),
      Phi(Bool, <<15, 17>>, 5 :> 15 @@ 6 :> 17), Op("ret", NoType, <<19>>)>>,
    <<<<17>>, <<3>>, <<5>>, <<5>>, <<6>>, <<>>, <<13>>, <<>>, <<11>>, <<11>>,
      <<13>>, <<>>, <<14>>, <<>>, <<19>>, <<>>, <<19>>, <<>>, <<20>>, <<>>>>)
shortcut_sccp ==
  Fn(1, <<1, 2, 3, 4, 5, 6, 7>>,
    <<Block(<<1, 2, 3, 4, 5, 6>>, <<3, 2>>, <<>>),
      Block(<<7, 8>>, <<4>>, <<1>>), Block(<<9, 10, 11, 12>>, <<4>>, <<1>>),
      Block(<<13, 14>>, <<5, 6>>, <<2, 3>>), Block(<<15, 16>>, <<7>>, <<4>>),
      Block(<<17, 18>>, <<7>>, <<4>>), Block(<<19, 20>>, <<>>, <<5, 6>>)>>,
    <<Param(Bool, 0), Param(I32, 1), Op("load", I32, <<2>>), IConst(I32, 3),
      Op("slt", Bool, <<3, 4>>), CondBr(5, 4, 5), BConst(0), Br(6),
      IConst(I32, 1), IConst(I32, 2), BConst(1), Br(6),
      Phi(Bool, <<7, 11>>, 2 :> 7 @@ 3 :> 11), CondBr(13, 1, 2), BConst(1),
      Br(3), Op("load", Bool, <<1>>), Br(3),
      Phi(Bool, <<15, 17>>, 5 :> 15 @@ 6 :> 17), Op("ret", NoType, <<19>>)>>,
    <<<<17>>, <<3>>, <<5>>, <<5>>, <<6>>, <<>>, <<13>>, <<>>, <<>>, <<>>,
      <<13>>, <<>>, <<14>>, <<>>, <<19>>, <<>>, <<19>>, <<>>, <<20>>, <<>>>>)
shortcut_dce ==
  Fn(1, <<1, 2, 3, 4, 5, 6, 7>>,
    <<Block(<<1, 2, 3, 4, 5, 6>>, <<3, 2>>, <<>>),
      Block(<<7, 8>>, <<4>>, <<1>>), Block(<<9, 10>>, <<4>>, <<1>>),
      Block(<<11, 12>>, <<5, 6>>, <<2, 3>>), Block(<<13, 14>>, <<7>>, <<4>>),
      Block(<<15, 16>>, <<7>>, <<4>>), Block(<<17, 18>>, <<>>, <<5, 6>>)>>,
    <<Param(Bool, 0), Param(I32, 1), Op("load", I32, <<2>>), IConst(I32, 3),
      Op("slt", Bool, <<3, 4>>), CondBr(5, 4, 5), BConst(0), Br(6), BConst(1),
      Br(6), Phi(Bool, <<7, 9>>, 2 :> 7 @@ 3 :> 9), CondBr(11, 1, 2),
      BConst(1), Br(3), Op("load", Bool, <<1>>), Br(3),
      Phi(Bool, <<13, 15>>, 5 :> 13 @@ 6 :> 15), Op("ret", NoType, <<17>>)>>,
    <<<<15>>, <<3>>, <<5>>, <<5>>, <<6>>, <<>>, <<11>>, <<>>, <<11>>, <<>>,
      <<12>>, <<>>, <<17>>, <<>>, <<17>>, <<>>, <<18>>, <<>>>>)

\* fn f(n: i32) -> i32 { let d = 2 - 2; let mut r = 7; if n < 0 { r = 7 / d;
\* } return r; }
divzero_cfg ==
  Fn(1, <<1, 2, 3, 4>>,
    <<Block(<<1, 2, 3, 4, 5, 6, 7, 8, 9, 10, 11, 12, 13>>, <<2, 3>>, <<>>),
      Block(<<14, 15, 16, 17, 18>>, <<4>>, <<1>>),
      Block(<<19>>, <<4>>, <<1>>), Block(<<20, 21>>, <<>>, <<2, 3>>)>>,
    <<Param(I32, 0), Op("alloca", I32, <<>>), IConst(I32, 2), IConst(I32, 2),
      Op("sub", I32, <<3, 4>>), Op("store", NoType, <<2, 5>>),
      Op("alloca", I32, <<>>), IConst(I32, 7), Op("store", NoType, <<7, 8>>),
      Op("load", I32, <<1>>), IConst(I32, 0), Op("slt", Bool, <<10, 11>>),
      CondBr(12, 1, 2), IConst(I32, 7), Op("load", I32, <<2>>),
      Op("sdiv", I32, <<14, 15>>), Op("store", NoType, <<7, 16>>), Br(3),
      Br(3), Op("load", I32, <<7>>), Op("ret", NoType, <<20>>)>>,
    <<<<10>>, <<6, 15>>, <<5>>, <<5>>, <<6>>, <<>>, <<9, 17, 20>>, <<9>>,
      <<>>, <<12>>, <<12>>, <<13>>, <<>>, <<16>>, <<16>>, <<17>>, <<>>, <<>>,
      <<>>, <<21>>, <<>>>>)
divzero_ssa ==
  Fn(1, <<1, 2, 3>>,
    <<Block(<<1, 2, 3, 4, 5, 6, 7, 8, 9>>, <<2, 3>>, <<>>),
      Block(<<10, 11, 12>>, <<3>>, <<1>>), Block(<<13, 14>>, <<>>, <<2, 1>>)>>,
    <<Param(I32, 0), IConst(I32, 2), IConst(I32, 2), Op("sub", I32, <<2, 3>>),
      IConst(I32, 7), Op("load", I32, <<1>>), IConst(I32, 0),
      Op("slt", Bool, <<6, 7>>), CondBr(8, 1, 2), IConst(I32, 7),
      Op("sdiv", I32, <<10, 4>>), Br(3),
      Phi(I32, <<5, 11>>, 1 :> 5 @@ 2 :> 11), Op("ret", NoType, <<13>>)>>,
    <<<<6>>, <<4>>, <<4>>, <<11>>, <<13>>, <<8>>, <<8>>, <<9>>, <<>>, <<11>>,
      <<13>>, <<>>, <<14>>, <<>>>>)
divzero_sccp ==
  Fn(1, <<1, 2, 3>>,
    <<Block(<<1, 2, 3, 4, 5, 6, 7, 8, 9>>, <<2, 3>>, <<>>),
      Block(<<10, 11, 12>>, <<3>>, <<1>>), Block(<<13, 14>>, <<>>, <<2, 1>>)>>,
    <<Param(I32, 0), IConst(I32, 2), IConst(I32, 2), IConst(I32, 0),
      IConst(I32, 7), Op("load", I32, <<1>>), IConst(I32, 0),
      Op("slt", Bool, <<6, 7>>), CondBr(8, 1, 2), IConst(I32, 7),
      Op("sdiv", I32, <<10, 4>>), Br(3),
      Phi(I32, <<5, 11>>, 1 :> 5 @@ 2 :> 11), Op("ret", NoType, <<13>>)>>,
    <<<<6>>, <<>>, <<>>, <<11>>, <<13>>, <<8>>, <<8>>, <<9>>, <<>>, <<11>>,
      <<13>>, <<>>, <<14>>, <<>>>>)

\* fn g(n: i32) -> i32 { return n; }
\* fn f(n: i32) -> i32 { let mut s = 3; let mut i = 0; while i < 2 { s =
\* g(s); i = i + 1; } return s + 0; }
calls1_ssa ==
  Fn(1, <<1>>,
    <<Block(<<1, 2, 3>>, <<>>, <<>>)>>,
    <<Param(I32, 0), Op("load", I32, <<1>>), Op("ret", NoType, <<2>>)>>,
    <<<<2>>, <<3>>, <<>>>>)
calls2_cfg ==
  Fn(1, <<1, 2, 3, 4>>,
    <<Block(<<1, 2, 3, 4, 5, 6, 7>>, <<2>>, <<>>),
      Block(<<8, 9, 10, 11>>, <<3, 4>>, <<1, 3>>),
      Block(<<12, 13, 14, 15, 16, 17, 18, 19>>, <<2>>, <<2>>),
      Block(<<20, 21, 22, 23>>, <<>>, <<2>>)>>,
    <<Param(I32, 0), Op("alloca", I32, <<>>), IConst(I32, 3),
      Op("store", NoType, <<2, 3>>), Op("alloca", I32, <<>>), IConst(I32, 0),
      Op("store", NoType, <<5, 6>>), Op("load", I32, <<5>>), IConst(I32, 2),
      Op("slt", Bool, <<8, 9>>), CondBr(10, 2, 3), Op("load", I32, <<2>>),
      Call(I32, 0, <<12>>), Op("store", NoType, <<2, 13>>),
      Op("load", I32, <<5>>), IConst(I32, 1), Op("add", I32, <<15, 16>>),
      Op("store", NoType, <<5, 17>>), Br(1), Op("load", I32, <<2>>),
      IConst(I32, 0), Op("add", I32, <<20, 21>>), Op("ret", NoType, <<22>>)>>,
    <<<<>>, <<4, 12, 14, 20>>, <<4>>, <<>>, <<7, 8, 15, 18>>, <<7>>, <<>>,
      <<10>>, <<10>>, <<11>>, <<>>, <<13>>, <<14>>, <<>>, <<17>>, <<17>>,
      <<18>>, <<>>, <<>>, <<22>>, <<22>>, <<23>>, <<>>>>)
calls2_ssa ==
  Fn(1, <<1, 2, 3, 4>>,
    <<Block(<<1, 2, 3>>, <<2>>, <<>>),
      Block(<<4, 5, 6, 7, 8>>, <<3, 4>>, <<1, 3>>),
      Block(<<9, 10, 11, 12>>, <<2>>, <<2>>),
      Block(<<13, 14, 15>>, <<>>, <<2>>)>>,
    <<Param(I32, 0), IConst(I32, 3), IConst(I32, 0),
      Phi(I32, <<2, 9>>, 1 :> 2 @@ 3 :> 9),
      Phi(I32, <<3, 11>>, 1 :> 3 @@ 3 :> 11), IConst(I32, 2),
      Op("slt", Bool, <<5, 6>>), CondBr(7, 2, 3), Call(I32, 0, <<4>>),
      IConst(I32, 1), Op("add", I32, <<5, 10>>), Br(1), IConst(I32, 0),
      Op("add", I32, <<4, 13>>), Op("ret", NoType, <<14>>)>>,
    <<<<>>, <<4>>, <<5>>, <<9, 14>>, <<7, 11>>, <<7>>, <<8>>, <<>>, <<4>>,
      <<11>>, <<5>>, <<>>, <<14>>, <<15>>, <<>>>>)

\* fn f(p: bool) -> i32 { let c = p; let mut x = 1; if false { if c { x = 2;
\* } } return x + 1; }
deadcond_cfg ==
  Fn(1, <<1, 2, 3, 4, 5, 6, 7>>,
    <<Block(<<1, 2, 3, 4, 5, 6, 7, 8, 9>>, <<2, 6>>, <<>>),
      Block(<<10, 11>>, <<3, 4>>, <<1>>), Block(<<12, 13, 14>>, <<5>>, <<2>>),
      Block(<<15>>, <<5>>, <<2>>), Block(<<16>>, <<7>>, <<3, 4>>),
      Block(<<17>>, <<7>>, <<1>>), Block(<<18, 19, 20, 21>>, <<>>, <<5, 6>>)>>,
    <<Param(Bool, 0), Op("alloca", Bool, <<>>), Op("load", Bool, <<1>>),
      Op("store", NoType, <<2, 3>>), Op("alloca", I32, <<>>), IConst(I32, 1),
      Op("store", NoType, <<5, 6>>), BConst(0), CondBr(8, 1, 2),
      Op("load", Bool, <<2>>), CondBr(10, 4, 5), IConst(I32, 2),
      Op("store", NoType, <<5, 12>>), Br(6), Br(6), Br(3), Br(3),
      Op("load", I32, <<5>>), IConst(I32, 1), Op("add", I32, <<18, 19>>),
      Op("ret", NoType, <<20>>)>>,
    <<<<3>>, <<4, 10>>, <<4>>, <<>>, <<7, 13, 18>>, <<7>>, <<>>, <<9>>, <<>>,
      <<11>>, <<>>, <<13>>, <<>>, <<>>, <<>>, <<>>, <<>>, <<20>>, <<20>>,
      <<21>>, <<>>>>)
deadcond_ssa ==
  Fn(1, <<1, 2, 3, 4>>,
    <<Block(<<1, 2, 3, 4, 5>>, <<2, 4>>, <<>>), Block(<<6>>, <<3, 4>>, <<1>>),
      Block(<<7, 8>>, <<4>>, <<2>>),
      Block(<<9, 10, 11, 12>>, <<>>, <<3, 2, 1>>)>>,
    <<Param(Bool, 0), Op("load", Bool, <<1>>), IConst(I32, 1), BConst(0),
      CondBr(4, 1, 2), CondBr(2, 4, 5), IConst(I32, 2), Br(6),
      Phi(I32, <<3, 3, 7>>, 1 :> 3 @@ 2 :> 3 @@ 3 :> 7), IConst(I32, 1),
      Op("add", I32, <<9, 10>>), Op("ret", NoType, <<11>>)>>,
    <<<<2>>, <<6>>, <<9, 9>>, <<5>>, <<>>, <<>>, <<9>>, <<>>, <<11>>, <<11>>,
      <<12>>, <<>>>>)
deadcond_dce ==
  Fn(1, <<1, 2, 3, 4>>,
    <<Block(<<1, 2, 3, 4>>, <<4>>, <<>>), Block(<<5>>, <<3, 4>>, <<1>>),
      Block(<<6, 7>>, <<4>>, <<2>>),
      Block(<<8, 9, 10, 11>>, <<>>, <<3, 2, 1>>)>>,
    <<Param(Bool, 0), Op("load", Bool, <<1>>), IConst(I32, 1), Br(2),
      CondBr(2, 4, 5), IConst(I32, 2), Br(6),
      Phi(I32, <<3, 3, 6>>, 1 :> 3 @@ 2 :> 3 @@ 3 :> 6), IConst(I32, 1),
      Op("add", I32, <<8, 9>>), Op("ret", NoType, <<10>>)>>,
    <<<<2>>, <<5>>, <<8, 8>>, <<>>, <<>>, <<8>>, <<>>, <<10>>, <<10>>, <<11>>,
      <<>>>>)

\* fn f() -> i32 { let mut i = 0; let mut s = 0; while i < 3 { s = s + i; i =
\* i + 1; } return s; }
counter_cfg ==
  Fn(1, <<1, 2, 3, 4>>,
    <<Block(<<1, 2, 3, 4, 5, 6>>, <<2>>, <<>>),
      Block(<<7, 8, 9, 10>>, <<3, 4>>, <<1, 3>>),
      Block(<<11, 12, 13, 14, 15, 16, 17, 18, 19>>, <<2>>, <<2>>),
      Block(<<20, 21>>, <<>>, <<2>>)>>,
    <<Op("alloca", I32, <<>>), IConst(I32, 0), Op("store", NoType, <<1, 2>>),
      Op("alloca", I32, <<>>), IConst(I32, 0), Op("store", NoType, <<4, 5>>),
      Op("load", I32, <<1>>), IConst(I32, 3), Op("slt", Bool, <<7, 8>>),
      CondBr(9, 2, 3), Op("load", I32, <<4>>), Op("load", I32, <<1>>),
      Op("add", I32, <<11, 12>>), Op("store", NoType, <<4, 13>>),
      Op("load", I32, <<1>>), IConst(I32, 1), Op("add", I32, <<15, 16>>),
      Op("store", NoType, <<1, 17>>), Br(1), Op("load", I32, <<4>>),
      Op("ret", NoType, <<20>>)>>,
    <<<<3, 7, 12, 15, 18>>, <<3>>, <<>>, <<6, 11, 14, 20>>, <<6>>, <<>>,
      <<9>>, <<9>>, <<10>>, <<>>, <<13>>, <<13>>, <<14>>, <<>>, <<17>>,
      <<17>>, <<18>>, <<>>, <<>>, <<21>>, <<>>>>)
counter_scfg ==
  Fn(1, <<1, 2, 3, 4>>,
    <<Block(<<1, 2, 3, 4, 5, 6>>, <<2>>, <<>>),
      Block(<<7, 8, 9, 10>>, <<3, 4>>, <<1, 3>>),
      Block(<<11, 12, 13, 14, 15, 16, 17, 18, 19>>, <<2>>, <<2>>),
      Block(<<20, 21>>, <<>>, <<2>>)>>,
    <<Op("alloca", I32, <<>>), IConst(I32, 0), Op("store", NoType, <<1, 2>>),
      Op("alloca", I32, <<>>), IConst(I32, 0), Op("store", NoType, <<4, 5>>),
      Op("load", I32, <<1>>), IConst(I32, 3), Op("slt", Bool, <<7, 8>>),
      CondBr(9, 2, 3), Op("load", I32, <<4>>), Op("load", I32, <<1>>),
      Op("add", I32, <<11, 12>>), Op("store", NoType, <<4, 13>>),
      Op("load", I32, <<1>>), IConst(I32, 1), Op("add", I32, <<15, 16>>),
      Op("store", NoType, <<1, 17>>), Br(1), Op("load", I32, <<4>>),
      Op("ret", NoType, <<20>>)>>,
    <<<<3, 7, 12, 15, 18>>, <<3>>, <<>>, <<6, 11, 14, 20>>, <<6>>, <<>>,
      <<9>>, <<9>>, <<10>>, <<>>, <<13>>, <<13>>, <<14>>, <<>>, <<17>>,
      <<17>>, <<18>>, <<>>, <<>>, <<21>>, <<>>>>)
counter_ssa ==
  Fn(1, <<1, 2, 3, 4>>,
    <<Block(<<1, 2>>, <<2>>, <<>>),
      Block(<<3, 4, 5, 6, 7>>, <<3, 4>>, <<1, 3>>),
      Block(<<8, 9, 10, 11>>, <<2>>, <<2>>), Block(<<12>>, <<>>, <<2>>)>>,
    <<IConst(I32, 0), IConst(I32, 0), Phi(I32, <<1, 10>>, 1 :> 1 @@ 3 :> 10),
      Phi(I32, <<2, 8>>, 1 :> 2 @@ 3 :> 8), IConst(I32, 3),
      Op("slt", Bool, <<3, 5>>), CondBr(6, 2, 3), Op("add", I32, <<4, 3>>),
      IConst(I32, 1), Op("add", I32, <<3, 9>>), Br(1),
      Op("ret", NoType, <<4>>)>>,
    <<<<3>>, <<4>>, <<6, 8, 10>>, <<8, 12>>, <<6>>, <<7>>, <<>>, <<4>>,
      <<10>>, <<3>>, <<>>, <<>>>>)
counter_dce ==
  Fn(1, <<1, 2, 3, 4>>,
    <<Block(<<1, 2>>, <<2>>, <<>>),
      Block(<<3, 4, 5, 6, 7>>, <<3, 4>>, <<1, 3>>),
      Block(<<8, 9, 10, 11>>, <<2>>, <<2>>), Block(<<12>>, <<>>, <<2>>)>>,
    <<IConst(I32, 0), IConst(I32, 0), Phi(I32, <<1, 10>>, 1 :> 1 @@ 3 :> 10),
      Phi(I32, <<2, 8>>, 1 :> 2 @@ 3 :> 8), IConst(I32, 3),
      Op("slt", Bool, <<3, 5>>), CondBr(6, 2, 3), Op("add", I32, <<4, 3>>),
      IConst(I32, 1), Op("add", I32, <<3, 9>>), Br(1),
      Op("ret", NoType, <<4>>)>>,
    <<<<3>>, <<4>>, <<6, 8, 10>>, <<8, 12>>, <<6>>, <<7>>, <<>>, <<4>>,
      <<10>>, <<3>>, <<>>, <<>>>>)

\* fn f(c: bool) -> bool { let mut x = true; if c { x = !false; } else { x =
\* 2 < 3; } let y = x == true; if y { return false; } return c; }
merge_cfg ==
  Fn(1, <<1, 2, 3, 4, 5, 6, 7>>,
    <<Block(<<1, 2, 3, 4, 5, 6>>, <<2, 3>>, <<>>),
      Block(<<7, 8, 9, 10>>, <<4>>, <<1>>),
      Block(<<11, 12, 13, 14, 15>>, <<4>>, <<1>>),
      Block(<<16, 17, 18, 19, 20, 21, 22>>, <<5, 6>>, <<2, 3>>),
      Block(<<23, 24>>, <<>>, <<4>>), Block(<<25>>, <<7>>, <<4>>),
      Block(<<26, 27>>, <<>>, <<6>>)>>,
    <<Param(Bool, 0), Op("alloca", Bool, <<>>), BConst(1),
      Op("store", NoType, <<2, 3>>), Op("load", Bool, <<1>>), CondBr(5, 1, 2),
      BConst(0), Op("lnot", Bool, <<7>>), Op("store", NoType, <<2, 8>>),
      Br(3), IConst(I32, 2), IConst(I32, 3), Op("slt", Bool, <<11, 12>>),
      Op("store", NoType, <<2, 13>>), Br(3), Op("alloca", Bool, <<>>),
      Op("load", Bool, <<2>>), BConst(1), Op("eq", Bool, <<17, 18>>),
      Op("store", NoType, <<16, 19>>), Op("load", Bool, <<16>>),
      CondBr(21, 4, 5), BConst(0), Op("ret", NoType, <<23>>), Br(6),
      Op("load", Bool, <<1>>), Op("ret", NoType, <<26>>)>>,
    <<<<5, 26>>, <<4, 9, 14, 17>>, <<4>>, <<>>, <<6>>, <<>>, <<8>>, <<9>>,
      <<>>, <<>>, <<13>>, <<13>>, <<14>>, <<>>, <<>>, <<20, 21>>, <<19>>,
      <<19>>, <<20>>, <<>>, <<22>>, <<>>, <<24>>, <<>>, <<>>, <<27>>, <<>>>>)
merge_scfg ==
  Fn(1, <<1, 2, 3, 4, 5, 6>>,
    <<Block(<<1, 2, 3, 4, 5, 6>>, <<2, 3>>, <<>>),
      Block(<<7, 8, 9, 10>>, <<4>>, <<1>>),
      Block(<<11, 12, 13, 14, 15>>, <<4>>, <<1>>),
      Block(<<16, 17, 18, 19, 20, 21, 22>>, <<5, 6>>, <<2, 3>>),
      Block(<<23, 24>>, <<>>, <<4>>), Block(<<25, 26>>, <<>>, <<4>>)>>,
    <<Param(Bool, 0), Op("alloca", Bool, <<>>), BConst(1),
      Op("store", NoType, <<2, 3>>), Op("load", Bool, <<1>>), CondBr(5, 1, 2),
      BConst(0), Op("lnot", Bool, <<7>>), Op("store", NoType, <<2, 8>>),
      Br(3), IConst(I32, 2), IConst(I32, 3), Op("slt", Bool, <<11, 12>>),
      Op("store", NoType, <<2, 13>>), Br(3), Op("alloca", Bool, <<>>),
      Op("load", Bool, <<2>>), BConst(1), Op("eq", Bool, <<17, 18>>),
      Op("store", NoType, <<16, 19>>), Op("load", Bool, <<16>>),
      CondBr(21, 4, 5), BConst(0), Op("ret", NoType, <<23>>),
      Op("load", Bool, <<1>>), Op("ret", NoType, <<25>>)>>,
    <<<<5, 25>>, <<4, 9, 14, 17>>, <<4>>, <<>>, <<6>>, <<>>, <<8>>, <<9>>,
      <<>>, <<>>, <<13>>, <<13>>, <<14>>, <<>>, <<>>, <<20, 21>>, <<19>>,
      <<19>>, <<20>>, <<>>, <<22>>, <<>>, <<24>>, <<>>, <<26>>, <<>>>>)
merge_ssa ==
  Fn(1, <<1, 2, 3, 4, 5, 6>>,
    <<Block(<<1, 2, 3, 4>>, <<2, 3>>, <<>>), Block(<<5, 6, 7>>, <<4>>, <<1>>),
      Block(<<8, 9, 10, 11>>, <<4>>, <<1>>),
      Block(<<12, 13, 14, 15>>, <<5, 6>>, <<2, 3>>),
      Block(<<16, 17>>, <<>>, <<4>>), Block(<<18, 19>>, <<>>, <<4>>)>>,
    <<Param(Bool, 0), BConst(1), Op("load", Bool, <<1>>), CondBr(3, 1, 2),
      BConst(0), Op("lnot", Bool, <<5>>), Br(3), IConst(I32, 2),
      IConst(I32, 3), Op("slt", Bool, <<8, 9>>), Br(3),
      Phi(Bool, <<6, 10>>, 2 :> 6 @@ 3 :> 10), BConst(1),
      Op("eq", Bool, <<12, 13>>), CondBr(14, 4, 5), BConst(0),
      Op("ret", NoType, <<16>>), Op("load", Bool, <<1>>),
      Op("ret", NoType, <<18>>)>>,
    <<<<3, 18>>, <<>>, <<4>>, <<>>, <<6>>, <<12>>, <<>>, <<10>>, <<10>>,
      <<12>>, <<>>, <<14>>, <<14>>, <<15>>, <<>>, <<17>>, <<>>, <<19>>, <<>>>>)
merge_dce ==
  Fn(1, <<1, 2, 3, 4, 5, 6>>,
    <<Block(<<1, 2, 3>>, <<2, 3>>, <<>>), Block(<<4>>, <<4>>, <<1>>),
      Block(<<5>>, <<4>>, <<1>>), Block(<<6>>, <<5>>, <<2, 3>>),
      Block(<<7, 8>>, <<>>, <<4>>), Block(<<9, 10>>, <<>>, <<4>>)>>,
    <<Param(Bool, 0), Op("load", Bool, <<1>>), CondBr(2, 1, 2), Br(3), Br(3),
      Br(4), BConst(0), Op("ret", NoType, <<7>>), Op("load", Bool, <<1>>),
      Op("ret", NoType, <<9>>)>>,
    <<<<2, 9>>, <<3>>, <<>>, <<>>, <<>>, <<>>, <<8>>, <<>>, <<10>>, <<>>>>)

\* fn f(n: i8) -> bool { let x: i8 = 127; let mut y = x + 1; if n < -128 { y
\* = -y; } return y < 0; }
wraps_cfg ==
  Fn(1, <<1, 2, 3, 4>>,
    <<
      Block(<<1, 2, 3, 4, 5, 6, 7, 8, 9, 10, 11, 12, 13, 14>>, <<2, 3>>, <<>>),
      Block(<<15, 16, 17, 18>>, <<4>>, <<1>>), Block(<<19>>, <<4>>, <<1>>),
      Block(<<20, 21, 22, 23>>, <<>>, <<2, 3>>)>>,
    <<Param(I8, 0), Op("alloca", I8, <<>>), IConst(I8, 127),
      Op("store", NoType, <<2, 3>>), Op("alloca", I8, <<>>),
      Op("load", I8, <<2>>), IConst(I8, 1), Op("add", I8, <<6, 7>>),
      Op("store", NoType, <<5, 8>>), Op("load", I8, <<1>>), IConst(I8, 128),
      Op("neg", I8, <<11>>), Op("slt", Bool, <<10, 12>>), CondBr(13, 1, 2),
      Op("load", I8, <<5>>), Op("neg", I8, <<15>>),
      Op("store", NoType, <<5, 16>>), Br(3), Br(3), Op("load", I8, <<5>>),
      IConst(I8, 0), Op("slt", Bool, <<20, 21>>), Op("ret", NoType, <<22>>)>>,
    <<<<10>>, <<4, 6>>, <<4>>, <<>>, <<9, 15, 17, 20>>, <<8>>, <<8>>, <<9>>,
      <<>>, <<13>>, <<12>>, <<13>>, <<14>>, <<>>, <<16>>, <<17>>, <<>>, <<>>,
      <<>>, <<22>>, <<22>>, <<23>>, <<>>>>)
wraps_ssa ==
  Fn(1, <<1, 2, 3>>,
    <<Block(<<1, 2, 3, 4, 5, 6, 7, 8, 9>>, <<2, 3>>, <<>>),
      Block(<<10, 11>>, <<3>>, <<1>>),
      Block(<<12, 13, 14, 15>>, <<>>, <<2, 1>>)>>,
    <<Param(I8, 0), IConst(I8, 127), IConst(I8, 1), Op("add", I8, <<2, 3>>),
      Op("load", I8, <<1>>), IConst(I8, 128), Op("neg", I8, <<6>>),
      Op("slt", Bool, <<5, 7>>), CondBr(8, 1, 2), Op("neg", I8, <<4>>), Br(3),
      Phi(I8, <<4, 10>>, 1 :> 4 @@ 2 :> 10), IConst(I8, 0),
      Op("slt", Bool, <<12, 13>>), Op("ret", NoType, <<14>>)>>,
    <<<<5>>, <<4>>, <<4>>, <<10, 12>>, <<8>>, <<7>>, <<8>>, <<9>>, <<>>,
      <<12>>, <<>>, <<14>>, <<14>>, <<15>>, <<>>>>)

\* fn f(a: u8, b: i8) -> bool { let x: u8 = 200; let y: i8 = -100;
\* if x / 3 == x >> 2 { return a < x % 7; } b < (y >> 3) % 5 }
signs_ssa ==
  Fn(1, <<1, 2, 3>>,
    <<Block(<<1, 2, 3, 4, 5, 6, 7, 8, 9, 10, 11>>, <<2, 3>>, <<>>),
      Block(<<12, 13, 14, 15, 16>>, <<>>, <<1>>),
      Block(<<17, 18, 19, 20, 21, 22, 23>>, <<>>, <<1>>)>>,
    <<Param(U8, 0), Param(I8, 1), IConst(U8, 200), IConst(I8, 100),
      Op("neg", I8, <<4>>), IConst(U8, 3), Op("udiv", U8, <<3, 6>>),
      IConst(U8, 2), Op("shr", U8, <<3, 8>>), Op("eq", Bool, <<7, 9>>),
      CondBr(10, 1, 2), Op("load", U8, <<1>>), IConst(U8, 7),
      Op("umod", U8, <<3, 13>>), Op("ult", Bool, <<12, 14>>),
      Op("ret", NoType, <<15>>), Op("load", I8, <<2>>), IConst(I8, 3),
      Op("sar", I8, <<5, 18>>), IConst(I8, 5), Op("smod", I8, <<19, 20>>),
      Op("slt", Bool, <<17, 21>>), Op("ret", NoType, <<22>>)>>,
    <<<<12>>, <<17>>, <<7, 9, 14>>, <<5>>, <<19>>, <<7>>, <<10>>, <<9>>,
      <<10>>, <<11>>, <<>>, <<15>>, <<14>>, <<15>>, <<16>>, <<>>, <<22>>,
      <<19>>, <<21>>, <<21>>, <<22>>, <<23>>, <<>>>>)

\* fn f() -> bool { true + false }
boolplus_ssa ==
  Fn(1, <<1>>,
    <<Block(<<1, 2, 3, 4>>, <<>>, <<>>)>>,
    <<BConst(1), BConst(0), Op("add", Bool, <<1, 2>>),
      Op("ret", NoType, <<3>>)>>,
    <<<<3>>, <<3>>, <<4>>, <<>>>>)

\* fn f() -> i32 { 1 && 2 }
intand_ssa ==
  Fn(1, <<1, 2, 3, 4>>,
    <<Block(<<1, 2>>, <<3, 2>>, <<>>), Block(<<3, 4>>, <<4>>, <<1>>),
      Block(<<5, 6>>, <<4>>, <<1>>), Block(<<7, 8>>, <<>>, <<2, 3>>)>>,
    <<IConst(I32, 1), CondBr(1, 1, 2), BConst(0), Br(3), IConst(I32, 2),
      Br(3), Phi(Bool, <<3, 5>>, 2 :> 3 @@ 3 :> 5), Op("ret", NoType, <<7>>)>>,
    <<<<2>>, <<>>, <<7>>, <<>>, <<7>>, <<>>, <<8>>, <<>>>>)

\* fn g(n: i32) -> i32 { return n; }
\* fn f(n: i32, c: bool) -> i32 { let mut s = 0; let mut u = 1; let mut i =
\* 0; while i < n { s = g(i) + s; u = u * 2; i = i + 1; } if c { return i; }
\* return 5; }
deadcalls2_cfg ==
  Fn(1, <<1, 2, 3, 4, 5, 6, 7>>,
    <<Block(<<1, 2, 3, 4, 5, 6, 7, 8, 9, 10, 11>>, <<2>>, <<>>),
      Block(<<12, 13, 14, 15>>, <<3, 4>>, <<1, 3>>),
      Block(<<16, 17, 18, 19, 20, 21, 22, 23, 24, 25, 26, 27, 28, 29>>, <<2>>, <<2>>),
      Block(<<30, 31>>, <<5, 6>>, <<2>>), Block(<<32, 33>>, <<>>, <<4>>),
      Block(<<34>>, <<7>>, <<4>>), Block(<<35, 36>>, <<>>, <<6>>)>>,
    <<Param(I32, 0), Param(Bool, 1), Op("alloca", I32, <<>>), IConst(I32, 0),
      Op("store", NoType, <<3, 4>>), Op("alloca", I32, <<>>), IConst(I32, 1),
      Op("store", NoType, <<6, 7>>), Op("alloca", I32, <<>>), IConst(I32, 0),
      Op("store", NoType, <<9, 10>>), Op("load", I32, <<9>>),
      Op("load", I32, <<1>>), Op("slt", Bool, <<12, 13>>), CondBr(14, 2, 3),
      Op("load", I32, <<9>>), Call(I32, 0, <<16>>), Op("load", I32, <<3>>),
      Op("add", I32, <<17, 18>>), Op("store", NoType, <<3, 19>>),
      Op("load", I32, <<6>>), IConst(I32, 2), Op("mul", I32, <<21, 22>>),
      Op("store", NoType, <<6, 23>>), Op("load", I32, <<9>>), IConst(I32, 1),
      Op("add", I32, <<25, 26>>), Op("store", NoType, <<9, 27>>), Br(1),
      Op("load", Bool, <<2>>), CondBr(30, 4, 5), Op("load", I32, <<9>>),
      Op("ret", NoType, <<32>>), Br(6), IConst(I32, 5),
      Op("ret", NoType, <<35>>)>>,
    <<<<13>>, <<30>>, <<5, 18, 20>>, <<5>>, <<>>, <<8, 21, 24>>, <<8>>, <<>>,
      <<11, 12, 16, 25, 28, 32>>, <<11>>, <<>>, <<14>>, <<14>>, <<15>>, <<>>,
      <<17>>, <<19>>, <<19>>, <<20>>, <<>>, <<23>>, <<23>>, <<24>>, <<>>,
      <<27>>, <<27>>, <<28>>, <<>>, <<>>, <<31>>, <<>>, <<33>>, <<>>, <<>>,
      <<36>>, <<>>>>)
deadcalls2_ssa ==
  Fn(1, <<1, 2, 3, 4, 5, 6>>,
    <<Block(<<1, 2, 3, 4, 5>>, <<2>>, <<>>),
      Block(<<6, 7, 8, 9, 10, 11>>, <<3, 4>>, <<1, 3>>),
      Block(<<12, 13, 14, 15, 16, 17, 18>>, <<2>>, <<2>>),
      Block(<<19, 20>>, <<5, 6>>, <<2>>), Block(<<21>>, <<>>, <<4>>),
      Block(<<22, 23>>, <<>>, <<4>>)>>,
    <<Param(I32, 0), Param(Bool, 1), IConst(I32, 0), IConst(I32, 1),
      IConst(I32, 0), Phi(I32, <<3, 13>>, 1 :> 3 @@ 3 :> 13),
      Phi(I32, <<4, 15>>, 1 :> 4 @@ 3 :> 15),
      Phi(I32, <<5, 17>>, 1 :> 5 @@ 3 :> 17), Op("load", I32, <<1>>),
      Op("slt", Bool, <<8, 9>>), CondBr(10, 2, 3), Call(I32, 0, <<8>>),
      Op("add", I32, <<12, 6>>), IConst(I32, 2), Op("mul", I32, <<7, 14>>),
      IConst(I32, 1), Op("add", I32, <<8, 16>>), Br(1),
      Op("load", Bool, <<2>>), CondBr(19, 4, 5), Op("ret", NoType, <<8>>),
      IConst(I32, 5), Op("ret", NoType, <<22>>)>>,
    <<<<9>>, <<19>>, <<6>>, <<7>>, <<8>>, <<13>>, <<15>>, <<10, 12, 17, 21>>,
      <<10>>, <<11>>, <<>>, <<13>>, <<6>>, <<15>>, <<7>>, <<17>>, <<8>>, <<>>,
      <<20>>, <<>>, <<>>, <<23>>, <<>>>>)

\* fn g() { }
\* fn f(n: i32) { g(); return; }
unused2_ssa ==
  Fn(1, <<1>>,
    <<Block(<<1, 2, 3>>, <<>>, <<>>)>>,
    <<Param(I32, 0), Call(Unit, 0, <<>>), Op("ret", NoType, <<>>)>>,
    <<<<>>, <<>>, <<>>>>)

\* fn f(n: i32) -> i32 { let a = 1; let b = 2; let mut x = a; let mut i = 0;
\* while i < n { if i == 1 { x = b; } i = i + 1; } return x; }
latecomer_cfg ==
  Fn(1, <<1, 2, 3, 4, 5, 6, 7>>,
    <<Block(<<1, 2, 3, 4, 5, 6, 7, 8, 9, 10, 11, 12, 13>>, <<2>>, <<>>),
      Block(<<14, 15, 16, 17>>, <<3, 7>>, <<1, 6>>),
      Block(<<18, 19, 20, 21>>, <<4, 5>>, <<2>>),
      Block(<<22, 23, 24>>, <<6>>, <<3>>), Block(<<25>>, <<6>>, <<3>>),
      Block(<<26, 27, 28, 29, 30>>, <<2>>, <<4, 5>>),
      Block(<<31, 32>>, <<>>, <<2>>)>>,
    <<Param(I32, 0), Op("alloca", I32, <<>>), IConst(I32, 1),
      Op("store", NoType, <<2, 3>>), Op("alloca", I32, <<>>), IConst(I32, 2),
      Op("store", NoType, <<5, 6>>), Op("alloca", I32, <<>>),
      Op("load", I32, <<2>>), Op("store", NoType, <<8, 9>>),
      Op("alloca", I32, <<>>), IConst(I32, 0),
      Op("store", NoType, <<11, 12>>), Op("load", I32, <<11>>),
      Op("load", I32, <<1>>), Op("slt", Bool, <<14, 15>>), CondBr(16, 2, 3),
      Op("load", I32, <<11>>), IConst(I32, 1), Op("eq", Bool, <<18, 19>>),
      CondBr(20, 4, 5), Op("load", I32, <<5>>),
      Op("store", NoType, <<8, 22>>), Br(6), Br(6), Op("load", I32, <<11>>),
      IConst(I32, 1), Op("add", I32, <<26, 27>>),
      Op("store", NoType, <<11, 28>>), Br(1), Op("load", I32, <<8>>),
      Op("ret", NoType, <<31>>)>>,
    <<<<15>>, <<4, 9>>, <<4>>, <<>>, <<7, 22>>, <<7>>, <<>>, <<10, 23, 31>>,
      <<10>>, <<>>, <<13, 14, 18, 26, 29>>, <<13>>, <<>>, <<16>>, <<16>>,
      <<17>>, <<>>, <<20>>, <<20>>, <<21>>, <<>>, <<23>>, <<>>, <<>>, <<>>,
      <<28>>, <<28>>, <<29>>, <<>>, <<>>, <<32>>, <<>>>>)
latecomer_ssa ==
  Fn(1, <<1, 2, 3, 4, 5, 6>>,
    <<Block(<<1, 2, 3, 4>>, <<2>>, <<>>),
      Block(<<5, 6, 7, 8, 9>>, <<3, 6>>, <<1, 5>>),
      Block(<<10, 11, 12>>, <<4, 5>>, <<2>>), Block(<<13>>, <<5>>, <<3>>),
      Block(<<14, 15, 16, 17>>, <<2>>, <<4, 3>>), Block(<<18>>, <<>>, <<2>>)>>,
    <<Param(I32, 0), IConst(I32, 1), IConst(I32, 2), IConst(I32, 0),
      Phi(I32, <<2, 14>>, 1 :> 2 @@ 5 :> 14),
      Phi(I32, <<4, 16>>, 1 :> 4 @@ 5 :> 16), Op("load", I32, <<1>>),
      Op("slt", Bool, <<6, 7>>), CondBr(8, 2, 3), IConst(I32, 1),
      Op("eq", Bool, <<6, 10>>), CondBr(11, 4, 5), Br(6),
      Phi(I32, <<5, 3>>, 3 :> 5 @@ 4 :> 3), IConst(I32, 1),
      Op("add", I32, <<6, 15>>), Br(1), Op("ret", NoType, <<5>>)>>,
    <<<<7>>, <<5>>, <<14>>, <<6>>, <<18, 14>>, <<8, 11, 16>>, <<8>>, <<9>>,
      <<>>, <<11>>, <<12>>, <<>>, <<>>, <<5>>, <<16>>, <<6>>, <<>>, <<>>>>)

\* fn f(c: bool, n: i32) -> i32 { let mut x = 0; if 1 < 2 { x = n + 1; } else
\* { x = 2; } if c { return x; } let mut i = 0; while i < 2 { if i == n {
\* break; } i = i + 1; } return x + i; }
joined_cfg ==
  Fn(1, <<1, 2, 3, 4, 5, 6, 7, 8, 9, 10, 11, 12, 13>>,
    <<Block(<<1, 2, 3, 4, 5, 6, 7, 8, 9>>, <<2, 3>>, <<>>),
      Block(<<10, 11, 12, 13, 14>>, <<4>>, <<1>>),
      Block(<<15, 16, 17>>, <<4>>, <<1>>),
      Block(<<18, 19>>, <<5, 6>>, <<2, 3>>), Block(<<20, 21>>, <<>>, <<4>>),
      Block(<<22>>, <<7>>, <<4>>), Block(<<23, 24, 25>>, <<8>>, <<6>>),
      Block(<<26, 27, 28, 29>>, <<9, 13>>, <<7, 12>>),
      Block(<<30, 31, 32, 33>>, <<10, 11>>, <<8>>),
      Block(<<34>>, <<13>>, <<9>>), Block(<<35>>, <<12>>, <<9>>),
      Block(<<36, 37, 38, 39, 40>>, <<8>>, <<11>>),
      Block(<<41, 42, 43, 44>>, <<>>, <<8, 10>>)>>,
    <<Param(Bool, 0), Param(I32, 1), Op("alloca", I32, <<>>), IConst(I32, 0),
      Op("store", NoType, <<3, 4>>), IConst(I32, 1), IConst(I32, 2),
      Op("slt", Bool, <<6, 7>>), CondBr(8, 1, 2), Op("load", I32, <<2>>),
      IConst(I32, 1), Op("add", I32, <<10, 11>>),
      Op("store", NoType, <<3, 12>>), Br(3), IConst(I32, 2),
      Op("store", NoType, <<3, 15>>), Br(3), Op("load", Bool, <<1>>),
      CondBr(18, 4, 5), Op("load", I32, <<3>>), Op("ret", NoType, <<20>>),
      Br(6), Op("alloca", I32, <<>>), IConst(I32, 0),
      Op("store", NoType, <<23, 24>>), Op("load", I32, <<23>>),
      IConst(I32, 2), Op("slt", Bool, <<26, 27>>), CondBr(28, 8, 9),
      Op("load", I32, <<23>>), Op("load", I32, <<2>>),
      Op("eq", Bool, <<30, 31>>), CondBr(32, 10, 11), Br(9), Br(12),
      Op("load", I32, <<23>>), IConst(I32, 1), Op("add", I32, <<36, 37>>),
      Op("store", NoType, <<23, 38>>), Br(7), Op("load", I32, <<3>>),
      Op("load", I32, <<23>>), Op("add", I32, <<41, 42>>),
      Op("ret", NoType, <<43>>)>>,
    <<<<18>>, <<10, 31>>, <<5, 13, 16, 20, 41>>, <<5>>, <<>>, <<8>>, <<8>>,
      <<9>>, <<>>, <<12>>, <<12>>, <<13>>, <<>>, <<>>, <<16>>, <<>>, <<>>,
      <<19>>, <<>>, <<21>>, <<>>, <<>>, <<25, 26, 30, 36, 39, 42>>, <<25>>,
      <<>>, <<28>>, <<28>>, <<29>>, <<>>, <<32>>, <<32>>, <<33>>, <<>>, <<>>,
      <<>>, <<38>>, <<38>>, <<39>>, <<>>, <<>>, <<43>>, <<43>>, <<44>>, <<>>>>)
joined_dce ==
  Fn(1, <<1, 2, 3, 4, 5, 6, 7, 8, 9, 10>>,
    <<Block(<<1, 2, 3>>, <<2>>, <<>>), Block(<<4, 5, 6, 7>>, <<4>>, <<1>>),
      Block(<<8, 9>>, <<4>>, <<1>>),
      Block(<<10, 11, 12>>, <<5, 6>>, <<2, 3>>), Block(<<13>>, <<>>, <<4>>),
      Block(<<14>>, <<7>>, <<4>>),
      Block(<<15, 16, 17, 18>>, <<8, 10>>, <<6, 9>>),
      Block(<<19, 20, 21>>, <<10, 9>>, <<7>>),
      Block(<<22, 23, 24>>, <<7>>, <<8>>), Block(<<25, 26>>, <<>>, <<7, 8>>)>>,
    <<Param(Bool, 0), Param(I32, 1), Br(1), Op("load", I32, <<2>>),
      IConst(I32, 1), Op("add", I32, <<4, 5>>), Br(3), IConst(I32, 2), Br(3),
      Phi(I32, <<6, 8>>, 2 :> 6 @@ 3 :> 8), Op("load", Bool, <<1>>),
      CondBr(11, 4, 5), Op("ret", NoType, <<10>>), IConst(I32, 0),
      Phi(I32, <<14, 23>>, 6 :> 14 @@ 9 :> 23), IConst(I32, 2),
      Op("slt", Bool, <<15, 16>>), CondBr(17, 8, 9), Op("load", I32, <<2>>),
      Op("eq", Bool, <<15, 19>>), CondBr(20, 10, 11), IConst(I32, 1),
      Op("add", I32, <<15, 22>>), Br(7), Op("add", I32, <<10, 15>>),
      Op("ret", NoType, <<25>>)>>,
    <<<<11>>, <<4, 19>>, <<>>, <<6>>, <<6>>, <<10>>, <<>>, <<10>>, <<>>,
      <<13, 25>>, <<12>>, <<>>, <<>>, <<15>>, <<17, 20, 23, 25>>, <<17>>,
      <<18>>, <<>>, <<20>>, <<21>>, <<>>, <<23>>, <<15>>, <<>>, <<26>>, <<>>>>)

\* fn f(c: bool, n: i32) -> i32 { let mut x = 0; if 1 < 2 { x = n + 1; } else
\* { x = 2; } if c { return x; } while x < n { if x == 3 { break; } x = x +
\* 1; } return x; }
nested_cfg ==
  Fn(1, <<1, 2, 3, 4, 5, 6, 7, 8, 9, 10, 11, 12, 13>>,
    <<Block(<<1, 2, 3, 4, 5, 6, 7, 8, 9>>, <<2, 3>>, <<>>),
      Block(<<10, 11, 12, 13, 14>>, <<4>>, <<1>>),
      Block(<<15, 16, 17>>, <<4>>, <<1>>),
      Block(<<18, 19>>, <<5, 6>>, <<2, 3>>), Block(<<20, 21>>, <<>>, <<4>>),
      Block(<<22>>, <<7>>, <<4>>), Block(<<>>, <<8>>, <<6>>),
      Block(<<23, 24, 25, 26>>, <<9, 13>>, <<7, 12>>),
      Block(<<27, 28, 29, 30>>, <<10, 11>>, <<8>>),
      Block(<<31>>, <<13>>, <<9>>), Block(<<32>>, <<12>>, <<9>>),
      Block(<<33, 34, 35, 36, 37>>, <<8>>, <<11>>),
      Block(<<38, 39>>, <<>>, <<8, 10>>)>>,
    <<Param(Bool, 0), Param(I32, 1), Op("alloca", I32, <<>>), IConst(I32, 0),
      Op("store", NoType, <<3, 4>>), IConst(I32, 1), IConst(I32, 2),
      Op("slt", Bool, <<6, 7>>), CondBr(8, 1, 2), Op("load", I32, <<2>>),
      IConst(I32, 1), Op("add", I32, <<10, 11>>),
      Op("store", NoType, <<3, 12>>), Br(3), IConst(I32, 2),
      Op("store", NoType, <<3, 15>>), Br(3), Op("load", Bool, <<1>>),
      CondBr(18, 4, 5), Op("load", I32, <<3>>), Op("ret", NoType, <<20>>),
      Br(6), Op("load", I32, <<3>>), Op("load", I32, <<2>>),
      Op("slt", Bool, <<23, 24>>), CondBr(25, 8, 9), Op("load", I32, <<3>>),
      IConst(I32, 3), Op("eq", Bool, <<27, 28>>), CondBr(29, 10, 11), Br(9),
      Br(12), Op("load", I32, <<3>>), IConst(I32, 1),
      Op("add", I32, <<33, 34>>), Op("store", NoType, <<3, 35>>), Br(7),
      Op("load", I32, <<3>>), Op("ret", NoType, <<38>>)>>,
    <<<<18>>, <<10, 24>>, <<5, 13, 16, 20, 23, 27, 33, 36, 38>>, <<5>>, <<>>,
      <<8>>, <<8>>, <<9>>, <<>>, <<12>>, <<12>>, <<13>>, <<>>, <<>>, <<16>>,
      <<>>, <<>>, <<19>>, <<>>, <<21>>, <<>>, <<>>, <<25>>, <<25>>, <<26>>,
      <<>>, <<29>>, <<29>>, <<30>>, <<>>, <<>>, <<>>, <<35>>, <<35>>, <<36>>,
      <<>>, <<>>, <<39>>, <<>>>>)
nested_scfg ==
  Fn(1, <<1, 2, 3, 4, 5, 6, 7, 8, 9, 10>>,
    <<Block(<<1, 2, 3, 4, 5, 6, 7, 8, 9>>, <<2, 3>>, <<>>),
      Block(<<10, 11, 12, 13, 14>>, <<4>>, <<1>>),
      Block(<<15, 16, 17>>, <<4>>, <<1>>),
      Block(<<18, 19>>, <<5, 6>>, <<2, 3>>), Block(<<20, 21>>, <<>>, <<4>>),
      Block(<<>>, <<7>>, <<4>>),
      Block(<<22, 23, 24, 25>>, <<8, 10>>, <<6, 9>>),
      Block(<<26, 27, 28, 29>>, <<10, 9>>, <<7>>),
      Block(<<30, 31, 32, 33, 34>>, <<7>>, <<8>>),
      Block(<<35, 36>>, <<>>, <<7, 8>>)>>,
    <<Param(Bool, 0), Param(I32, 1), Op("alloca", I32, <<>>), IConst(I32, 0),
      Op("store", NoType, <<3, 4>>), IConst(I32, 1), IConst(I32, 2),
      Op("slt", Bool, <<6, 7>>), CondBr(8, 1, 2), Op("load", I32, <<2>>),
      IConst(I32, 1), Op("add", I32, <<10, 11>>),
      Op("store", NoType, <<3, 12>>), Br(3), IConst(I32, 2),
      Op("store", NoType, <<3, 15>>), Br(3), Op("load", Bool, <<1>>),
      CondBr(18, 4, 5), Op("load", I32, <<3>>), Op("ret", NoType, <<20>>),
      Op("load", I32, <<3>>), Op("load", I32, <<2>>),
      Op("slt", Bool, <<22, 23>>), CondBr(24, 8, 9), Op("load", I32, <<3>>),
      IConst(I32, 3), Op("eq", Bool, <<26, 27>>), CondBr(28, 10, 11),
      Op("load", I32, <<3>>), IConst(I32, 1), Op("add", I32, <<30, 31>>),
      Op("store", NoType, <<3, 32>>), Br(7), Op("load", I32, <<3>>),
      Op("ret", NoType, <<35>>)>>,
    <<<<18>>, <<10, 23>>, <<5, 13, 16, 20, 22, 26, 30, 33, 35>>, <<5>>, <<>>,
      <<8>>, <<8>>, <<9>>, <<>>, <<12>>, <<12>>, <<13>>, <<>>, <<>>, <<16>>,
      <<>>, <<>>, <<19>>, <<>>, <<21>>, <<>>, <<24>>, <<24>>, <<25>>, <<>>,
      <<28>>, <<28>>, <<29>>, <<>>, <<32>>, <<32>>, <<33>>, <<>>, <<>>,
      <<36>>, <<>>>>)

\* fn f(p: i32, q: i32) -> i32 { let a = p; let b = q; let max = if a > b { a
\* } else { b }; max }
max_dce ==
  Fn(1, <<1, 2, 3, 4>>,
    <<Block(<<1, 2, 3, 4, 5, 6>>, <<2, 3>>, <<>>), Block(<<7>>, <<4>>, <<1>>),
      Block(<<8>>, <<4>>, <<1>>), Block(<<9, 10>>, <<>>, <<2, 3>>)>>,
    <<Param(I32, 0), Param(I32, 1), Op("load", I32, <<1>>),
      Op("load", I32, <<2>>), Op("slt", Bool, <<4, 3>>), CondBr(5, 1, 2),
      Br(3), Br(3), Phi(I32, <<3, 4>>, 2 :> 3 @@ 3 :> 4),
      Op("ret", NoType, <<9>>)>>,
    <<<<3>>, <<4>>, <<5, 9>>, <<5, 9>>, <<6>>, <<>>, <<>>, <<>>, <<10>>,
      <<>>>>)

\* fn f(c: bool) { if c { loop { } } }
spinif_cfg ==
  Fn(1, <<1, 2, 3, 4, 5, 6>>,
    <<Block(<<1, 2, 3>>, <<2, 5>>, <<>>), Block(<<>>, <<3>>, <<1>>),
      Block(<<4>>, <<3>>, <<2, 3>>), Block(<<5>>, <<6>>, <<>>),
      Block(<<6>>, <<6>>, <<1>>), Block(<<7>>, <<>>, <<4, 5>>)>>,
    <<Param(Bool, 0), Op("load", Bool, <<1>>), CondBr(2, 1, 2), Br(4), Br(3),
      Br(3), Op("ret", NoType, <<>>)>>,
    <<<<2>>, <<3>>, <<>>, <<>>, <<>>, <<>>, <<>>>>)

\* fn g(a: i32, b: i32) -> bool { return a < b; }
\* fn f(n: i32) -> i32 { let mut a = 1; let mut b = n; let mut t = 0; while
\* g(a, b) { t = a; a = b; b = t; } return a; }
rotate2_cfg ==
  Fn(1, <<1, 2, 3, 4>>,
    <<Block(<<1, 2, 3, 4, 5, 6, 7, 8, 9, 10>>, <<2>>, <<>>),
      Block(<<11, 12, 13, 14>>, <<3, 4>>, <<1, 3>>),
      Block(<<15, 16, 17, 18, 19, 20, 21>>, <<2>>, <<2>>),
      Block(<<22, 23>>, <<>>, <<2>>)>>,
    <<Param(I32, 0), Op("alloca", I32, <<>>), IConst(I32, 1),
      Op("store", NoType, <<2, 3>>), Op("alloca", I32, <<>>),
      Op("load", I32, <<1>>), Op("store", NoType, <<5, 6>>),
      Op("alloca", I32, <<>>), IConst(I32, 0), Op("store", NoType, <<8, 9>>),
      Op("load", I32, <<2>>), Op("load", I32, <<5>>),
      Call(Bool, 0, <<11, 12>>), CondBr(13, 2, 3), Op("load", I32, <<2>>),
      Op("store", NoType, <<8, 15>>), Op("load", I32, <<5>>),
      Op("store", NoType, <<2, 17>>), Op("load", I32, <<8>>),
      Op("store", NoType, <<5, 19>>), Br(1), Op("load", I32, <<2>>),
      Op("ret", NoType, <<22>>)>>,
    <<<<6>>, <<4, 11, 15, 18, 22>>, <<4>>, <<>>, <<7, 12, 17, 20>>, <<7>>,
      <<>>, <<10, 16, 19>>, <<10>>, <<>>, <<13>>, <<13>>, <<14>>, <<>>,
      <<16>>, <<>>, <<18>>, <<>>, <<20>>, <<>>, <<>>, <<23>>, <<>>>>)
rotate2_scfg ==
  Fn(1, <<1, 2, 3, 4>>,
    <<Block(<<1, 2, 3, 4, 5, 6, 7, 8, 9, 10>>, <<2>>, <<>>),
      Block(<<11, 12, 13, 14>>, <<3, 4>>, <<1, 3>>),
      Block(<<15, 16, 17, 18, 19, 20, 21>>, <<2>>, <<2>>),
      Block(<<22, 23>>, <<>>, <<2>>)>>,
    <<Param(I32, 0), Op("alloca", I32, <<>>), IConst(I32, 1),
      Op("store", NoType, <<2, 3>>), Op("alloca", I32, <<>>),
      Op("load", I32, <<1>>), Op("store", NoType, <<5, 6>>),
      Op("alloca", I32, <<>>), IConst(I32, 0), Op("store", NoType, <<8, 9>>),
      Op("load", I32, <<2>>), Op("load", I32, <<5>>),
      Call(Bool, 0, <<11, 12>>), CondBr(13, 2, 3), Op("load", I32, <<2>>),
      Op("store", NoType, <<8, 15>>), Op("load", I32, <<5>>),
      Op("store", NoType, <<2, 17>>), Op("load", I32, <<8>>),
      Op("store", NoType, <<5, 19>>), Br(1), Op("load", I32, <<2>>),
      Op("ret", NoType, <<22>>)>>,
    <<<<6>>, <<4, 11, 15, 18, 22>>, <<4>>, <<>>, <<7, 12, 17, 20>>, <<7>>,
      <<>>, <<10, 16, 19>>, <<10>>, <<>>, <<13>>, <<13>>, <<14>>, <<>>,
      <<16>>, <<>>, <<18>>, <<>>, <<20>>, <<>>, <<>>, <<23>>, <<>>>>)

\* fn f(n: i32) -> i32 { let mut i = 0; while i < n { let x = i; i = x + 1; }
\* return i; }
scope_cfg ==
  Fn(1, <<1, 2, 3, 4>>,
    <<Block(<<1, 2, 3, 4>>, <<2>>, <<>>),
      Block(<<5, 6, 7, 8>>, <<3, 4>>, <<1, 3>>),
      Block(<<9, 10, 11, 12, 13, 14, 15, 16>>, <<2>>, <<2>>),
      Block(<<17, 18>>, <<>>, <<2>>)>>,
    <<Param(I32, 0), Op("alloca", I32, <<>>), IConst(I32, 0),
      Op("store", NoType, <<2, 3>>), Op("load", I32, <<2>>),
      Op("load", I32, <<1>>), Op("slt", Bool, <<5, 6>>), CondBr(7, 2, 3),
      Op("alloca", I32, <<>>), Op("load", I32, <<2>>),
      Op("store", NoType, <<9, 10>>), Op("load", I32, <<9>>), IConst(I32, 1),
      Op("add", I32, <<12, 13>>), Op("store", NoType, <<2, 14>>), Br(1),
      Op("load", I32, <<2>>), Op("ret", NoType, <<17>>)>>,
    <<<<6>>, <<4, 5, 10, 15, 17>>, <<4>>, <<>>, <<7>>, <<7>>, <<8>>, <<>>,
      <<11, 12>>, <<11>>, <<>>, <<14>>, <<14>>, <<15>>, <<>>, <<>>, <<18>>,
      <<>>>>)

\* fn f(c: bool) -> i32 { return 1; if c { return 2; } return 3; }
dead_cfg ==
  Fn(1, <<1, 2, 3, 4, 5>>,
    <<Block(<<1, 2, 3>>, <<>>, <<>>), Block(<<4, 5>>, <<3, 4>>, <<>>),
      Block(<<6, 7>>, <<>>, <<2>>), Block(<<8>>, <<5>>, <<2>>),
      Block(<<9, 10>>, <<>>, <<4>>)>>,
    <<Param(Bool, 0), IConst(I32, 1), Op("ret", NoType, <<2>>),
      Op("load", Bool, <<1>>), CondBr(4, 1, 2), IConst(I32, 2),
      Op("ret", NoType, <<6>>), Br(3), IConst(I32, 3),
      Op("ret", NoType, <<9>>)>>,
    <<<<4>>, <<3>>, <<>>, <<5>>, <<>>, <<7>>, <<>>, <<>>, <<10>>, <<>>>>)

\* fn f(n: i32) -> i32 { let x = n + 1; return x; let y = x + 2; if y == n {
\* return y; } y }
afterret_cfg ==
  Fn(1, <<1, 2, 3, 4, 5>>,
    <<Block(<<1, 2, 3, 4, 5, 6, 7, 8>>, <<>>, <<>>),
      Block(<<9, 10, 11, 12, 13, 14, 15, 16, 17>>, <<3, 4>>, <<>>),
      Block(<<18, 19>>, <<>>, <<2>>), Block(<<20>>, <<5>>, <<2>>),
      Block(<<21, 22>>, <<>>, <<4>>)>>,
    <<Param(I32, 0), Op("alloca", I32, <<>>), Op("load", I32, <<1>>),
      IConst(I32, 1), Op("add", I32, <<3, 4>>), Op("store", NoType, <<2, 5>>),
      Op("load", I32, <<2>>), Op("ret", NoType, <<7>>),
      Op("alloca", I32, <<>>), Op("load", I32, <<2>>), IConst(I32, 2),
      Op("add", I32, <<10, 11>>), Op("store", NoType, <<9, 12>>),
      Op("load", I32, <<9>>), Op("load", I32, <<1>>),
      Op("eq", Bool, <<14, 15>>), CondBr(16, 1, 2), Op("load", I32, <<9>>),
      Op("ret", NoType, <<18>>), Br(3), Op("load", I32, <<9>>),
      Op("ret", NoType, <<21>>)>>,
    <<<<3, 15>>, <<6, 7, 10>>, <<5>>, <<5>>, <<6>>, <<>>, <<8>>, <<>>,
      <<13, 14, 18, 21>>, <<12>>, <<12>>, <<13>>, <<>>, <<16>>, <<16>>,
      <<17>>, <<>>, <<19>>, <<>>, <<>>, <<22>>, <<>>>>)

=============================================================================
