--------------------------- MODULE MCCompilerStale ---------------------------
(***************************************************************************)
(* A call whose first argument declares a variable: the fifth symbol makes *)
(* the table of symbols move while the call's signature is being read.     *)
(***************************************************************************)
EXTENDS Compiler

MCScaled == (8 :> 8) @@ (16 :> 10) @@ (32 :> 12) @@ (64 :> 14)
MCSamples == {0}
MCSources ==
  {"fn g(a: i32, b: i32) -> i32 { a } fn f() -> i32 { g({ let x = 1; x }, 2) }"}
=============================================================================
