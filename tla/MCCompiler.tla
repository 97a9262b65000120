----------------------------- MODULE MCCompiler ------------------------------
(***************************************************************************)
(* Texts: functions that run through every construct the lowerings know,   *)
(* declarations and expressions only the parser knows, two operators in    *)
(* every order and grouping, and programs to be rejected.                  *)
(***************************************************************************)
EXTENDS Compiler

MCScaled == (8 :> 8) @@ (16 :> 10) @@ (32 :> 12) @@ (64 :> 14)
MCSamples == {0, 2, 4095}

Running == {
  \* precedence, grouping and the order of operands
  "fn g(a: i32) -> i32 { a } fn f(n: i32) -> i32 { g(1) - g(n) * 2 - g(3) % 2 }",
  "fn g(a: i32) -> i32 { a } fn f(n: i32) -> bool { g(n) > 1 && g(2) <= g(n) || !(g(n) != 0) }",
  "fn f(a: u8, b: i8) -> bool { a / 3 >= a % 2 && b / 3 >= b % 2 && a >> 1 < 200 && b >> 1 < -1 }",
  "fn f(n: i32) -> i32 { let mut x = 1; let mut y: i32 = n; x = y = x + 2; y *= x - 1; y << 1 }",
  \* conditions, branches without an else, blocks that return
  "fn f(c: bool, n: i32) -> i32 { if c { return n; } else if n == 2 { return -n; } 7 }",
  "fn f(c: bool, n: i32) -> i32 { let x: i32 = if c { n } else { return 1; }; x + 1 }",
  "fn f(c: bool) -> i32 { return 1; if c { return 2; } return 3; }",
  "fn g(a: i32) { } fn f(c: bool) { if c { g(1); } g(if c { 2 } else { 3 }) }",
  "fn g(a: i32) { } fn f(n: i32) { if n == 2 { return g(n); } g(3) }",
  \* names: a block hides the ones around it, a let sees the one it hides
  "fn f(x: i32) -> i32 { let y = { let x = x + 1; { let x = x * 2; x } + x }; x + y }",
  "fn f(x: i32) -> i32 { let mut y = 0; { let y = 5; }; if x == 2 { let z = 9; y = z; } y }",
  "fn f() -> i32 { let mut x = 2; x = { let y = x * 2; y + 1 }; x }",
  \* loops
  "fn g(a: i32) { } fn f(n: i32) -> i32 { let mut i = 0; while i < 4 { i += 1; if i == n { continue; } g(i); if i == 3 { break; } } i }",
  "fn f(n: i32) -> i32 { let mut i = n; loop { loop { i = i + 1; break; } if i > 2 { break; } } i }",
  "fn g() -> bool { true } fn f() { while g() && !g() { if g() { break; } else { continue; } } }",
  "fn f() { loop { } }",
  \* the bounds of the literals
  "fn f(a: i8, b: u8) -> bool { a == -128 || 127 > a && b < 255 }"}

Declared == {
  "enum A<T, U> { B(T, &mut U,), C, } struct P<T> { x: i32?, y: Q<T, bool>[], } static mut s: i32 = 3;",
  "static s: i32 = 1 + 2 * 3; fn f() -> i32 { 4 } /* no star */ fn g(a: &i8) { return; } // end\n",
  "fn f() { a.b(c)[d + 1].e; P { x: -1, y: { 2 } }; &mut a; \"a\\\"b\"; 1.5 + 2; g()(1, 2); }",
  "fn f() { match x { A(y, 3) => 2, \"s\" => { 5 }, true => if a { 1 } else { 2 } } }"}

Rejected == {
  "fn f() -> i32 { 1foo }", "fn f() -> i32 { (1 + 2 }", "fn f() { 1 = 2; }", "fn f() { let x 1; }",
  "fn f() -> i32 { x }", "fn f() -> bool { 1 == true }", "fn f() -> i32 { true }",
  "fn f(x: i32) -> i32 { x = 1 }", "fn f() { break; }", "fn f(x: u8) { let x = 256 + x; }",
  "fn f() { let x = 1; let x = 2; }", "fn f(a: i32) { f(); }", "fn f() -> i32 { if true { 1 } }",
  "fn f() { /* }", "fn f() -> i8 { -129 }", "fn f() { while 1 { } }"}

\* Two operators, one of each level, in either order and grouping.
Ops == {"||", "&&", "==", "<=", "<<", "-", "%"}
Groups == {"fn f() { (a " \o p \o " b) " \o q \o " c; a " \o p \o " (b " \o q \o " c); -(a "
             \o p \o " b) " \o q \o " !c(d); x = y = a " \o p \o "-b " \o q \o "c; }" :
           p \in Ops, q \in Ops}

MCSources == Running \cup Declared \cup Rejected \cup Groups
=============================================================================
