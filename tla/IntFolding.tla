------------------------------ MODULE IntFolding ------------------------------
(***************************************************************************)
(* A chain of integer constants of one type, as the compiler computes it:  *)
(* a literal that the type checker accepted is lowered to an iconst (with  *)
(* a neg for a leading minus) and each folded operation puts its result    *)
(* where the next one reads it.  The properties relate the machine words   *)
(* to the integers they stand for.                                         *)
(***************************************************************************)
EXTENDS IntSemantics

CONSTANT Types               \* the integer types of the chain

ASSUME TypesAssumption ==
  \A ty \in Types : is_integer_ty(ty) /\ ty.bits \in 1 .. WordBits

VARIABLES ty,                \* the type of the chain
          acc,               \* the word computed last, None if not folded
          last               \* the step that computed it

vars == <<ty, acc, last>>

\* The opcodes that from_opkind selects for a type: for no others does
\* eval_arith promise anything (eval_arith_asserts).
OpsOf(t) == {"add", "sub", "mul", "shl"} \cup
            (IF is_signed_integer_ty(t) THEN {"sdiv", "smod", "sar"}
                                        ELSE {"udiv", "umod", "shr"})
\* The comparisons that fit its signedness (lowering itself only emits eq and
\* slt or ult: the others are desugared in ast2hir.hpp).
CmpsOf(t) == {"eq"} \cup
             (IF is_signed_integer_ty(t) THEN {"slt", "sle", "sgt", "sge"}
                                         ELSE {"ult", "ule", "ugt", "uge"})

Words(t) == {normalize(w, t) : w \in Word}

Init ==
  /\ ty \in Types
  /\ acc = None
  /\ last = [op |-> "start", a |-> 0, b |-> 0]

Literal(magnitude, negated) ==
  /\ is_within_bounds(ty, magnitude, negated)
  /\ LET w == normalize(magnitude, ty)
     IN  acc' = IF negated THEN eval_neg(ty, w) ELSE w
  /\ last' = [op |-> IF negated THEN "-lit" ELSE "lit", a |-> magnitude, b |-> 0]
  /\ UNCHANGED ty

Fold(op, w) ==
  /\ acc # None
  /\ acc' = eval_arith(op, ty, acc, w)
  /\ last' = [op |-> op, a |-> acc, b |-> w]
  /\ UNCHANGED ty

Negate ==
  /\ acc # None
  /\ acc' = eval_neg(ty, acc)
  /\ last' = [op |-> "neg", a |-> acc, b |-> 0]
  /\ UNCHANGED ty

Next ==
  \/ \E magnitude \in Word, negated \in BOOLEAN : Literal(magnitude, negated)
  \/ \E op \in OpsOf(ty), w \in Words(ty) : Fold(op, w)
  \/ Negate

Spec == Init /\ [][Next]_vars

-----------------------------------------------------------------------------
\* The integer a word of type t stands for, and the integers t has room for.
Value(t, w) == IF is_signed_integer_ty(t) THEN ToSigned(w) ELSE w
Lowest(t) == IF is_signed_integer_ty(t) THEN -(2^(t.bits - 1)) ELSE 0
InRange(t, n) == n \in Lowest(t) .. Lowest(t) + 2^t.bits - 1
Congruent(t, m, n) == m % 2^t.bits = n % 2^t.bits

\* However long the chain, the word stands for an integer of its type: a
\* result that escaped normalisation would make every later 64-bit
\* comparison, division or right shift of it wrong (int_semantics.hpp 52-92
\* returns shr and sar without normalize).
Canonical == acc # None => InRange(ty, Value(ty, acc))

\* A literal that is_within_bounds lets through (types.hpp 99-109) denotes
\* the same integer once it is an iconst, or the neg of an iconst: -128 is
\* accepted as i8 although 128 does not fit.  None that fits is refused.
LiteralExact ==
  /\ last.op = "lit" => Value(ty, acc) = last.a
  /\ last.op = "-lit" => Value(ty, acc) = -last.a
  /\ \A m \in Word : /\ is_within_bounds(ty, m, FALSE) <=> InRange(ty, m)
                     /\ is_within_bounds(ty, m, TRUE) <=> InRange(ty, -m)

\* q and r are the quotient and the remainder of x by y that C++ defines
IsQuotient(q, r, x, y) == x = q * y + r /\ Abs(r) < Abs(y) /\ r * x >= 0

\* A folded operation agrees with integer arithmetic modulo the width, and
\* is refused exactly where that arithmetic has no answer of the type
\* (int_semantics.hpp 52-92).
FoldExact ==
  LET x == Value(ty, last.a)
      y == Value(ty, last.b)
      r == Value(ty, acc)
  IN  CASE last.op = "add" -> Congruent(ty, r, x + y)
        [] last.op = "sub" -> Congruent(ty, r, x - y)
        [] last.op = "mul" -> Congruent(ty, r, x * y)
        [] last.op = "neg" -> Congruent(ty, r, -x)
        [] last.op \in {"sdiv", "udiv"} ->
             IF acc = None THEN y = 0 \/ (x = Lowest(ty) /\ y = -1)
             ELSE y # 0 /\ \E m \in -Abs(y) .. Abs(y) : IsQuotient(r, m, x, y)
        [] last.op \in {"smod", "umod"} ->
             IF acc = None THEN y = 0 \/ (x = Lowest(ty) /\ y = -1)
             ELSE y # 0 /\ \E q \in -Abs(x) .. Abs(x) : IsQuotient(q, r, x, y)
        [] last.op = "shl" ->
             IF acc = None THEN y \notin 0 .. ty.bits - 1
             ELSE Congruent(ty, r, x * 2^last.b)
        [] last.op \in {"shr", "sar"} ->
             IF acc = None THEN y \notin 0 .. ty.bits - 1
             ELSE r * 2^last.b <= x /\ x < (r + 1) * 2^last.b
        [] OTHER -> acc \in Word \cup {None}

\* The comparison opcode that lowering picks for the type of the operands
\* orders the words as the integers they stand for (int_semantics.hpp
\* 35-50): the signed opcodes read the sign-extended word.
CompareExact ==
  acc # None =>
    \A w \in Words(ty), op \in CmpsOf(ty) :
      LET x == Value(ty, acc)
          y == Value(ty, w)
      IN  eval_cmp(op, acc, w) <=> CASE op = "eq" -> x = y
                                     [] op \in {"slt", "ult"} -> x < y
                                     [] op \in {"sle", "ule"} -> x <= y
                                     [] op \in {"sgt", "ugt"} -> x > y
                                     [] op \in {"sge", "uge"} -> x >= y
=============================================================================
