---------------------------- MODULE IntSemantics ----------------------------
(***************************************************************************)
(* The integers of the compiler: ir/int_semantics.hpp, and the literal     *)
(* check of sema/types.hpp.  A constant is held in a machine word (a       *)
(* uint64_t in the code), normalised to the width and the signedness of    *)
(* its type: truncated, then sign- or zero-extended back to the word.      *)
(*                                                                         *)
(* A word is a natural number below 2^WordBits and every C++ operation on  *)
(* it wraps as the uint64_t one does.  A type is a record with the kind    *)
(* and the bits of struct type.                                            *)
(***************************************************************************)
EXTENDS Integers

CONSTANT WordBits            \* the bits of a word: 64 in the code

ASSUME WordBitsAssumption == WordBits \in Nat \ {0}

None == -1                   \* std::nullopt, which is no word

Word == 0 .. 2^WordBits - 1

Wrap(n) == n % 2^WordBits

\* static_cast<int64_t> of a word
ToSigned(w) == IF w >= 2^(WordBits - 1) THEN w - 2^WordBits ELSE w

is_signed_integer_ty(ty) == ty.kind = "_int"
is_unsigned_integer_ty(ty) == ty.kind = "_uint"
is_integer_ty(ty) == ty.kind \in {"_int", "_uint"}

-----------------------------------------------------------------------------
\* The division of C++ rounds towards zero; \div rounds down.
Abs(x) == IF x < 0 THEN -x ELSE x
TruncDiv(x, y) ==
  IF (x < 0) = (y < 0) THEN Abs(x) \div Abs(y) ELSE -(Abs(x) \div Abs(y))
TruncMod(x, y) == x - y * TruncDiv(x, y)

normalize_zero_extend(v, ty) == v % 2^ty.bits

\* Truncates a word to the width of its type and extends it back.
normalize(v, ty) ==
  LET low == v % 2^ty.bits
      negative == is_signed_integer_ty(ty) /\ low >= 2^(ty.bits - 1)
  IN  IF ty.bits >= WordBits THEN v
      ELSE IF negative THEN low + (2^WordBits - 2^ty.bits)
      ELSE low

Comparisons == {"eq", "slt", "sle", "sgt", "sge", "ult", "ule", "ugt", "uge"}

is_comparison(op) == op \in Comparisons

eval_cmp_unsigned(op, a, b) ==
  CASE op = "eq" -> a = b
    [] op \in {"ult", "slt"} -> a < b
    [] op \in {"ule", "sle"} -> a <= b
    [] op \in {"ugt", "sgt"} -> a > b
    [] op \in {"uge", "sge"} -> a >= b

eval_cmp(op, a, b) ==
  CASE op = "eq"  -> a = b
    [] op = "ult" -> a < b
    [] op = "ule" -> a <= b
    [] op = "ugt" -> a > b
    [] op = "uge" -> a >= b
    [] op = "slt" -> ToSigned(a) < ToSigned(b)
    [] op = "sle" -> ToSigned(a) <= ToSigned(b)
    [] op = "sgt" -> ToSigned(a) > ToSigned(b)
    [] op = "sge" -> ToSigned(a) >= ToSigned(b)

Arithmetic == {"add", "sub", "mul", "udiv", "umod", "sdiv", "smod",
               "shl", "shr", "sar"}

SignedMin(ty) == ToSigned(normalize(2^(ty.bits - 1), ty))

NotFolded_no_overflow(op, ty, a, b) ==
  \/ op \in {"udiv", "umod", "sdiv", "smod"} /\ b = 0
  \/ op \in {"shl", "shr", "sar"} /\ b >= ty.bits

\* The operations whose result the compiler refuses to compute: a zero
\* divisor, the one quotient that overflows, a shift by the width or more.
NotFolded(op, ty, a, b) ==
  \/ op \in {"udiv", "umod", "sdiv", "smod"} /\ b = 0
  \/ op \in {"sdiv", "smod"} /\ ToSigned(a) = SignedMin(ty) /\ ToSigned(b) = -1
  \/ op \in {"shl", "shr", "sar"} /\ b >= ty.bits

\* The asserts of eval_arith: divisions, remainders and right shifts have an
\* opcode for each signedness.
FitsSignedness(op, ty) ==
  /\ op \in {"udiv", "umod", "shr"} => is_unsigned_integer_ty(ty)
  /\ op \in {"sdiv", "smod", "sar"} => is_signed_integer_ty(ty)

\* Where an assertion fails, of eval_arith or of the normalize it calls.
eval_arith_asserts(op, ty, b) ==
  \/ ~FitsSignedness(op, ty)
  \/ op \in {"add", "sub", "mul"} /\ ~is_integer_ty(ty)
  \/ op = "shl" /\ b < ty.bits /\ ~is_integer_ty(ty)

\* The word that is computed, if no assertion fails.
eval_arith(op, ty, a, b) ==
  IF NotFolded(op, ty, a, b) THEN None
  ELSE CASE op = "add"  -> normalize(Wrap(a + b), ty)
         [] op = "sub"  -> normalize(Wrap(a - b), ty)
         [] op = "mul"  -> normalize(Wrap(a * b), ty)
         [] op = "udiv" -> normalize(a \div b, ty)
         [] op = "umod" -> normalize(a % b, ty)
         [] op = "sdiv" -> normalize(Wrap(TruncDiv(ToSigned(a), ToSigned(b))), ty)
         [] op = "smod" -> normalize(Wrap(TruncMod(ToSigned(a), ToSigned(b))), ty)
         [] op = "shl"  -> normalize(Wrap(a * 2^b), ty)
         [] op = "shr"  -> a \div 2^b
         [] op = "sar"  -> Wrap(ToSigned(a) \div 2^b)

\* sccp.hpp, the neg of folded_value
eval_neg(ty, a) == normalize(Wrap(0 - a), ty)

-----------------------------------------------------------------------------
is_within_bounds_no_min(ty, magnitude, negated) ==
  LET value_bits == IF is_signed_integer_ty(ty) THEN ty.bits - 1 ELSE ty.bits
  IN  magnitude <= 2^value_bits - 1

\* Does the type checker accept the literal, or the literal under a minus?
is_within_bounds(ty, magnitude, negated) ==
  LET value_bits == IF is_signed_integer_ty(ty) THEN ty.bits - 1 ELSE ty.bits
      max == 2^value_bits - 1
  IN  IF negated /\ is_unsigned_integer_ty(ty) THEN magnitude = 0
      ELSE magnitude <= IF negated THEN max + 1 ELSE max
=============================================================================
