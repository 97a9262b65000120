--------------------------------- MODULE Ast ---------------------------------
(***************************************************************************)
(* The abstract syntax (frontend/ast.hpp) as records: the field e of an    *)
(* expression, s of a statement and t of a declaration names the           *)
(* alternative of the variant it is.  What may be absent is a sequence of  *)
(* at most one element.  The semantic analysis hangs what it finds out     *)
(* about a node (its type, symbol or function) on the node itself, as ann, *)
(* where the code has maps from nodes.                                     *)
(***************************************************************************)
EXTENDS Sequences
LOCAL INSTANCE TLC

Untyped == [kind |-> "untyped", bits |-> 0]
NoInfo == [ty |-> Untyped, id |-> 0]
Expr(kind, rest) == rest @@ [e |-> kind, ann |-> NoInfo]

num_lit(n) == Expr("num", [val |-> n])
float_lit(text) == Expr("float", [text |-> text])
bool_lit(b) == Expr("bool", [val |-> IF b THEN 1 ELSE 0])
string_lit(text) == Expr("string", [text |-> text])
identifier(name) == Expr("id", [name |-> name])
unary(op, lhs) == Expr("unary", [op |-> op, lhs |-> lhs])
binary(op, lhs, rhs) == Expr("binary", [op |-> op, lhs |-> lhs, rhs |-> rhs])
relational(op, lhs, rhs) == Expr("relational", [op |-> op, lhs |-> lhs, rhs |-> rhs])
assign(name, value) == Expr("assign", [name |-> name, value |-> value])
call(callee, args) == Expr("call", [callee |-> callee, args |-> args])
field_access(object, field) == Expr("field", [object |-> object, field |-> field])
array_index(array, index) == Expr("index", [array |-> array, index |-> index])
if_(cond, then_body, else_body) ==
  Expr("if", [cond |-> cond, then_body |-> then_body, else_body |-> else_body])
while_(cond, body) == Expr("while", [cond |-> cond, body |-> body])
loop_(body) == Expr("loop", [body |-> body])
match_arm(pattern, value) == [pattern |-> pattern, value |-> value]
match_(value, arms) == Expr("match", [value |-> value, arms |-> arms])
struct_literal_field(name, value) == [name |-> name, value |-> value]
struct_literal(name, fields) == Expr("struct", [name |-> name, fields |-> fields])
block(stmts, trailing) == Expr("block", [stmts |-> stmts, trailing |-> trailing])

type_annotation(base, args, ref, mut, nullable, array) ==
  [base_name |-> base, generic_args |-> args, is_reference |-> ref,
   is_mutable_ref |-> mut, is_nullable |-> nullable, is_array |-> array]
unit_annotation == type_annotation("unit", <<>>, FALSE, FALSE, FALSE, FALSE)

var_decl(mut, name, ty, initializer) ==
  [mut |-> mut, name |-> name, ty |-> ty, initializer |-> initializer, id |-> 0]
let(decl) == [s |-> "let", decl |-> decl]
ret(val) == [s |-> "ret", val |-> val]
brk == [s |-> "brk"]
cont == [s |-> "cont"]
expr_stmt(expr) == [s |-> "expr", expr |-> expr]

param(name, ty) == [name |-> name, ty |-> ty]
fn_decl(name, generics, params, ret_ty, body) ==
  [t |-> "fn", name |-> name, generics |-> generics, params |-> params,
   ret_ty |-> ret_ty, body |-> body]
enum_member(name, data_types) == [name |-> name, data_types |-> data_types]
enum_decl(name, generics, members) ==
  [t |-> "enum", name |-> name, generics |-> generics, members |-> members]
struct_decl(name, generics, fields) ==
  [t |-> "struct", name |-> name, generics |-> generics, fields |-> fields]
global_var_decl(decl) == [t |-> "static", decl |-> decl]
=============================================================================
