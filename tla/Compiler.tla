------------------------------ MODULE Compiler -------------------------------
(***************************************************************************)
(* The driver up to the control flow graph (driver/compiler.cpp): a text   *)
(* goes through the lexer, the parser, the semantic analysis, the two      *)
(* lowerings and the CFG builder, each of which may reject it or fail.     *)
(* Then one of the functions runs.  What the optimiser makes of such       *)
(* graphs is module Pipeline.                                              *)
(***************************************************************************)
EXTENDS IntSemantics, SequencesExt

CONSTANTS Sources,           \* texts
          Scaled,            \* the bits the types of 8, 16, 32 and 64 bits have here
          Samples,           \* the integers a caller or a callee may supply
          MaxBlocks          \* blocks a run enters before it is cut off

ASSUME SamplesAssumption == Samples \subseteq Word /\ MaxBlocks \in Nat \ {0}

VARIABLES text,
          stage,             \* what there is of the program so far
          toks, items, sema, hir, ir,
          which, fn,         \* the function that runs, by number and as a graph
          m                  \* the machine that runs it

vars == <<text, stage, toks, items, sema, hir, ir, which, fn, m>>

lexer == INSTANCE Lexer
parser == INSTANCE Parser
semantic == INSTANCE Semantic
hir_builder == INSTANCE Hir
ir_builder == INSTANCE Lowering
Exec == INSTANCE IrExec
Written == INSTANCE SourceText
Types == INSTANCE SourceTypes
Meaning == INSTANCE SourceMeaning
I == INSTANCE Ir

-----------------------------------------------------------------------------
Init ==
  /\ text \in Sources
  /\ stage = "text"
  /\ toks = <<>> /\ items = <<>> /\ sema = <<>> /\ hir = <<>> /\ ir = <<>>
  /\ which = 0 /\ fn = <<>> /\ m = [status |-> "idle"]

Lex ==
  /\ stage = "text"
  /\ LET l == lexer!lex(text)
     IN  toks' = l.toks /\ stage' = IF l.failed THEN "rejected" ELSE "tokens"
  /\ UNCHANGED <<text, items, sema, hir, ir, which, fn, m>>

Parse ==
  /\ stage = "tokens"
  /\ \E p \in {parser!parse_module(toks)} :
         items' = p.items /\ stage' = IF p.failed THEN "rejected" ELSE "ast"
  /\ UNCHANGED <<text, toks, sema, hir, ir, which, fn, m>>

\* Once a reference was read whose vector has moved, anything may happen.
Analyze ==
  /\ stage = "ast"
  /\ \E a \in {semantic!analyze(items)} :
         /\ items' = IF a.z.status = "ok" THEN a.e ELSE items
         /\ sema' = a.z
         /\ stage' \in {IF a.z.status = "ok" THEN "typed" ELSE "rejected"}
                        \cup (IF a.z.dangling THEN {"undefined"} ELSE {})
  /\ UNCHANGED <<text, toks, hir, ir, which, fn, m>>

LowerToHir ==
  /\ stage = "typed"
  /\ LET h == hir_builder!lower_ast_to_hir(items, sema)
     IN  IF h = <<>> THEN stage' = "failed" /\ UNCHANGED hir ELSE stage' = "hir" /\ hir' = h[1]
  /\ UNCHANGED <<text, toks, items, sema, ir, which, fn, m>>

LowerToIr ==
  /\ stage = "hir"
  /\ ir' = [k \in DOMAIN hir |-> ir_builder!build(hir[k])]
  /\ stage' = IF \A k \in DOMAIN hir : ir'[k].status = "ok" THEN "ir" ELSE "failed"
  /\ UNCHANGED <<text, toks, items, sema, hir, which, fn, m>>

\* The graph of each function; one of them is kept.
BuildCfg ==
  /\ stage = "ir"
  /\ \E k \in DOMAIN ir : which' = k /\ fn' = ir_builder!build_cfg(ir[k].code)
  /\ stage' = "cfg"
  /\ UNCHANGED <<text, toks, items, sema, hir, ir, m>>

CallFunction ==
  /\ stage = "cfg" /\ m.status = "idle"
  /\ \E a \in Exec!Arguments(fn) : m' = Exec!Start(fn, a)
  /\ UNCHANGED <<text, stage, toks, items, sema, hir, ir, which, fn>>

Run ==
  /\ stage = "cfg" /\ m.status = "run" /\ \E n \in Exec!Steps(fn, m) : m' = n
  /\ UNCHANGED <<text, stage, toks, items, sema, hir, ir, which, fn>>

Next == Lex \/ Parse \/ Analyze \/ LowerToHir \/ LowerToIr \/ BuildCfg \/ CallFunction \/ Run

Spec == Init /\ [][Next]_vars
-----------------------------------------------------------------------------
\* The lexer takes the longest token it can (lexer.cpp).
LongestMatch ==
  stage = "tokens" => [i \in DOMAIN toks |-> toks[i].data] = Written!Longest(text)

\* A program that was parsed, printed with the parentheses it needs, is
\* parsed to itself (parser.cpp; the grammar of docs/language.md).
RoundTrip ==
  stage = "ast" =>
    parser!parse_module(lexer!lex(Written!Text(items)).toks) = [items |-> items, failed |-> FALSE]

\* What the analysis accepts is well typed (semantic.hpp 239-434).
fns == SelectSeq(items, LAMBDA t : t.t = "fn")
WellTyped ==
  stage = "typed" =>
    LET sigs == [name \in {fns[k].name : k \in DOMAIN fns} |->
                   semantic!Signature(fns[CHOOSE k \in DOMAIN fns : fns[k].name = name])]
    IN  \A k \in DOMAIN fns : Types!FunctionTyped(fns[k], sigs[fns[k].name], sigs)

\* What the analysis accepts can be lowered.
AcceptedLowers == stage # "failed"

\* The graph has its edges where its branches go, every operand of an
\* instruction has a value and is registered, and whatever happens control
\* comes to an instruction, not to the end of the last block.
WellFormed ==
  stage = "cfg" =>
    /\ I!IsFunction(fn) /\ I!AllPlaced(fn) /\ I!BranchesResolved(fn) /\ I!UsersComplete(fn)
    /\ I!Linked(fn)
    /\ \A i \in I!Instrs(fn) : I!MatchesOpcode(fn.code[i])
    /\ \A b \in I!Blocks(fn) : fn.block[b].succ = <<>> => I!HasTerminator(fn, b)

\* The graph of a function makes the calls its text means and returns what
\* its text means.
BehaviourPreserved ==
  (stage = "cfg" /\ m.status \in {"ret", "trap", "stuck", "cut"}) =>
    LET names == [name \in {fns[k].name : k \in DOMAIN fns} |->
                    (CHOOSE k \in DOMAIN fns : fns[k].name = name) - 1]
        replies == [n \in DOMAIN m.trace |-> m.trace[n].reply]
        run == Meaning!Call(fns[which], names, m.args, replies, MaxBlocks)
    IN  IF m.status = "cut" THEN IsPrefix(m.trace, run.calls)
        ELSE /\ run.end = m.status /\ run.calls = m.trace
             /\ m.status = "ret" => run.val = m.value
=============================================================================
