----------------------------- MODULE SccpSound ------------------------------
(***************************************************************************)
(* Constant propagation composed with the runs of the function it was      *)
(* given and of the function it made.                                      *)
(***************************************************************************)
EXTENDS Sccp, Preservation

allvars == <<vars, source, before, after>>

SoundInit == Init /\ source = fn /\ Uncalled

Propagate ==
  /\ pc # "done"
  /\ Next
  /\ UNCHANGED <<source, before, after>>

Observe ==
  /\ pc = "done"
  /\ Compare(fn)
  /\ UNCHANGED <<fn, values, flow_worklist, ssa_worklist, executable_blocks,
                 executable_edges, pc, current, next>>

SoundNext == Propagate \/ Observe

SoundSpec == SoundInit /\ [][SoundNext]_allvars /\ WF_allvars(Propagate)

-----------------------------------------------------------------------------
\* A run of the function agrees with a lattice element.
Agrees(w, e) == e = Bot \/ (IsConstant(e) /\ e.value = w)

\* What the analysis claims holds of every run of the function it analysed:
\* control only enters blocks found executable, a value found constant has
\* that constant whenever it is computed and a value left unknown never is
\* (sccp.hpp 209-273; the optimistic start makes this the hard part).
AnalysisSound ==
  before.status # "idle" =>
    /\ before.block \in executable_blocks
    /\ \A v \in Instrs(source) :
         before.env[v] # Undefined => Agrees(before.env[v], values[v])

\* The rewritten function makes the calls of the original one and returns
\* what it returns (sccp.hpp 275-318).
BehaviourPreserved ==
  (before.status # "idle" /\ after.status # "idle") => SameCalls /\ SameEnd
=============================================================================
