--------------------------- MODULE SimplifySound ----------------------------
(***************************************************************************)
(* Control flow simplification composed with the runs of the function it   *)
(* was given and of the function it made.                                  *)
(***************************************************************************)
EXTENDS SimplifyCfg, Preservation

allvars == <<vars, source, before, after>>

SoundInit == Init /\ source = fn /\ Uncalled

Simplify ==
  /\ pc # "done"
  /\ Next
  /\ UNCHANGED <<source, before, after>>

Observe ==
  /\ pc = "done"
  /\ Compare(fn)
  /\ UNCHANGED <<fn, changed, pc, at, slots, slot>>

SoundNext == Simplify \/ Observe

SoundSpec == SoundInit /\ [][SoundNext]_allvars /\ WF_allvars(Simplify)

-----------------------------------------------------------------------------
\* The simplified function makes the calls of the original one, with the same
\* arguments, and returns what it returns (simplify_cfg.hpp 186-196).
BehaviourPreserved ==
  (before.status # "idle" /\ after.status # "idle") => SameCalls /\ SameEnd
=============================================================================
