---------------------------- MODULE Preservation ----------------------------
(***************************************************************************)
(* Did a pass keep the behaviour of a function?  The function as it was    *)
(* is called with some arguments and runs; then the function the pass made *)
(* of it is called with the same arguments and its callees give the same   *)
(* replies.  The pass itself, and the function made, are another module's. *)
(***************************************************************************)
EXTENDS IrExec

VARIABLES source,            \* the function before the pass
          before, after      \* the machines that run it and the one made of it

Uncalled == before = Idle /\ after = Idle

CallBefore ==
  /\ before.status = "idle"
  /\ \E a \in Arguments(source) : before' = Start(source, a)
  /\ UNCHANGED <<source, after>>

StepBefore ==
  /\ before.status = "run"
  /\ \E m \in Steps(source, before) : before' = m
  /\ UNCHANGED <<source, after>>

CallAfter(made) ==
  /\ before.status \notin {"idle", "run"} /\ after.status = "idle"
  /\ after' = Start(made, before.args)
  /\ UNCHANGED <<source, before>>

\* The callees of the second run reply as they did in the first.
SameReplies(m) ==
  LET n == Len(m.trace)
  IN  n \in DOMAIN before.trace => m.trace[n].reply = before.trace[n].reply

StepAfter(made) ==
  /\ after.status = "run"
  /\ \E m \in Steps(made, after) : SameReplies(m) /\ after' = m
  /\ UNCHANGED <<source, before>>

Compare(made) == CallBefore \/ StepBefore \/ CallAfter(made) \/ StepAfter(made)

-----------------------------------------------------------------------------
\* Both runs make the same calls with the same arguments.
SameCalls ==
  \A n \in DOMAIN after.trace \cap DOMAIN before.trace :
    /\ after.trace[n].target = before.trace[n].target
    /\ after.trace[n].args = before.trace[n].args

\* When the first run returned, so does the second, with the same value
\* and after the same calls.  A run that traps (an operation without a
\* result, a read of a cell never written) promises nothing more, and one
\* that was cut off is compared as far as it went.
SameEnd ==
  (before.status = "ret" /\ after.status \notin {"idle", "run"}) =>
    /\ after.status = "ret"
    /\ after.value = before.value
    /\ Len(after.trace) = Len(before.trace)
=============================================================================
