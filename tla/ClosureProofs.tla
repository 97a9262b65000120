---------------------------- MODULE ClosureProofs ----------------------------
(***************************************************************************)
(* The safety half of what a marking loop promises, for every graph.       *)
(***************************************************************************)
EXTENDS Closure, TLAPS

\* The marks never leave the least closed set: whatever the graph, a node is
\* only marked if every set closed under it would hold it too.
THEOREM MarksAreLeast == Spec => []Least
<1>1. Init => Least
  BY DEF Init, Least
<1>2. Least /\ [Next]_vars => Least'
  <2> SUFFICES ASSUME Least, [Next]_vars PROVE Least'
    OBVIOUS
  <2>1. ASSUME NEW x \in DOMAIN graph.to, Mark(x) PROVE Least'
    <3>1. graph' = graph
      BY <2>1 DEF Mark
    <3> SUFFICES ASSUME NEW S \in SUBSET (DOMAIN graph.to), Closed(S)
                 PROVE  marked' \subseteq S
      BY <3>1 DEF Least, Closed
    <3>2. marked \subseteq S
      BY DEF Least
    <3>3. x \in S
      BY <2>1, <3>2 DEF Mark, Closed
    <3> QED
      BY <2>1, <3>2, <3>3 DEF Mark
  <2>2. CASE Finish
    BY <2>2 DEF Finish, Least, Closed
  <2>3. CASE UNCHANGED vars
    BY <2>3 DEF vars, Least, Closed
  <2> QED
    BY <2>1, <2>2, <2>3 DEF Next
<1> QED
  BY <1>1, <1>2, PTL DEF Spec

\* The loop never ends while a node that a marked one leads to is unmarked.
THEOREM MarksAreClosed == Spec => []ClosedWhenComplete
<1>1. Init => ClosedWhenComplete
  BY DEF Init, ClosedWhenComplete
<1>2. ClosedWhenComplete /\ [Next]_vars => ClosedWhenComplete'
  <2> SUFFICES ASSUME ClosedWhenComplete, [Next]_vars
               PROVE  ClosedWhenComplete'
    OBVIOUS
  <2>1. ASSUME NEW x \in DOMAIN graph.to, Mark(x) PROVE ClosedWhenComplete'
    BY <2>1 DEF Mark, ClosedWhenComplete
  <2>2. CASE Finish
    BY <2>2 DEF Finish, ClosedWhenComplete, Closed
  <2>3. CASE UNCHANGED vars
    BY <2>3 DEF vars, ClosedWhenComplete, Closed
  <2> QED
    BY <2>1, <2>2, <2>3 DEF Next
<1> QED
  BY <1>1, <1>2, PTL DEF Spec
=============================================================================
