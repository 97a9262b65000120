------------------------------- MODULE Closure -------------------------------
(***************************************************************************)
(* What a marking loop promises, whatever the order it works in: starting  *)
(* from the roots of a graph it marks nodes that a marked one leads to,    *)
(* one by one, and stops when the marks are closed.                        *)
(***************************************************************************)
VARIABLES graph,             \* [roots, to]: a set, and the nodes each leads to
          marked,            \* the nodes marked so far
          complete           \* has the loop ended?

vars == <<graph, marked, complete>>

Closed(S) == graph.roots \subseteq S /\ \A x \in S : graph.to[x] \subseteq S

Init == marked = {} /\ complete = FALSE

Mark(x) ==
  /\ ~complete
  /\ x \notin marked
  /\ x \in graph.roots \/ \E y \in marked : x \in graph.to[y]
  /\ marked' = marked \cup {x}
  /\ UNCHANGED <<graph, complete>>

Finish ==
  /\ ~complete /\ Closed(marked)
  /\ complete' = TRUE
  /\ UNCHANGED <<graph, marked>>

Next == (\E x \in DOMAIN graph.to : Mark(x)) \/ Finish

Spec == Init /\ [][Next]_vars /\ WF_vars(Next)

-----------------------------------------------------------------------------
\* No node is marked in vain: every closed set contains the marks.  With
\* ClosedWhenComplete the loop ends with the least closed set.
Least == \A S \in SUBSET (DOMAIN graph.to) : Closed(S) => marked \subseteq S

\* The loop does not end before its marks are closed.
ClosedWhenComplete == complete => Closed(marked)

\* The loop ends.
Completes == <>complete
=============================================================================
